------------------------- MODULE ConversationProofs -------------------------
(* Proofs about Conversation, for every value of its constants: what the   *)
(* controller lists, forgets and answers; that its view of the tasks is    *)
(* the agent's whenever it has handled all it received, and what either    *)
(* store has saved is that view; that over the in-memory store it          *)
(* implements the ledger of tasks.                                         *)
EXTENDS Conversation, SequenceLemmas

-----------------------------------------------------------------------------
(* Lists without duplicates.                                               *)

(* list.remove on a list without duplicates: the id is gone, the others    *)
(* stay, and there are still no duplicates.                                *)
LEMMA RemoveFirstProperties ==
  ASSUME NEW S, NEW s \in Seq(S), IsInjective(s), NEW t
  PROVE  /\ RemoveFirst(s, t) \in Seq(S)
         /\ IsInjective(RemoveFirst(s, t))
         /\ Range(RemoveFirst(s, t)) = Range(s) \ {t}
<1> DEFINE r == RemoveFirst(s, t)
<1>0. DOMAIN s = 1..Len(s) /\ Len(s) \in Nat /\ Range(s) = {s[i] : i \in 1..Len(s)}
  BY LenProperties, RangeEquality
<1>1. CASE ~ \E i \in 1..Len(s) : s[i] = t
  <2>1. r = s
    BY <1>1 DEF RemoveFirst
  <2> QED
    BY <2>1, <1>0, <1>1
<1>2. CASE \E i \in 1..Len(s) : s[i] = t
  <2>1. PICK k \in 1..Len(s) : s[k] = t
    BY <1>2
  <2>2. {i \in 1..Len(s) : s[i] = t} = {k}
    BY <2>1, <1>0 DEF IsInjective
  <2>3. SelectInSeq(s, LAMBDA v : v = t) = k
    <3>1. Min({k}) = k
      BY <2>1 DEF Min
    <3> QED
      BY <2>2, <3>1 DEF SelectInSeq
  <2> DEFINE a == SubSeq(s, 1, k - 1)
             b == SubSeq(s, k + 1, Len(s))
  <2>4. r = a \o b
    BY <1>2, <2>3 DEF RemoveFirst, RemoveAt
  <2>5. a \in Seq(S) /\ Len(a) = k - 1 /\ \A i \in 1..(k - 1) : a[i] = s[i]
    BY <1>0, <2>1, SubSeqProperties, ElementOfSeq
  <2>6. b \in Seq(S) /\ Len(b) = Len(s) - k /\ \A i \in 1..(Len(s) - k) : b[i] = s[k + i]
    <3>1. k + 1 \in Int /\ Len(s) \in Int /\ \A i \in (k + 1)..Len(s) : s[i] \in S
      BY <1>0, <2>1, ElementOfSeq
    <3>2. /\ b \in Seq(S)
          /\ Len(b) = IF k + 1 <= Len(s) THEN Len(s) - (k + 1) + 1 ELSE 0
          /\ \A i \in 1..(Len(s) - (k + 1) + 1) : b[i] = s[(k + 1) + i - 1]
      BY <3>1, SubSeqProperties
    <3> HIDE DEF b
    <3>3. Len(b) = Len(s) - k
      <4>1. Len(s) \in Nat /\ k \in Nat /\ k <= Len(s)
        BY <1>0, <2>1
      <4>2. Len(b) = IF k + 1 <= Len(s) THEN Len(s) - (k + 1) + 1 ELSE 0
        BY <3>2
      <4> QED
        BY <4>1, <4>2
    <3>4. ASSUME NEW i \in 1..(Len(s) - k)
          PROVE  b[i] = s[k + i]
      <4>1. i \in 1..(Len(s) - (k + 1) + 1) /\ (k + 1) + i - 1 = k + i
        BY <1>0, <2>1
      <4> QED
        BY <4>1, <3>2
    <3> QED
      BY <3>2, <3>3, <3>4
  <2> HIDE DEF r, a, b
  <2>7. /\ r \in Seq(S)
        /\ Len(r) = Len(s) - 1
        /\ \A i \in 1..(Len(s) - 1) : r[i] = IF i < k THEN s[i] ELSE s[i + 1]
    <3>1. /\ a \o b \in Seq(S)
          /\ Len(a \o b) = Len(a) + Len(b)
          /\ \A i \in 1..(Len(a) + Len(b)) :
               (a \o b)[i] = IF i <= Len(a) THEN a[i] ELSE b[i - Len(a)]
      BY <2>5, <2>6, ConcatProperties
    <3>2. Len(r) = Len(s) - 1
      BY <1>0, <2>1, <2>4, <2>5, <2>6, <3>1
    <3>3. ASSUME NEW i \in 1..(Len(s) - 1), i < k
          PROVE  r[i] = s[i]
      BY <1>0, <2>1, <2>4, <2>5, <2>6, <3>1, <3>3
    <3>4. ASSUME NEW i \in 1..(Len(s) - 1), ~ (i < k)
          PROVE  r[i] = s[i + 1]
      <4>1. i - (k - 1) \in 1..(Len(s) - k) /\ k + (i - (k - 1)) = i + 1
        BY <1>0, <2>1, <3>4
      <4>2. i \in 1..(Len(a) + Len(b)) /\ ~ (i <= Len(a))
        BY <1>0, <2>1, <2>5, <2>6, <3>4
      <4>3. r[i] = b[i - (k - 1)]
        BY <2>4, <2>5, <3>1, <4>2
      <4> QED
        BY <2>6, <4>1, <4>3
    <3> QED
      BY <2>4, <3>1, <3>2, <3>3, <3>4
  <2>8. DOMAIN r = 1..(Len(s) - 1) /\ Range(r) = {r[i] : i \in 1..(Len(s) - 1)}
    BY <2>7, LenProperties, RangeEquality
  <2>9. IsInjective(r)
    <3> SUFFICES ASSUME NEW i \in 1..(Len(s) - 1), NEW j \in 1..(Len(s) - 1),
                        r[i] = r[j]
                 PROVE  i = j
      BY <2>8 DEF IsInjective
    <3> DEFINE at(n) == IF n < k THEN n ELSE n + 1
    <3>1. at(i) \in 1..Len(s) /\ at(j) \in 1..Len(s) /\ s[at(i)] = s[at(j)]
      BY <1>0, <2>1, <2>7
    <3>2. at(i) = at(j)
      BY <3>1, <1>0 DEF IsInjective
    <3> QED
      BY <3>2, <1>0, <2>1
  <2>10. Range(r) \subseteq Range(s) \ {t}
    BY <1>0, <2>1, <2>7, <2>8 DEF IsInjective
  <2>11. Range(s) \ {t} \subseteq Range(r)
    <3> SUFFICES ASSUME NEW i \in 1..Len(s), s[i] # t
                 PROVE  s[i] \in Range(r)
      BY <1>0
    <3>1. CASE i < k
      BY <3>1, <1>0, <2>1, <2>7, <2>8
    <3>2. CASE i > k
      <4>1. i - 1 \in 1..(Len(s) - 1) /\ ~(i - 1 < k) /\ (i - 1) + 1 = i
        BY <3>2, <1>0, <2>1
      <4>2. r[i - 1] = s[i]
        BY <4>1, <2>7
      <4> QED
        BY <4>1, <4>2, <2>8
    <3> QED
      BY <3>1, <3>2, <2>1, <1>0
  <2> QED
    BY <2>7, <2>9, <2>10, <2>11 DEF r
<1> QED
  BY <1>1, <1>2

(* _touch_task keeps the list free of duplicates and adds one id at most.  *)
LEMMA TouchedProperties ==
  ASSUME NEW S, NEW s \in Seq(S), IsInjective(s), NEW t \in S
  PROVE  /\ Touched(s, t) \in Seq(S)
         /\ IsInjective(Touched(s, t))
         /\ Range(Touched(s, t)) = Range(s) \cup {t}
<1> DEFINE r == RemoveFirst(s, t)
<1>1. r \in Seq(S) /\ IsInjective(r) /\ Range(r) = Range(s) \ {t}
  BY RemoveFirstProperties
<1>2. DOMAIN r = 1..Len(r) /\ Len(r) \in Nat /\ Range(r) = {r[i] : i \in 1..Len(r)}
  BY <1>1, LenProperties, RangeEquality
<1> HIDE DEF r
<1>3. /\ Append(r, t) \in Seq(S)
      /\ Len(Append(r, t)) = Len(r) + 1
      /\ \A i \in 1..Len(r) : Append(r, t)[i] = r[i]
      /\ Append(r, t)[Len(r) + 1] = t
  BY <1>1, AppendProperties
<1>4. /\ DOMAIN Append(r, t) = 1..(Len(r) + 1)
      /\ Range(Append(r, t)) = {Append(r, t)[i] : i \in 1..(Len(r) + 1)}
  BY <1>3, LenProperties, RangeEquality
<1>5. IsInjective(Append(r, t))
  BY <1>1, <1>2, <1>3, <1>4 DEF IsInjective
<1>6. Range(Append(r, t)) = Range(r) \cup {t}
  BY <1>2, <1>3, <1>4
<1> QED
  BY <1>1, <1>3, <1>5, <1>6 DEF Touched, r

(* current_task_id is a listed task, or None.                              *)
LEMMA CurrentTaskIsListed ==
  ASSUME NEW S, NEW order \in Seq(S), NEW wait
  PROVE  CurrentTask(order, wait) \in Range(order) \cup {NoTask}
<1> DEFINE blocked == {i \in 1..Len(order) : wait[order[i]] # "none"}
<1>1. Len(order) \in Nat /\ Range(order) = {order[i] : i \in 1..Len(order)}
  BY LenProperties, RangeEquality
<1>2. CASE blocked # {}
  <2>1. \E m \in blocked : \A i \in blocked : m >= i
    <3> DEFINE gaps == {Len(order) - i : i \in blocked}
    <3>1. gaps \subseteq Nat /\ gaps # {}
      BY <1>1, <1>2
    <3>3. PICK x \in gaps : \A y \in gaps : x <= y
      BY <3>1, LeastNatural
    <3>4. PICK m \in blocked : x = Len(order) - m
      OBVIOUS
    <3>5. ASSUME NEW i \in blocked PROVE m >= i
      <4>1. Len(order) \in Nat /\ m \in Nat /\ i \in Nat
        BY <1>1
      <4>2. x <= Len(order) - i
        BY <3>3
      <4> QED
        BY <4>1, <4>2, <3>4
    <3> QED
      BY <3>5
  <2>2. Max(blocked) \in blocked
    BY <2>1 DEF Max
  <2> QED
    BY <1>1, <1>2, <2>2 DEF CurrentTask
<1>3. CASE blocked = {} /\ order # <<>>
  <2>1. Len(order) \in 1..Len(order)
    BY <1>1, <1>3, EmptySeq
  <2> QED
    BY <1>1, <1>3, <2>1 DEF CurrentTask, Last
<1>4. CASE blocked = {} /\ order = <<>>
  BY <1>4 DEF CurrentTask
<1> QED
  BY <1>2, <1>3, <1>4
-----------------------------------------------------------------------------
(* The types, and lists without duplicates.                                *)

Basics == TypeOK /\ OrderedOnce /\ SavedOnce

(* The event the receive loop reads is an event, and what is left of the   *)
(* inbox a sequence of events.                                             *)
LEMMA InboxHead ==
  ASSUME inbox \in Seq(Event), inbox # <<>>
  PROVE  /\ Head(inbox) \in Event /\ Head(inbox) = inbox[1]
         /\ Tail(inbox) \in Seq(Event)
         /\ Len(inbox) \in Nat \ {0} /\ Len(Tail(inbox)) = Len(inbox) - 1
         /\ \A i \in 1..(Len(inbox) - 1) : Tail(inbox)[i] = inbox[i + 1]
BY HeadTailProperties, EmptySeq

(* What a save puts into the store is a snapshot.                          *)
LEMMA SnapshotType ==
  ASSUME call \in 1..MaxCalls, NEW order \in Seq(Tasks), NEW ended \in BOOLEAN
  PROVE  Snapshot(order, ended) \in SessionSnapshot
BY DEF Snapshot, SessionSnapshot

(* The handler of an event leaves the list it saves well typed and free of *)
(* duplicates.                                                             *)
LEMMA HandleList ==
  ASSUME Basics, Handle
  PROVE  /\ task_order' \in Seq(Tasks) /\ IsInjective(task_order')
         /\ waiting' \in [Tasks -> Reasons]
         /\ Head(inbox).task \in Tasks /\ Head(inbox).reason \in Reasons
         /\ \/ task_order' = task_order /\ waiting' = waiting
            \/ /\ Range(task_order') = Range(task_order) \cup {Head(inbox).task}
               /\ Head(inbox).kind \in {"low", "high", "ask", "update"}
               /\ \/ waiting' = waiting
                  \/ waiting' = Announced(waiting, Head(inbox).task, Head(inbox).reason)
<1> USE DEF Basics, TypeOK, ControllerType, NetworkType, OrderedOnce
<1>1. inbox \in Seq(Event) /\ inbox # <<>>
  BY DEF Handle
<1> DEFINE e == Head(inbox)
<1>2. e \in Event /\ e.task \in Tasks /\ e.reason \in Reasons
  BY <1>1, InboxHead DEF Event
<1>3. /\ Touched(task_order, e.task) \in Seq(Tasks)
      /\ IsInjective(Touched(task_order, e.task))
      /\ Range(Touched(task_order, e.task)) = Range(task_order) \cup {e.task}
  BY <1>2, TouchedProperties
<1>4. Announced(waiting, e.task, e.reason) \in [Tasks -> Reasons]
  BY <1>2 DEF Announced
<1>5. CASE HandleNarration(e)
  BY <1>2, <1>3, <1>5 DEF HandleNarration
<1>6. CASE HandleQuestion(e)
  BY <1>2, <1>3, <1>4, <1>6 DEF HandleQuestion
<1>7. CASE HandleTaskUpdate(e)
  BY <1>2, <1>3, <1>4, <1>7 DEF HandleTaskUpdate
<1>8. CASE HandleEnding(e)
  BY <1>2, <1>8 DEF HandleEnding, controller
<1>9. CASE HandleUnknown(e)
  BY <1>2, <1>9 DEF HandleUnknown, controller
<1> QED
  BY <1>5, <1>6, <1>7, <1>8, <1>9 DEF Handle

(* The save of the receive loop keeps the store well typed.                *)
LEMMA PersistType ==
  ASSUME StoreType, Persist, call \in 1..MaxCalls, task_order' \in Seq(Tasks)
  PROVE  StoreType' /\ rx' \in {"waiting", "saving"} /\ rx_event' = NoEvent
<1> DEFINE snap == Snapshot(task_order', FALSE)
<1>1. snap \in SessionSnapshot
  BY SnapshotType
<1>2. [by |-> "loop", snap |-> snap] \in [by : {"loop", "stop"}, snap : SessionSnapshot]
  BY <1>1
<1> HIDE DEF snap
<1>3. CASE StoreKind = "memory"
  <2>1. rx' = "waiting" /\ store' = snap /\ writes' = writes /\ rx_event' = NoEvent
    BY <1>3 DEF Persist, snap
  <2> QED
    BY <1>1, <2>1 DEF StoreType
<1>4. CASE StoreKind # "memory"
  <2>1. /\ rx' = "saving" /\ store' = store /\ rx_event' = NoEvent
        /\ writes' = writes \cup {[by |-> "loop", snap |-> snap]}
    BY <1>4 DEF Persist, snap
  <2> QED
    BY <1>2, <1>4, <2>1 DEF StoreType
<1> QED
  BY <1>3, <1>4

(* Every step keeps the types.                                             *)
LEMMA TypeStep ==
  ASSUME Basics, Next
  PROVE  TypeOK'
<1> USE DEF Basics, TypeOK, ControllerType, LoopType, TurnType, StoreType,
            NetworkType, AgentType, controller, loop, storage, network, agent
<1>0. Nothing \in Message
  BY DEF Nothing, Untargeted, Message
<1>1. ASSUME NEW resume \in BOOLEAN, Start(resume)
      PROVE  TypeOK'
  <2>1. task_order' \in Seq(Tasks)
    BY <1>1, EmptySeq DEF Start, Restored, SessionSnapshot
  <2>2. call' \in 0..MaxCalls /\ call' > 0
    BY <1>1, BoundAssumption DEF Start
  <2> QED
    BY <1>0, <1>1, <2>1, <2>2, EmptySeq DEF Start, NoReasons, AllIdle, Reasons
<1>2. ASSUME Connected
      PROVE  TypeOK'
  BY <1>0, <1>2 DEF Connected
<1>3. ASSUME ConnectFails
      PROVE  TypeOK'
  BY <1>0, <1>3 DEF ConnectFails
<1>4. ASSUME Handle
      PROVE  TypeOK'
  <2> DEFINE e == Head(inbox)
  <2>1. /\ ControllerType' /\ phase \in {"running", "stopping", "aborted"}
        /\ call \in 1..MaxCalls
    BY <1>4, HandleList, BoundAssumption DEF Handle
  <2>2. e \in Event /\ Tail(inbox) \in Seq(Event)
    BY <1>4, InboxHead DEF Handle
  <2>4. CASE rx' = "dead" /\ UNCHANGED <<rx_event, storage>>
    BY <1>0, <1>4, <2>1, <2>2, <2>4 DEF Handle
  <2>5. CASE AwaitInterrupt(e)
    BY <1>0, <1>4, <2>1, <2>2, <2>5 DEF Handle, AwaitInterrupt
  <2>6. CASE Persist
    <3>1. StoreType' /\ LoopType'
      BY <1>4, <2>1, <2>6, PersistType DEF Handle
    <3> QED
      BY <1>0, <1>4, <2>1, <2>2, <3>1 DEF Handle
  <2> QED
    BY <1>4, <2>4, <2>5, <2>6
       DEF Handle, HandleNarration, HandleQuestion, HandleTaskUpdate,
           HandleEnding, HandleUnknown, LowLineFails
<1>5. ASSUME FinishSpeaking
      PROVE  TypeOK'
  <2>1. rx_event \in Event /\ rx_event.task \in Tasks
    BY <1>5 DEF FinishSpeaking, Event
  <2>2. /\ ControllerType' /\ phase \in {"running", "stopping", "aborted"}
        /\ call \in 1..MaxCalls
    BY <1>5, <2>1, RemoveFirstProperties, BoundAssumption
       DEF FinishSpeaking, Dropped, Announced, OrderedOnce, Reasons
  <2>3. StoreType' /\ LoopType'
    BY <1>5, <2>2, PersistType DEF FinishSpeaking
  <2> QED
    BY <1>0, <1>5, <2>1, <2>2, <2>3 DEF FinishSpeaking
<1>6. ASSUME SpeakFails
      PROVE  TypeOK'
  BY <1>0, <1>6 DEF SpeakFails, Event
<1>7. ASSUME Stop
      PROVE  TypeOK'
  <2>1. call \in 1..MaxCalls
    BY <1>7, BoundAssumption DEF Stop
  <2>2. Snapshot(task_order, TRUE) \in SessionSnapshot
    BY <2>1, SnapshotType
  <2>3. [by |-> "stop", snap |-> Snapshot(task_order, TRUE)]
          \in [by : {"loop", "stop"}, snap : SessionSnapshot]
    BY <2>2
  <2>4. CASE StoreKind = "memory"
    BY <1>0, <1>7, <2>1, <2>2, <2>4 DEF Stop, CancelLoop, Event
  <2>5. CASE StoreKind # "memory"
    BY <1>0, <1>7, <2>1, <2>3, <2>5 DEF Stop
  <2> QED
    BY <2>4, <2>5
<1>8. ASSUME CloseClient
      PROVE  TypeOK'
  <2>1. \A i \in 1..Len(inbox) : inbox[i] \in Event
    BY ElementOfSeq
  <2>2. \A i \in 1..Len(inbox) : inbox[i].task \in Tasks
    BY <2>1 DEF Event
  <2> QED
    BY <1>0, <1>8, <2>2, EmptySeq DEF CloseClient
<1>9. ASSUME Crash
      PROVE  TypeOK'
  BY <1>0, <1>9, EmptySeq DEF Crash, NoReasons, AllIdle, Reasons
<1>10. ASSUME NEW w \in writes, SaveLands(w)
       PROVE  TypeOK'
  BY <1>0, <1>10 DEF SaveLands, Awaited, CancelLoop, Event
<1>11. ASSUME NEW w \in writes, SaveVanishes(w)
       PROVE  TypeOK'
  BY <1>0, <1>11 DEF SaveVanishes
<1>12. ASSUME NEW w \in writes, SaveFails(w)
       PROVE  TypeOK'
  BY <1>0, <1>12 DEF SaveFails, Awaited
<1>13. CurrentTask(task_order, waiting) \in Tasks \cup {NoTask}
  BY CurrentTaskIsListed, RangeOfSeq
<1>14. ASSUME NEW u \in Turns, Utter(u)
       PROVE  TypeOK'
  BY <1>0, <1>13, <1>14 DEF Utter
<1>15. ASSUME NEW u \in Turns, NEW m \in Message, EndTurn(u, m), intents' \in Nat
       PROVE  TypeOK'
  BY <1>0, <1>15 DEF EndTurn
<1>16. ASSUME NEW u \in Turns,
              AnswerLocally(u) \/ SendIntent(u) \/ SendQuery(u) \/ LoseTurn(u)
       PROVE  TypeOK'
  <2>1. /\ Untargeted("user_utterance") \in Message
        /\ Untargeted("session_query") \in Message
    BY DEF Untargeted, Message
  <2> QED
    BY <1>0, <1>15, <1>16, <2>1
       DEF AnswerLocally, SendIntent, SendQuery, LoseTurn
<1>17. ASSUME NEW u \in Turns,
              NEW type \in {"interrupt", "confirmation_response"}, SendReply(u, type)
       PROVE  TypeOK'
  <2> DEFINE target == CurrentTask(task_order, waiting)
             m == IF target = NoTask THEN Nothing ELSE [type |-> type, task |-> target]
  <2>1. m \in Message
    BY <1>0, <1>13 DEF Message
  <2> QED
    BY <1>15, <1>17, <2>1 DEF SendReply
<1>18. ASSUME LinkDrops
       PROVE  TypeOK'
  <2>1. PICK k \in 0..Len(inbox) :
          /\ inbox' = SubSeq(inbox, 1, k)
          /\ missed' = missed \cup {inbox[i].task : i \in (k + 1)..Len(inbox)}
    BY <1>18 DEF LinkDrops
  <2>2. Len(inbox) \in Nat /\ \A i \in 1..Len(inbox) : inbox[i] \in Event
    BY LenProperties, ElementOfSeq
  <2>3. inbox' \in Seq(Event)
    BY <2>1, <2>2, SubSeqProperties
  <2>4. missed' \subseteq Tasks
    BY <2>1, <2>2 DEF Event
  <2> QED
    BY <1>0, <1>18, <2>3, <2>4 DEF LinkDrops
<1>19. ASSUME Reconnected \/ GivesUp
       PROVE  TypeOK'
  BY <1>0, <1>19 DEF Reconnected, GivesUp, Reconnecting
<1>20. ASSUME NEW e \in Event, AgentEmits(e),
              status' \in [Tasks -> {"unopened", "open", "over"}], intents' \in Nat
       PROVE  TypeOK'
  <2>1. Append(inbox, e) \in Seq(Event)
    BY AppendProperties
  <2> QED
    BY <1>0, <1>20, <2>1 DEF AgentEmits, Event
<1>21. ASSUME NEW t \in Tasks, AgentOpens(t)
       PROVE  TypeOK'
  <2>1. [kind |-> "low", task |-> t, reason |-> "none"] \in Event
    BY DEF Event, Kinds, Reasons
  <2> QED
    BY <1>20, <1>21, <2>1 DEF AgentOpens
<1>22. ASSUME NEW t \in Tasks, NEW kind \in Kinds, NEW why \in Reasons,
              AgentSays(t, kind, why)
       PROVE  TypeOK'
  <2>1. [kind |-> kind, task |-> t, reason |-> why] \in Event
    BY DEF Event
  <2> QED
    BY <1>20, <1>22, <2>1 DEF AgentSays
<1>23. ASSUME NEW t \in Tasks, NEW kind \in {"done", "failure"},
              AgentFinishes(t, kind)
       PROVE  TypeOK'
  <2>1. [kind |-> kind, task |-> t, reason |-> "none"] \in Event
    BY DEF Event, Kinds, Reasons
  <2> QED
    BY <1>20, <1>23, <2>1 DEF AgentFinishes
<1> QED
  BY SMTT(30), <1>1, <1>2, <1>3, <1>4, <1>5, <1>6, <1>7, <1>8, <1>9, <1>10, <1>11, <1>12,
     <1>14, <1>16, <1>17, <1>18, <1>19, <1>21, <1>22, <1>23
     DEF Next, ControllerNext, TurnNext, EnvironmentNext, Kinds

(* A step saves what it leaves in the task list, or nothing.               *)
LEMMA SnapshotsStep ==
  ASSUME Next, NEW snap \in Snapshots'
  PROVE  snap \in Snapshots \/ snap.active = task_order'
<1> USE DEF Snapshots, Snapshot, storage
<1>1. ASSUME Persist
      PROVE  snap \in Snapshots \/ snap.active = task_order'
  BY <1>1 DEF Persist
<1>2. ASSUME Handle
      PROVE  snap \in Snapshots \/ snap.active = task_order'
  <2>1. Persist \/ UNCHANGED storage
    BY <1>2 DEF Handle, HandleNarration, HandleQuestion, HandleTaskUpdate,
                HandleEnding, HandleUnknown, AwaitInterrupt, LowLineFails
  <2> QED
    BY <1>1, <2>1
<1>3. ASSUME FinishSpeaking
      PROVE  snap \in Snapshots \/ snap.active = task_order'
  BY <1>1, <1>3 DEF FinishSpeaking
<1>4. ASSUME Stop
      PROVE  snap \in Snapshots \/ snap.active = task_order'
  BY <1>4 DEF Stop, controller
<1>5. ASSUME \E w \in writes : SaveLands(w) \/ SaveVanishes(w) \/ SaveFails(w)
      PROVE  snap \in Snapshots
  BY <1>5 DEF SaveLands, SaveVanishes, SaveFails
<1>6. ASSUME Crash
      PROVE  snap \in Snapshots
  BY <1>6 DEF Crash
<1>7. ASSUME UNCHANGED storage
      PROVE  snap \in Snapshots
  BY <1>7
<1>8. ASSUME \/ \E resume \in BOOLEAN : Start(resume)
             \/ Connected \/ ConnectFails \/ SpeakFails \/ CloseClient
             \/ TurnNext \/ EnvironmentNext
      PROVE  UNCHANGED storage
  <2>1. CASE TurnNext
    BY <2>1 DEF TurnNext, Utter, AnswerLocally, SendIntent, SendReply, SendQuery,
                LoseTurn, EndTurn
  <2>2. CASE EnvironmentNext
    BY <2>2 DEF EnvironmentNext, LinkDrops, Reconnected, GivesUp, AgentOpens,
                AgentSays, AgentFinishes, AgentEmits
  <2> QED
    BY <1>8, <2>1, <2>2
       DEF Start, Connected, ConnectFails, SpeakFails, CloseClient
<1> QED
  BY <1>2, <1>3, <1>4, <1>5, <1>6, <1>7, <1>8 DEF Next, ControllerNext

(* Only these steps change the task list.                                  *)
LEMMA ListStep ==
  ASSUME Next
  PROVE  \/ \E resume \in BOOLEAN : Start(resume)
         \/ Handle \/ FinishSpeaking \/ Crash
         \/ UNCHANGED controller
<1>1. CASE TurnNext
  BY <1>1 DEF TurnNext, Utter, AnswerLocally, SendIntent, SendReply, SendQuery,
              LoseTurn, EndTurn
<1>2. CASE EnvironmentNext
  BY <1>2 DEF EnvironmentNext, LinkDrops, Reconnected, GivesUp, AgentOpens,
              AgentSays, AgentFinishes, AgentEmits
<1>3. CASE ControllerNext
  BY <1>3 DEF ControllerNext, Connected, ConnectFails, SpeakFails, Stop,
              CloseClient, SaveLands, SaveVanishes, SaveFails
<1> QED
  BY <1>1, <1>2, <1>3 DEF Next

(* A terminal event that has been spoken removes its task, and only it.    *)
LEMMA FinishList ==
  ASSUME Basics, FinishSpeaking
  PROVE  /\ rx_event.task \in Tasks
         /\ IsInjective(task_order')
         /\ IF EndsTask(rx_event)
            THEN /\ Range(task_order') = Range(task_order) \ {rx_event.task}
                 /\ waiting' = Announced(waiting, rx_event.task, "none")
                 /\ closed' = closed \cup {rx_event.task}
            ELSE UNCHANGED <<task_order, waiting, closed>>
<1>1. rx_event.task \in Tasks
  BY DEF Basics, TypeOK, LoopType, FinishSpeaking, Event
<1>2. task_order \in Seq(Tasks) /\ IsInjective(task_order)
  BY DEF Basics, TypeOK, ControllerType, OrderedOnce
<1> QED
  BY <1>1, <1>2, RemoveFirstProperties DEF FinishSpeaking, Dropped, controller

(* Every step keeps the types and each task once.                          *)
LEMMA BasicsStep ==
  ASSUME Basics, [Next]_vars
  PROVE  Basics'
<1>1. CASE UNCHANGED vars
  BY <1>1 DEF vars, Basics, TypeOK, ControllerType, LoopType, TurnType, StoreType,
              NetworkType, AgentType, OrderedOnce, SavedOnce, Snapshots,
              controller, loop, storage, network, agent
<1>2. ASSUME Next
      PROVE  Basics'
  <2>1. TypeOK'
    BY <1>2, TypeStep
  <2>2. OrderedOnce'
    <3>1. ASSUME NEW resume \in BOOLEAN, Start(resume)
          PROVE  OrderedOnce'
      <4>1. IsInjective(task_order')
        BY <3>1 DEF Start, Restored, Basics, SavedOnce, Snapshots, IsInjective
      <4> QED
        BY <3>1, <4>1 DEF Start, NoReasons, OrderedOnce
    <3>2. ASSUME Handle
          PROVE  OrderedOnce'
      BY <3>2, HandleList DEF Basics, OrderedOnce, Announced, TypeOK, ControllerType
    <3>3. ASSUME FinishSpeaking
          PROVE  OrderedOnce'
      BY <3>3, FinishList DEF Basics, OrderedOnce, Announced, TypeOK, ControllerType
    <3>4. ASSUME Crash
          PROVE  OrderedOnce'
      BY <3>4 DEF Crash, NoReasons, OrderedOnce, IsInjective
    <3>5. ASSUME UNCHANGED controller
          PROVE  OrderedOnce'
      BY <3>5 DEF Basics, controller, OrderedOnce
    <3> QED
      BY <1>2, <3>1, <3>2, <3>3, <3>4, <3>5, ListStep
  <2>3. SavedOnce'
    BY <1>2, <2>2, SnapshotsStep DEF Basics, SavedOnce, OrderedOnce
  <2> QED
    BY <2>1, <2>2, <2>3 DEF Basics
<1> QED
  BY <1>1, <1>2

(* Types and lists at the beginning.                                       *)
LEMMA BasicsInit ==
  ASSUME Init
  PROVE  Basics
<1>1. TypeOK
  BY EmptySeq, BoundAssumption DEF Init, TypeOK, ControllerType, LoopType, TurnType, StoreType,
     NetworkType, AgentType, NoReasons, AllIdle, Reasons, Nothing, Untargeted,
     Message
<1>2. OrderedOnce /\ SavedOnce
  BY DEF Init, OrderedOnce, SavedOnce, Snapshots, NoReasons, IsInjective
<1> QED
  BY <1>1, <1>2 DEF Basics

(* Every variable keeps the type the code gives it.                        *)
THEOREM TypeCorrect == Spec => []TypeOK
<1>1. Basics => TypeOK
  BY DEF Basics
<1> QED
  BY BasicsInit, BasicsStep, <1>1, PTL DEF Spec

(* The task list never names a task twice, and only listed tasks keep a    *)
(* waiting reason.                                                         *)
THEOREM ListCorrect == Spec => []OrderedOnce
<1>1. Basics => OrderedOnce
  BY DEF Basics
<1> QED
  BY BasicsInit, BasicsStep, <1>1, PTL DEF Spec

-----------------------------------------------------------------------------
(* What becomes of the events: the invariants that relate the task list to *)
(* the inbox and to the agent.                                             *)

(* The receive loop is cancelled.                                          *)
Cancels ==
  /\ rx' = "none"
  /\ missed' = missed \cup (IF rx = "speaking" THEN {rx_event.task} ELSE {})
  /\ UNCHANGED <<task_order, waiting, inbox, status, closed>>

(* Nothing happens that these invariants speak of.                         *)
Quiet ==
  /\ rx' = "speaking" <=> rx = "speaking"
  /\ UNCHANGED <<rx_event, task_order, waiting, inbox, status, closed, missed>>

AgentStep(e) ==
  /\ e \in Event
  /\ AgentEmits(e)
  /\ \/ /\ status[e.task] = "unopened" /\ link = "up"
        /\ status' = [status EXCEPT ![e.task] = "open"] /\ ~ EndsTask(e)
     \/ status[e.task] = "open" /\ UNCHANGED status /\ ~ EndsTask(e)
     \/ /\ status[e.task] = "open" /\ EndsTask(e)
        /\ status' = [status EXCEPT ![e.task] = "over"]

(* What the network and the agent do.                                      *)
LEMMA AgentSteps ==
  ASSUME EnvironmentNext
  PROVE  LinkDrops \/ Reconnected \/ GivesUp \/ \E e \in Event : AgentStep(e)
<1>1. ASSUME NEW t \in Tasks, AgentOpens(t)
      PROVE  \E e \in Event : AgentStep(e)
  <2> DEFINE e == [kind |-> "low", task |-> t, reason |-> "none"]
  <2>1. e \in Event /\ ~ EndsTask(e) /\ e.task = t
    BY DEF Event, Kinds, Reasons, EndsTask
  <2>2. AgentStep(e)
    BY <1>1, <2>1 DEF AgentOpens, AgentStep
  <2> QED
    BY <2>1, <2>2
<1>2. ASSUME NEW t \in Tasks,
             NEW kind \in {"low", "high", "ask", "update", "error", "unknown"},
             NEW why \in Reasons, AgentSays(t, kind, why)
      PROVE  \E e \in Event : AgentStep(e)
  <2> DEFINE e == [kind |-> kind, task |-> t, reason |-> why]
  <2>1. e \in Event /\ ~ EndsTask(e) /\ e.task = t
    BY DEF Event, Kinds, EndsTask
  <2>2. AgentStep(e)
    BY <1>2, <2>1 DEF AgentSays, AgentStep
  <2> QED
    BY <2>1, <2>2
<1>3. ASSUME NEW t \in Tasks, NEW kind \in {"done", "failure"},
             AgentFinishes(t, kind)
      PROVE  \E e \in Event : AgentStep(e)
  <2> DEFINE e == [kind |-> kind, task |-> t, reason |-> "none"]
  <2>1. e \in Event /\ EndsTask(e) /\ e.task = t
    BY DEF Event, Kinds, Reasons, EndsTask
  <2>2. AgentStep(e)
    BY <1>3, <2>1 DEF AgentFinishes, AgentStep
  <2> QED
    BY <2>1, <2>2
<1> QED
  BY <1>1, <1>2, <1>3 DEF EnvironmentNext

(* Every step is one of these.                                             *)
LEMMA Steps ==
  ASSUME Basics, Next
  PROVE  \/ \E resume \in BOOLEAN : Start(resume)
         \/ Handle \/ FinishSpeaking \/ SpeakFails \/ Cancels
         \/ CloseClient \/ Crash \/ LinkDrops
         \/ \E e \in Event : AgentStep(e)
         \/ Quiet
<1> USE DEF controller, loop, network, agent
<1>1. CASE TurnNext
  <2>1. Quiet
    BY <1>1 DEF TurnNext, Utter, AnswerLocally, SendIntent, SendReply, SendQuery,
                LoseTurn, EndTurn, Quiet
  <2> QED
    BY <2>1
<1>2. ASSUME Stop \/ \E w \in writes : SaveLands(w)
      PROVE  Cancels \/ Quiet
  <2>1. ASSUME NEW w \in writes, SaveLands(w)
        PROVE  Cancels \/ Quiet
    <3>1. CASE Awaited(w) /\ w.by = "stop"
      BY <2>1, <3>1 DEF SaveLands, CancelLoop, Cancels
    <3>2. CASE ~ (Awaited(w) /\ w.by = "stop")
      <4>1. rx' = rx \/ (rx = "saving" /\ rx' = "waiting")
        BY <2>1, <3>2 DEF SaveLands, Awaited, Basics, TypeOK, StoreType
      <4> QED
        BY <2>1, <3>2, <4>1 DEF SaveLands, Quiet
    <3> QED
      BY <3>1, <3>2
  <2> QED
    BY <1>2, <2>1 DEF Stop, CancelLoop, Cancels, Quiet
<1>3. ASSUME \/ Connected \/ ConnectFails \/ Reconnected \/ GivesUp
             \/ \E w \in writes : SaveVanishes(w) \/ SaveFails(w)
      PROVE  Quiet
  BY <1>3 DEF Connected, ConnectFails, Reconnected, GivesUp, Reconnecting,
              SaveVanishes, SaveFails, Awaited, Quiet, Basics, TypeOK, LoopType
<1>4. CASE EnvironmentNext
  BY <1>3, <1>4, AgentSteps
<1> QED
  BY <1>1, <1>2, <1>3, <1>4 DEF Next, ControllerNext

(* A new event goes to the end of the inbox, or it is missed.              *)
LEMMA EmitStep ==
  ASSUME Basics, NEW e \in Event, AgentEmits(e)
  PROVE  /\ UNCHANGED <<rx, rx_event, task_order, waiting, closed, store, writes>>
         /\ missed \subseteq missed'
         /\ \/ inbox' = inbox /\ e.task \in missed'
            \/ /\ Len(inbox') = Len(inbox) + 1 /\ inbox'[Len(inbox) + 1] = e
               /\ \A i \in 1..Len(inbox) : inbox'[i] = inbox[i]
               /\ Len(inbox) \in Nat /\ missed' = missed
<1>1. inbox \in Seq(Event)
  BY DEF Basics, TypeOK, NetworkType
<1> QED
  BY <1>1, AppendProperties, LenProperties DEF AgentEmits, controller, loop, storage

(* A drop keeps the events received first and counts the others as missed. *)
LEMMA DropStep ==
  ASSUME Basics, LinkDrops
  PROVE  /\ UNCHANGED <<rx, rx_event, task_order, waiting, status, closed>>
         /\ missed \subseteq missed'
         /\ Len(inbox) \in Nat /\ Len(inbox') \in Nat /\ Len(inbox') <= Len(inbox)
         /\ \A i \in 1..Len(inbox') : inbox'[i] = inbox[i]
         /\ \A i \in (Len(inbox') + 1)..Len(inbox) : inbox[i].task \in missed'
<1>1. PICK k \in 0..Len(inbox) :
        /\ inbox' = SubSeq(inbox, 1, k)
        /\ missed' = missed \cup {inbox[i].task : i \in (k + 1)..Len(inbox)}
  BY DEF LinkDrops
<1>2. Len(inbox) \in Nat /\ \A i \in 1..Len(inbox) : inbox[i] \in Event
  BY LenProperties, ElementOfSeq DEF Basics, TypeOK, NetworkType
<1>3. Len(inbox') = k /\ \A i \in 1..k : inbox'[i] = inbox[i]
  BY <1>1, <1>2, SubSeqProperties
<1> QED
  BY <1>1, <1>2, <1>3 DEF LinkDrops, controller, loop, agent

(* The handler takes the oldest event; a terminal one it keeps, to act on  *)
(* it when its line has been spoken.                                       *)
LEMMA HandleStep ==
  ASSUME Basics, Handle
  PROVE  /\ Head(inbox) = inbox[1] /\ Head(inbox) \in Event
         /\ Len(inbox) \in Nat \ {0} /\ Len(inbox') = Len(inbox) - 1
         /\ \A i \in 1..(Len(inbox) - 1) : inbox'[i] = inbox[i + 1]
         /\ rx = "waiting" /\ UNCHANGED <<status, closed, missed>>
         /\ rx' = "speaking" => rx_event' = Head(inbox)
         /\ EndsTask(Head(inbox)) => rx' = "speaking" /\ task_order' = task_order
         /\ Range(task_order') \subseteq Range(task_order) \cup {Head(inbox).task}
<1>1. inbox \in Seq(Event) /\ inbox # <<>> /\ inbox' = Tail(inbox)
  BY DEF Basics, TypeOK, NetworkType, Handle
<1> DEFINE e == Head(inbox)
<1>2. Persist => rx' # "speaking"
  BY DEF Persist
<1>3. /\ rx' = "speaking" => rx_event' = e
      /\ EndsTask(e) => rx' = "speaking" /\ task_order' = task_order
  BY <1>2 DEF Handle, HandleNarration, HandleQuestion, HandleTaskUpdate,
              HandleEnding, HandleUnknown, AwaitInterrupt, LowLineFails, EndsTask,
              controller
<1>4. Range(task_order') \subseteq Range(task_order) \cup {e.task}
  BY HandleList
<1> QED
  BY <1>1, <1>3, <1>4, InboxHead DEF Handle, agent

(* A task that was opened stays opened.                                    *)
LEMMA OpenedForGood ==
  ASSUME Basics, Next, NEW t \in Tasks, status[t] # "unopened"
  PROVE  status'[t] # "unopened"
<1>0. status \in [Tasks -> {"unopened", "open", "over"}]
  BY DEF Basics, TypeOK, AgentType
<1>1. ASSUME NEW e \in Event, AgentStep(e)
      PROVE  status'[t] # "unopened"
  BY <1>0, <1>1 DEF AgentStep
<1>2. CASE UNCHANGED status
  BY <1>2
<1> QED
  BY <1>1, <1>2, Steps DEF Start, Handle, FinishSpeaking, SpeakFails, Cancels,
                           CloseClient, Crash, LinkDrops, Quiet, agent

(* Only the agent brings an event about a task into the inbox.             *)
LEMMA InboxStep ==
  ASSUME Basics, Next, NEW i \in 1..Len(inbox')
  PROVE  \/ \E j \in 1..Len(inbox) : inbox'[i] = inbox[j]
         \/ \E e \in Event : AgentStep(e) /\ inbox'[i] = e
<1>0. Len(inbox) \in Nat
  BY LenProperties DEF Basics, TypeOK, NetworkType
<1>1. CASE Handle
  <2>1. i \in 1..(Len(inbox) - 1) /\ i + 1 \in 1..Len(inbox)
    BY <1>0, <1>1, HandleStep
  <2> QED
    BY <1>1, <2>1, HandleStep
<1>2. ASSUME NEW e \in Event, AgentStep(e)
      PROVE  \/ \E j \in 1..Len(inbox) : inbox'[i] = inbox[j]
             \/ inbox'[i] = e
  BY <1>0, <1>2, EmitStep DEF AgentStep
<1>3. CASE LinkDrops
  BY <1>3, DropStep
<1>4. CASE inbox' = <<>>
  BY <1>4, EmptySeq
<1>5. CASE UNCHANGED inbox
  BY <1>5
<1> QED
  BY <1>1, <1>2, <1>3, <1>4, <1>5, Steps
     DEF Start, FinishSpeaking, SpeakFails, Cancels, CloseClient, Crash, Quiet,
         network

(* No step lists or stores a task that the agent did not open.             *)
LEMMA OnlyOpenedStep ==
  ASSUME Basics, OnlyOpened, Next
  PROVE  OnlyOpened'
<1>0. /\ Basics' /\ Range(task_order) \subseteq Tasks
      /\ \A i \in 1..Len(inbox) : inbox[i] \in Event
  <2>1. Basics'
    BY BasicsStep
  <2> QED
    BY <2>1, RangeOfSeq, ElementOfSeq
       DEF Basics, TypeOK, ControllerType, NetworkType
<1>1. \A i \in 1..Len(inbox') : status'[inbox'[i].task] # "unopened"
  <2> SUFFICES ASSUME NEW i \in 1..Len(inbox')
               PROVE  status'[inbox'[i].task] # "unopened"
    OBVIOUS
  <2>1. ASSUME NEW j \in 1..Len(inbox), inbox'[i] = inbox[j]
        PROVE  status'[inbox'[i].task] # "unopened"
    <3>1. inbox[j].task \in Tasks
      BY <1>0 DEF Event
    <3> QED
      BY <2>1, <3>1, OpenedForGood DEF OnlyOpened
  <2>2. ASSUME NEW e \in Event, AgentStep(e), inbox'[i] = e
        PROVE  status'[inbox'[i].task] # "unopened"
    BY <2>2 DEF AgentStep, Event, Basics, TypeOK, AgentType
  <2> QED
    BY <2>1, <2>2, InboxStep
<1>2. \A t \in Range(task_order') : status'[t] # "unopened"
  <2>1. ASSUME NEW t \in Range(task_order)
        PROVE  status'[t] # "unopened"
    BY <1>0, OpenedForGood DEF OnlyOpened
  <2>2. CASE Handle
    <3>1. Len(inbox) \in Nat \ {0} /\ Head(inbox) = inbox[1] /\ UNCHANGED status
          /\ Range(task_order') \subseteq Range(task_order) \cup {inbox[1].task}
      BY <2>2, HandleStep
    <3> QED
      BY <2>1, <3>1 DEF OnlyOpened
  <2>3. CASE FinishSpeaking
    BY <2>1, <2>3, FinishList
  <2>4. ASSUME NEW resume \in BOOLEAN, Start(resume)
        PROVE  \A t \in Range(task_order') : status'[t] # "unopened"
    <3>1. CASE task_order' = <<>>
      <4>1. Range(<<>>) = {}
        BY DEF Range
      <4> QED
        BY <3>1, <4>1
    <3>2. CASE store # NoSnapshot /\ task_order' = store.active
      BY <2>4, <3>2 DEF Start, OnlyOpened, Snapshots, agent
    <3> QED
      BY <2>4, <3>1, <3>2 DEF Start, Restored
  <2>5. CASE Crash
    <3>1. Range(<<>>) = {}
      BY DEF Range
    <3> QED
      BY <2>5, <3>1 DEF Crash
  <2>6. CASE UNCHANGED controller
    BY <2>1, <2>6 DEF controller
  <2> QED
    BY <2>2, <2>3, <2>4, <2>5, <2>6, ListStep
<1>3. \A snap \in Snapshots' : \A t \in Range(snap.active) : status'[t] # "unopened"
  <2> SUFFICES ASSUME NEW snap \in Snapshots', NEW t \in Range(snap.active)
               PROVE  status'[t] # "unopened"
    OBVIOUS
  <2>1. CASE snap \in Snapshots
    <3>1. snap.active \in Seq(Tasks)
      BY <2>1 DEF Basics, TypeOK, StoreType, Snapshots, SessionSnapshot
    <3>2. t \in Tasks
      BY <3>1, RangeOfSeq
    <3> QED
      BY <2>1, <3>2, OpenedForGood DEF OnlyOpened
  <2>2. CASE snap.active = task_order'
    BY <1>2, <2>2
  <2> QED
    BY <2>1, <2>2, SnapshotsStep
<1> QED
  BY <1>1, <1>2, <1>3 DEF OnlyOpened

(* An inbox that was emptied has no positions.                             *)
LEMMA EmptyInbox ==
  ASSUME inbox' = <<>>
  PROVE  Len(inbox') = 0 /\ 1..Len(inbox') = {}
BY EmptySeq

(* The events the controller holds are about tasks.                        *)
LEMMA EventTypes ==
  ASSUME Basics
  PROVE  /\ Len(inbox) \in Nat
         /\ \A i \in 1..Len(inbox) : inbox[i].task \in Tasks
         /\ rx = "speaking" => rx_event.task \in Tasks
<1>1. inbox \in Seq(Event)
  BY DEF Basics, TypeOK, NetworkType
<1>2. Len(inbox) \in Nat /\ \A i \in 1..Len(inbox) : inbox[i] \in Event
  BY <1>1, LenProperties, ElementOfSeq
<1>3. \A e \in Event : e.task \in Tasks
  BY DEF Event
<1>4. rx = "speaking" => rx_event \in Event
  BY DEF Basics, TypeOK, LoopType
<1> QED
  BY <1>2, <1>3, <1>4

(* No event about a task follows its terminal one, and a task is closed    *)
(* only when its terminal event has been handled.                          *)
LEMMA TerminalIsLastStep ==
  ASSUME Basics, TerminalIsLast, Next
  PROVE  TerminalIsLast'
<1>0. /\ Len(inbox) \in Nat
      /\ \A i \in 1..Len(inbox) : inbox[i].task \in Tasks
      /\ status \in [Tasks -> {"unopened", "open", "over"}] /\ closed \subseteq Tasks
      /\ rx = "speaking" => rx_event.task \in Tasks
  BY EventTypes DEF Basics, TypeOK, AgentType
<1>1. ASSUME inbox' = <<>>, rx' # "speaking", UNCHANGED <<status, closed>>
      PROVE  TerminalIsLast'
  BY <1>1, EmptyInbox DEF TerminalIsLast
<1>2. CASE Handle
  <2>1. /\ inbox[1] = Head(inbox) /\ Len(inbox) \in Nat \ {0}
        /\ Len(inbox') = Len(inbox) - 1
        /\ \A i \in 1..(Len(inbox) - 1) : inbox'[i] = inbox[i + 1]
        /\ UNCHANGED <<status, closed>>
        /\ rx' = "speaking" => rx_event' = inbox[1]
    BY <1>2, HandleStep
  <2>2. ASSUME NEW i \in 1..Len(inbox')
        PROVE  /\ inbox'[i].task \notin closed
               /\ EndsTask(inbox'[i]) =>
                    /\ status[inbox'[i].task] = "over"
                    /\ \A j \in (i + 1)..Len(inbox') : inbox'[j].task # inbox'[i].task
    <3>1. i + 1 \in 1..Len(inbox) /\ inbox'[i] = inbox[i + 1]
      BY <2>1
    <3>2. ASSUME NEW j \in (i + 1)..Len(inbox')
          PROVE  inbox'[j] = inbox[j + 1] /\ j + 1 \in ((i + 1) + 1)..Len(inbox)
      BY <2>1
    <3> QED
      BY <3>1, <3>2 DEF TerminalIsLast
  <2>3. ASSUME rx' = "speaking", EndsTask(inbox[1])
        PROVE  /\ status[inbox[1].task] = "over"
               /\ \A i \in 1..Len(inbox') : inbox'[i].task # inbox[1].task
    <3>1. \A i \in 1..Len(inbox') :
            inbox'[i] = inbox[i + 1] /\ i + 1 \in (1 + 1)..Len(inbox)
      BY <2>1
    <3> QED
      BY <2>1, <2>3, <3>1 DEF TerminalIsLast
  <2> QED
    BY <2>1, <2>2, <2>3 DEF TerminalIsLast
<1>3. CASE FinishSpeaking
  <2>1. UNCHANGED <<inbox, status>> /\ rx' # "speaking" /\ rx = "speaking"
    BY <1>3 DEF FinishSpeaking, Persist, network, agent
  <2>2. CASE EndsTask(rx_event)
    BY <1>0, <1>3, <2>1, <2>2, FinishList DEF TerminalIsLast
  <2>3. CASE ~ EndsTask(rx_event)
    BY <1>3, <2>1, <2>3, FinishList DEF TerminalIsLast
  <2> QED
    BY <2>2, <2>3
<1>4. CASE SpeakFails \/ Cancels
  BY <1>4 DEF SpeakFails, Cancels, network, agent, TerminalIsLast
<1>5. CASE LinkDrops
  BY <1>0, <1>5, DropStep DEF TerminalIsLast
<1>6. ASSUME NEW e \in Event, AgentStep(e)
      PROVE  TerminalIsLast'
  <2>1. /\ UNCHANGED <<rx, rx_event, closed>> /\ e.task \in Tasks
        /\ status[e.task] # "over"
        /\ \A t \in Tasks : status[t] = "over" => status'[t] = "over"
        /\ EndsTask(e) => status'[e.task] = "over"
        /\ e.task \notin closed
        /\ \A i \in 1..Len(inbox) : EndsTask(inbox[i]) => inbox[i].task # e.task
        /\ rx = "speaking" /\ EndsTask(rx_event) => rx_event.task # e.task
    BY <1>0, <1>6, EmitStep DEF AgentStep, Event, TerminalIsLast
  <2>2. CASE inbox' = inbox
    BY <1>0, <2>1, <2>2 DEF TerminalIsLast
  <2>3. CASE /\ Len(inbox') = Len(inbox) + 1 /\ inbox'[Len(inbox) + 1] = e
             /\ \A i \in 1..Len(inbox) : inbox'[i] = inbox[i]
    <3>1. ASSUME NEW i \in 1..Len(inbox')
          PROVE  /\ inbox'[i].task \notin closed'
                 /\ EndsTask(inbox'[i]) =>
                      /\ status'[inbox'[i].task] = "over"
                      /\ \A j \in (i + 1)..Len(inbox') : inbox'[j].task # inbox'[i].task
      <4>1. CASE i \in 1..Len(inbox)
        <5>1. inbox'[i] = inbox[i] /\ inbox[i].task \in Tasks
          BY <1>0, <2>3, <4>1
        <5>2. ASSUME NEW j \in (i + 1)..Len(inbox'), EndsTask(inbox[i])
              PROVE  inbox'[j].task # inbox[i].task
          <6>1. CASE j = Len(inbox) + 1
            BY <2>1, <2>3, <4>1, <5>2, <6>1
          <6>2. CASE j \in (i + 1)..Len(inbox)
            BY <1>0, <2>3, <4>1, <5>2, <6>2 DEF TerminalIsLast
          <6> QED
            BY <1>0, <2>3, <4>1, <6>1, <6>2
        <5> QED
          BY <2>1, <4>1, <5>1, <5>2 DEF TerminalIsLast
      <4>2. CASE i = Len(inbox) + 1
        <5>1. (i + 1)..Len(inbox') = {}
          BY <1>0, <2>3, <4>2
        <5> QED
          BY <2>1, <2>3, <4>2, <5>1
      <4> QED
        BY <1>0, <2>3, <4>1, <4>2
    <3>2. ASSUME rx' = "speaking", EndsTask(rx_event')
          PROVE  /\ status'[rx_event'.task] = "over"
                 /\ \A i \in 1..Len(inbox') : inbox'[i].task # rx_event'.task
      <4>1. /\ rx_event' = rx_event /\ status[rx_event.task] = "over"
            /\ rx_event.task # e.task
            /\ \A i \in 1..Len(inbox) : inbox[i].task # rx_event.task
        BY <2>1, <3>2 DEF TerminalIsLast
      <4>2. \A i \in 1..Len(inbox') : i = Len(inbox) + 1 \/ i \in 1..Len(inbox)
        BY <1>0, <2>3
      <4> QED
        BY <1>0, <2>1, <2>3, <3>2, <4>1, <4>2
    <3>3. \A t \in closed' : status'[t] = "over"
      BY <1>0, <2>1 DEF TerminalIsLast
    <3> QED
      BY <3>1, <3>2, <3>3 DEF TerminalIsLast
  <2> QED
    BY <1>6, <2>2, <2>3, EmitStep DEF AgentStep
<1>7. CASE Quiet
  BY <1>7 DEF Quiet, TerminalIsLast
<1>8. ASSUME \/ \E resume \in BOOLEAN : Start(resume)
             \/ CloseClient \/ Crash
      PROVE  TerminalIsLast'
  <2>1. rx' # "speaking"
    BY <1>8 DEF Start, CloseClient, Crash, Basics, TypeOK, LoopType, loop
  <2> QED
    BY <1>1, <1>8, <2>1 DEF Start, CloseClient, Crash, agent
<1> QED
  BY <1>2, <1>3, <1>4, <1>5, <1>6, <1>7, <1>8, Steps

(* A listed task is open, or its terminal event is still to be handled, or *)
(* an event about it was missed.                                           *)
LEMMA AccountedStep ==
  ASSUME Basics, OnlyOpened, Accounted, Next
  PROVE  Accounted'
<1>0. /\ Len(inbox) \in Nat
      /\ \A i \in 1..Len(inbox) : inbox[i].task \in Tasks
      /\ status \in [Tasks -> {"unopened", "open", "over"}]
      /\ Range(task_order) \subseteq Tasks
      /\ rx = "speaking" => rx_event.task \in Tasks
  BY EventTypes, RangeOfSeq DEF Basics, TypeOK, AgentType, ControllerType
<1>1. ASSUME NEW resume \in BOOLEAN, Start(resume)
      PROVE  Accounted'
  <2>1. \A t \in Range(task_order') : t \in missed'
    <3>1. OnlyOpened' /\ UNCHANGED status /\ Basics'
          /\ missed' = {t \in Tasks : status[t] # "unopened"}
      BY <1>1, OnlyOpenedStep, BasicsStep DEF Start, agent
    <3>2. Range(task_order') \subseteq Tasks
      BY <3>1, RangeOfSeq DEF Basics, TypeOK, ControllerType
    <3> QED
      BY <3>1, <3>2 DEF OnlyOpened
  <2> QED
    BY <1>1, <2>1, EmptyInbox DEF Start, Accounted
<1>2. CASE Handle
  <2>1. /\ inbox[1] = Head(inbox) /\ Len(inbox) \in Nat \ {0}
        /\ Len(inbox') = Len(inbox) - 1
        /\ \A i \in 1..(Len(inbox) - 1) : inbox'[i] = inbox[i + 1]
        /\ UNCHANGED <<status, missed>> /\ rx # "speaking"
        /\ EndsTask(inbox[1]) => rx' = "speaking" /\ rx_event' = inbox[1]
        /\ Range(task_order') \subseteq Range(task_order) \cup {inbox[1].task}
    BY <1>2, HandleStep
  <2>2. ASSUME NEW j \in 1..Len(inbox), EndsTask(inbox[j])
        PROVE  \/ rx' = "speaking" /\ EndsTask(rx_event') /\ rx_event'.task = inbox[j].task
               \/ j # 1 /\ j - 1 \in 1..Len(inbox') /\ inbox'[j - 1] = inbox[j]
    <3>1. CASE j = 1
      BY <2>1, <2>2, <3>1
    <3>2. CASE j # 1
      <4>1. j - 1 \in 1..(Len(inbox) - 1) /\ (j - 1) + 1 = j
        BY <2>1, <3>2
      <4> QED
        BY <2>1, <3>2, <4>1
    <3> QED
      BY <3>1, <3>2
  <2>3. ASSUME NEW t \in Range(task_order')
        PROVE  status'[t] = "open" \/ t \in missed' \/ TerminalPending(t)'
    <3>1. \/ status[t] = "open" \/ t \in missed
          \/ \E j \in 1..Len(inbox) : EndsTask(inbox[j]) /\ inbox[j].task = t
      <4>1. CASE t \in Range(task_order)
        BY <2>1, <4>1 DEF Accounted, TerminalPending
      <4>2. CASE t = inbox[1].task
        BY <2>1, <4>2 DEF Accounted
      <4> QED
        BY <2>1, <4>1, <4>2
    <3> QED
      BY <2>1, <2>2, <3>1 DEF TerminalPending
  <2>4. ASSUME NEW i \in 1..Len(inbox')
        PROVE  \/ status'[inbox'[i].task] = "open"
               \/ inbox'[i].task \in missed'
               \/ \E j \in i..Len(inbox') :
                     EndsTask(inbox'[j]) /\ inbox'[j].task = inbox'[i].task
    <3>1. i + 1 \in 1..Len(inbox) /\ inbox'[i] = inbox[i + 1]
      BY <2>1
    <3>2. ASSUME NEW j \in (i + 1)..Len(inbox)
          PROVE  j - 1 \in i..Len(inbox') /\ inbox'[j - 1] = inbox[j]
      <4>1. j - 1 \in 1..(Len(inbox) - 1) /\ (j - 1) + 1 = j /\ j - 1 >= i
        BY <2>1, <3>1
      <4> QED
        BY <2>1, <4>1
    <3>3. \/ status[inbox[i + 1].task] = "open"
          \/ inbox[i + 1].task \in missed
          \/ \E j \in (i + 1)..Len(inbox) :
                EndsTask(inbox[j]) /\ inbox[j].task = inbox[i + 1].task
      BY <3>1 DEF Accounted
    <3>4. CASE \E j \in (i + 1)..Len(inbox) :
                 EndsTask(inbox[j]) /\ inbox[j].task = inbox[i + 1].task
      <4>1. PICK j \in (i + 1)..Len(inbox) :
              EndsTask(inbox[j]) /\ inbox[j].task = inbox[i + 1].task
        BY <3>4
      <4>2. j - 1 \in i..Len(inbox') /\ inbox'[j - 1] = inbox[j]
        BY <3>2
      <4> QED
        BY <3>1, <4>1, <4>2
    <3> QED
      BY <2>1, <3>1, <3>3, <3>4
  <2> QED
    BY <2>3, <2>4 DEF Accounted
<1>3. CASE FinishSpeaking
  <2>1. UNCHANGED <<inbox, status, missed>> /\ rx = "speaking"
    BY <1>3 DEF FinishSpeaking, network, agent
  <2>2. ASSUME NEW t \in Range(task_order')
        PROVE  t \in Range(task_order) /\ (EndsTask(rx_event) => rx_event.task # t)
    BY <1>3, FinishList
  <2> QED
    BY <2>1, <2>2 DEF Accounted, TerminalPending
<1>4. CASE SpeakFails \/ Cancels
  <2>1. /\ UNCHANGED <<inbox, status, task_order>> /\ missed \subseteq missed'
        /\ rx = "speaking" => rx_event.task \in missed'
    BY <1>4 DEF SpeakFails, Cancels, network, agent, controller
  <2> QED
    BY <2>1 DEF Accounted, TerminalPending
<1>5. CASE CloseClient
  <2>1. rx # "speaking"
    BY <1>5 DEF CloseClient, Basics, TypeOK, LoopType
  <2>2. UNCHANGED <<status, task_order>> /\ missed \subseteq missed' /\ inbox' = <<>>
        /\ \A i \in 1..Len(inbox) : inbox[i].task \in missed'
    BY <1>5 DEF CloseClient, controller, agent
  <2> QED
    BY <2>1, <2>2, EmptyInbox DEF Accounted, TerminalPending
<1>6. CASE Crash
  <2>1. Range(<<>>) = {}
    BY DEF Range
  <2> QED
    BY <1>6, <2>1, EmptyInbox DEF Crash, Accounted
<1>7. CASE LinkDrops
  <2>1. /\ UNCHANGED <<rx, rx_event, task_order, status>> /\ missed \subseteq missed'
        /\ Len(inbox') \in Nat /\ Len(inbox') <= Len(inbox)
        /\ \A i \in 1..Len(inbox') : inbox'[i] = inbox[i]
        /\ \A i \in (Len(inbox') + 1)..Len(inbox) : inbox[i].task \in missed'
    BY <1>7, DropStep
  <2>2. ASSUME NEW j \in 1..Len(inbox)
        PROVE  inbox[j].task \in missed' \/ (j \in 1..Len(inbox') /\ inbox'[j] = inbox[j])
    BY <1>0, <2>1
  <2>3. ASSUME NEW t \in Range(task_order')
        PROVE  status'[t] = "open" \/ t \in missed' \/ TerminalPending(t)'
    BY <2>1, <2>2, <2>3 DEF Accounted, TerminalPending
  <2>4. ASSUME NEW i \in 1..Len(inbox')
        PROVE  \/ status'[inbox'[i].task] = "open"
               \/ inbox'[i].task \in missed'
               \/ \E j \in i..Len(inbox') :
                     EndsTask(inbox'[j]) /\ inbox'[j].task = inbox'[i].task
    <3>1. i \in 1..Len(inbox) /\ inbox'[i] = inbox[i]
      BY <1>0, <2>1
    <3>2. ASSUME NEW j \in i..Len(inbox)
          PROVE  inbox[j].task \in missed' \/ (j \in i..Len(inbox') /\ inbox'[j] = inbox[j])
      BY <1>0, <2>1, <3>1
    <3> QED
      BY SMTT(30), <2>1, <3>1, <3>2 DEF Accounted
  <2> QED
    BY <2>3, <2>4 DEF Accounted
<1>8. ASSUME NEW e \in Event, AgentStep(e)
      PROVE  Accounted'
  <2>1. /\ UNCHANGED <<rx, rx_event, task_order>> /\ missed \subseteq missed'
        /\ e.task \in Tasks
        /\ \A t \in Tasks \ {e.task} : status'[t] = status[t]
        /\ EndsTask(e) \/ status'[e.task] = "open"
    BY <1>0, <1>8, EmitStep DEF AgentStep, Event
  <2>2. CASE inbox' = inbox /\ e.task \in missed'
    <3>1. \A t \in Tasks : status'[t] = status[t] \/ t \in missed'
      BY <2>1, <2>2
    <3> QED
      BY <1>0, <2>1, <2>2, <3>1 DEF Accounted, TerminalPending
  <2>3. CASE /\ Len(inbox') = Len(inbox) + 1 /\ inbox'[Len(inbox) + 1] = e
             /\ \A i \in 1..Len(inbox) : inbox'[i] = inbox[i]
    <3>1. Len(inbox) + 1 \in 1..Len(inbox') /\ inbox'[Len(inbox) + 1] = e
      BY <1>0, <2>3
    <3>2. \A j \in 1..Len(inbox) : j \in 1..Len(inbox') /\ inbox'[j] = inbox[j]
      BY <1>0, <2>3
    <3>3. ASSUME NEW t \in Range(task_order')
          PROVE  status'[t] = "open" \/ t \in missed' \/ TerminalPending(t)'
      <4>1. CASE t = e.task
        BY <2>1, <3>1, <4>1 DEF TerminalPending
      <4>2. CASE t # e.task
        BY <1>0, <2>1, <3>2, <4>2 DEF Accounted, TerminalPending
      <4> QED
        BY <4>1, <4>2
    <3>4. ASSUME NEW i \in 1..Len(inbox')
          PROVE  \/ status'[inbox'[i].task] = "open"
                 \/ inbox'[i].task \in missed'
                 \/ \E j \in i..Len(inbox') :
                       EndsTask(inbox'[j]) /\ inbox'[j].task = inbox'[i].task
      <4>1. Len(inbox) + 1 \in i..Len(inbox')
        BY <1>0, <2>3
      <4>2. CASE inbox'[i].task = e.task
        BY <2>1, <3>1, <4>1, <4>2
      <4>3. CASE inbox'[i].task # e.task
        <5>1. i \in 1..Len(inbox) /\ inbox'[i] = inbox[i] /\ inbox[i].task \in Tasks
          BY <1>0, <2>3, <4>3
        <5>2. \A j \in i..Len(inbox) : j \in i..Len(inbox') /\ inbox'[j] = inbox[j]
          BY <1>0, <2>3, <5>1
        <5> QED
          BY <2>1, <4>3, <5>1, <5>2 DEF Accounted
      <4> QED
        BY <4>2, <4>3
    <3> QED
      BY <3>3, <3>4 DEF Accounted
  <2> QED
    BY <1>8, <2>2, <2>3, EmitStep DEF AgentStep
<1>9. CASE Quiet
  BY <1>9 DEF Quiet, Accounted, TerminalPending
<1> QED
  BY <1>1, <1>2, <1>3, <1>4, <1>5, <1>6, <1>7, <1>8, <1>9, Steps

(* With the in-memory store nothing brings a closed task back.             *)
LEMMA FinishedForgottenStep ==
  ASSUME Basics, TerminalIsLast, FinishedForgotten, Next
  PROVE  FinishedForgotten'
<1> SUFFICES ASSUME StoreKind = "memory"
             PROVE  /\ closed' \cap Range(task_order') = {}
                    /\ store' # NoSnapshot => closed' \cap Range(store'.active) = {}
  BY DEF FinishedForgotten
<1>1. /\ closed \cap Range(task_order) = {}
      /\ \A snap \in Snapshots : closed \cap Range(snap.active) = {}
  BY DEF FinishedForgotten, Snapshots, Basics, TypeOK, StoreType
<1>2. CASE FinishSpeaking
  <2>1. /\ store' = Snapshot(task_order', FALSE)
        /\ Range(task_order') \subseteq Range(task_order)
        /\ IF EndsTask(rx_event)
           THEN closed' = closed \cup {rx_event.task} /\ rx_event.task \notin Range(task_order')
           ELSE closed' = closed
    BY <1>2, FinishList DEF FinishSpeaking, Persist
  <2> QED
    BY <1>1, <2>1 DEF Snapshot
<1>3. ASSUME closed' = closed, closed \cap Range(task_order') = {}
      PROVE  store' # NoSnapshot => closed' \cap Range(store'.active) = {}
  <2>1. store' # NoSnapshot => store' \in Snapshots'
    BY DEF Snapshots
  <2> QED
    BY <1>1, <1>3, <2>1, SnapshotsStep
<1>4. CASE Handle
  <2>1. /\ closed' = closed /\ Len(inbox) \in Nat \ {0}
        /\ Range(task_order') \subseteq Range(task_order) \cup {inbox[1].task}
    BY <1>4, HandleStep
  <2>2. inbox[1].task \notin closed
    BY <2>1 DEF TerminalIsLast
  <2> QED
    BY <1>1, <1>3, <2>1, <2>2
<1>5. ASSUME NEW resume \in BOOLEAN, Start(resume)
      PROVE  closed' = closed /\ closed \cap Range(task_order') = {}
  <2>1. Range(<<>>) = {}
    BY DEF Range
  <2> QED
    BY <1>1, <1>5, <2>1 DEF Start, Restored, Snapshots
<1>6. CASE Crash
  <2>1. Range(<<>>) = {}
    BY DEF Range
  <2> QED
    BY <1>3, <1>6, <2>1 DEF Crash
<1>7. CASE UNCHANGED <<task_order, closed>>
  BY <1>1, <1>3, <1>7
<1>8. \/ FinishSpeaking \/ Handle \/ Crash
      \/ \E resume \in BOOLEAN : Start(resume)
      \/ UNCHANGED <<task_order, closed>>
  BY Steps DEF SpeakFails, Cancels, CloseClient, LinkDrops, AgentStep, AgentEmits,
               Quiet, controller
<1> QED
  BY <1>2, <1>3, <1>4, <1>5, <1>6, <1>7, <1>8

(* A message about a task is sent by a step that changes nothing else, to  *)
(* a listed task.                                                          *)
LEMMA SentStep ==
  ASSUME Basics, Next
  PROVE  \/ sent'.task = NoTask
         \/ /\ sent'.task \in Range(task_order)
            /\ UNCHANGED <<rx, rx_event, inbox, status, missed>>
<1>1. Nothing.task = NoTask /\ \A type : Untargeted(type).task = NoTask
  BY DEF Nothing, Untargeted
<1>2. ASSUME NEW u \in Turns, NEW type \in {"interrupt", "confirmation_response"},
             SendReply(u, type)
      PROVE  \/ sent'.task = NoTask
             \/ /\ sent'.task \in Range(task_order)
                /\ UNCHANGED <<rx, rx_event, inbox, status, missed>>
  <2> DEFINE target == CurrentTask(task_order, waiting)
  <2>1. target \in Range(task_order) \cup {NoTask}
    BY CurrentTaskIsListed DEF Basics, TypeOK, ControllerType
  <2>2. /\ sent' \in {Nothing, [type |-> type, task |-> target]}
        /\ UNCHANGED <<rx, rx_event, inbox, status, missed>>
    BY <1>2 DEF SendReply, EndTurn, loop, network
  <2> QED
    BY <1>1, <2>1, <2>2
<1>3. ASSUME NEW u \in Turns,
             \/ Utter(u) \/ AnswerLocally(u) \/ SendIntent(u) \/ SendQuery(u)
             \/ LoseTurn(u)
      PROVE  sent'.task = NoTask
  BY <1>1, <1>3 DEF Utter, AnswerLocally, SendIntent, SendQuery, LoseTurn, EndTurn
<1>4. CASE EnvironmentNext
  BY <1>1, <1>4 DEF EnvironmentNext, LinkDrops, Reconnected, GivesUp, AgentOpens,
                    AgentSays, AgentFinishes, AgentEmits
<1>5. CASE ControllerNext
  BY <1>1, <1>5 DEF ControllerNext, Start, Connected, ConnectFails, Handle,
                    FinishSpeaking, SpeakFails, Stop, CloseClient, Crash, SaveLands,
                    SaveVanishes, SaveFails
<1> QED
  BY <1>2, <1>3, <1>4, <1>5 DEF Next, TurnNext

(* The inductive invariant.                                                *)
IInv == Basics /\ Strengthening /\ FinishedForgotten /\ RepliesReachLiveTasks

(* The invariant at the beginning,                                         *)
LEMMA IInvInit ==
  ASSUME Init
  PROVE  IInv
<1>1. Range(<<>>) = {} /\ Len(<<>>) = 0
  BY EmptySeq DEF Range
<1>2. Basics /\ SavedOnce
  BY BasicsInit DEF Basics
<1>3. OnlyOpened /\ Accounted /\ TerminalIsLast /\ FinishedForgotten
  BY <1>1 DEF Init, OnlyOpened, Snapshots, Accounted, TerminalIsLast,
              FinishedForgotten
<1>4. RepliesReachLiveTasks
  BY DEF Init, Nothing, Untargeted, RepliesReachLiveTasks
<1> QED
  BY <1>2, <1>3, <1>4 DEF IInv, Strengthening

(* ... and after every step.                                               *)
LEMMA IInvStep ==
  ASSUME IInv, [Next]_vars
  PROVE  IInv'
<1>0. Basics' /\ SavedOnce'
  BY BasicsStep DEF IInv, Basics
<1>1. CASE UNCHANGED vars
  <2>1. OnlyOpened' /\ Accounted' /\ TerminalIsLast' /\ FinishedForgotten'
    BY <1>1 DEF IInv, Strengthening, vars, controller, loop, storage, network, agent,
                OnlyOpened, Snapshots, Accounted, TerminalIsLast, TerminalPending,
                FinishedForgotten
  <2>2. RepliesReachLiveTasks'
    BY <1>1 DEF IInv, vars, loop, network, agent, RepliesReachLiveTasks,
                TerminalPending
  <2> QED
    BY <1>0, <2>1, <2>2 DEF IInv, Strengthening
<1>2. CASE Next
  <2>1. OnlyOpened' /\ Accounted' /\ TerminalIsLast' /\ FinishedForgotten'
    BY <1>2, OnlyOpenedStep, AccountedStep, TerminalIsLastStep,
       FinishedForgottenStep DEF IInv, Strengthening
  <2>2. RepliesReachLiveTasks'
    BY <1>2, SentStep DEF IInv, Strengthening, Accounted, RepliesReachLiveTasks,
                          TerminalPending
  <2> QED
    BY <1>0, <2>1, <2>2 DEF IInv, Strengthening
<1> QED
  BY <1>1, <1>2

(* What the invariants rest on: see Strengthening in Conversation.         *)
THEOREM StrengtheningCorrect == Spec => []Strengthening
<1>1. IInv => Strengthening
  BY DEF IInv
<1> QED
  BY IInvInit, IInvStep, <1>1, PTL DEF Spec

(* With the in-memory store a task dropped on its terminal event never     *)
(* comes back, neither into the list nor into the saved session: not by a  *)
(* late event, a save, a stop, a crash or a resumed call.                  *)
THEOREM FinishedForgottenCorrect == Spec => []FinishedForgotten
<1>1. IInv => FinishedForgotten
  BY DEF IInv
<1> QED
  BY IInvInit, IInvStep, <1>1, PTL DEF Spec

(* handle_utterance addresses an interrupt or a confirmation to a task the *)
(* agent has finished only while the terminal event is on its way or being *)
(* spoken, or when an event about the task was lost.                       *)
THEOREM RepliesCorrect == Spec => []RepliesReachLiveTasks
<1>1. IInv => RepliesReachLiveTasks
  BY DEF IInv
<1> QED
  BY IInvInit, IInvStep, <1>1, PTL DEF Spec

-----------------------------------------------------------------------------
(* The view is the agent's.                                                *)

(* What an event does to the view when it is handled: it lists its task,   *)
(* or sets what the task waits for.                                        *)
Lists(e) == e.kind \in {"low", "high", "ask", "update"}
Sets(e)  == e.kind \in {"ask", "update", "done", "failure"}

(* The handler of the terminal event of t has yet to drop t.               *)
Ending(t) == rx = "speaking" /\ EndsTask(rx_event) /\ rx_event.task = t

(* Only an open task waits for anything.                                   *)
OnlyOpenWait == \A t \in Tasks : status[t] # "open" => reason[t] = "none"

(* An open task is listed, or an event that lists it is on its way.        *)
ListFollows(t) ==
  status[t] = "open" =>
    \/ t \in Range(task_order)
    \/ \E i \in 1..Len(inbox) : inbox[i].task = t /\ Lists(inbox[i])

(* The waiting reason is the agent's, or an event that sets it is on its   *)
(* way; the last such event sets it to the agent's.                        *)
ReasonFollows(t) ==
  /\ \/ waiting[t] = reason[t]
     \/ Ending(t)
     \/ \E i \in 1..Len(inbox) : inbox[i].task = t /\ Sets(inbox[i])
  /\ \A i \in 1..Len(inbox) :
       inbox[i].task = t /\ Sets(inbox[i]) =>
         \/ inbox[i].reason = reason[t]
         \/ \E j \in (i + 1)..Len(inbox) : inbox[j].task = t /\ Sets(inbox[j])

ViewFollows ==
  phase # "none" => \A t \in Tasks \ missed : ListFollows(t) /\ ReasonFollows(t)

ViewInv == IInv /\ OnlyOpenWait /\ ViewFollows

(* The receive loop ends without finishing its line.                       *)
Cut ==
  /\ missed' = missed \cup (IF rx = "speaking" THEN {rx_event.task} ELSE {})
  /\ rx' # "speaking" /\ phase # "none"
  /\ UNCHANGED <<task_order, waiting, inbox, status, reason>>

Emits(e) ==
  /\ AgentEmits(e)
  /\ EndsTask(e) => e.reason = "none"
  /\ ~ Sets(e) => e.reason = reason[e.task]
  /\ \/ /\ status[e.task] = "unopened" /\ e.kind = "low" /\ e.reason = "none"
        /\ status' = [status EXCEPT ![e.task] = "open"]
     \/ status[e.task] = "open" /\ UNCHANGED status
     \/ /\ status[e.task] = "open" /\ EndsTask(e)
        /\ status' = [status EXCEPT ![e.task] = "over"]

(* Nothing happens that the view or the agent would notice.                *)
Unnoticed ==
  /\ rx' = "speaking" <=> rx = "speaking"
  /\ phase = "none" => phase' = "none"
  /\ UNCHANGED <<rx_event, task_order, waiting, inbox, status, reason, missed>>

(* Every step is one of these.                                             *)
LEMMA ViewSteps ==
  ASSUME Basics, OnlyOpenWait, [Next]_vars
  PROVE  \/ \E resume \in BOOLEAN : Start(resume)
         \/ Handle \/ FinishSpeaking \/ CloseClient \/ Crash \/ LinkDrops
         \/ Cut \/ Unnoticed
         \/ \E e \in Event : Emits(e)
<1> USE DEF controller, loop, network, agent
<1>1. CASE TurnNext
  <2>1. Unnoticed
    BY <1>1 DEF TurnNext, Utter, AnswerLocally, SendIntent, SendReply, SendQuery,
                LoseTurn, EndTurn, Unnoticed
  <2> QED
    BY <2>1
<1>2. ASSUME Stop \/ SpeakFails \/ \E w \in writes : SaveLands(w)
      PROVE  Cut \/ Unnoticed
  <2>1. ASSUME NEW w \in writes, SaveLands(w)
        PROVE  Cut \/ Unnoticed
    <3>1. CASE Awaited(w) /\ w.by = "stop"
      BY <2>1, <3>1 DEF SaveLands, CancelLoop, Cut, Awaited
    <3>2. CASE ~ (Awaited(w) /\ w.by = "stop")
      <4>1. rx' = rx \/ (rx = "saving" /\ rx' = "waiting")
        BY <2>1, <3>2 DEF SaveLands, Awaited, Basics, TypeOK, StoreType
      <4> QED
        BY <2>1, <3>2, <4>1 DEF SaveLands, Unnoticed
    <3> QED
      BY <3>1, <3>2
  <2> QED
    BY <1>2, <2>1 DEF Stop, SpeakFails, CancelLoop, Cut, Unnoticed, Basics, TypeOK,
                      LoopType
<1>3. ASSUME \/ Connected \/ ConnectFails \/ Reconnected \/ GivesUp
             \/ \E w \in writes : SaveVanishes(w) \/ SaveFails(w)
      PROVE  Unnoticed
  BY <1>3 DEF Connected, ConnectFails, Reconnected, GivesUp, Reconnecting,
              SaveVanishes, SaveFails, Awaited, Unnoticed, Basics, TypeOK, LoopType
<1>4. ASSUME NEW t \in Tasks, AgentOpens(t)
      PROVE  \E e \in Event : Emits(e)
  <2> DEFINE e == [kind |-> "low", task |-> t, reason |-> "none"]
  <2>1. /\ e \in Event /\ ~ EndsTask(e) /\ e.task = t /\ e.kind = "low"
        /\ e.reason = "none"
    BY DEF Event, Kinds, Reasons, EndsTask
  <2>2. status[t] = "unopened" /\ reason[t] = "none"
    BY <1>4 DEF AgentOpens, OnlyOpenWait
  <2>3. Emits(e)
    BY <1>4, <2>1, <2>2 DEF AgentOpens, Emits
  <2> QED
    BY <2>1, <2>3
<1>5. ASSUME NEW t \in Tasks,
             NEW kind \in {"low", "high", "ask", "update", "error", "unknown"},
             NEW why \in Reasons, AgentSays(t, kind, why)
      PROVE  \E e \in Event : Emits(e)
  <2> DEFINE e == [kind |-> kind, task |-> t, reason |-> why]
  <2>1. e \in Event /\ ~ EndsTask(e) /\ e.task = t /\ e.kind = kind /\ e.reason = why
    BY DEF Event, Kinds, EndsTask
  <2>2. kind \notin {"ask", "update"} => why = reason[t]
    BY <1>5 DEF AgentSays
  <2>3. Emits(e)
    BY <1>5, <2>1, <2>2 DEF AgentSays, Emits, Sets
  <2> QED
    BY <2>1, <2>3
<1>6. ASSUME NEW t \in Tasks, NEW kind \in {"done", "failure"},
             AgentFinishes(t, kind)
      PROVE  \E e \in Event : Emits(e)
  <2> DEFINE e == [kind |-> kind, task |-> t, reason |-> "none"]
  <2>1. e \in Event /\ EndsTask(e) /\ e.task = t /\ Sets(e) /\ e.reason = "none"
    BY DEF Event, Kinds, Reasons, EndsTask, Sets
  <2>2. Emits(e)
    BY <1>6, <2>1 DEF AgentFinishes, Emits
  <2> QED
    BY <2>1, <2>2
<1>7. CASE UNCHANGED vars
  BY <1>7 DEF vars, Unnoticed
<1> QED
  BY <1>1, <1>2, <1>3, <1>4, <1>5, <1>6, <1>7
     DEF Next, ControllerNext, EnvironmentNext

(* What the handler of an event does to the view.                          *)
LEMMA HandleView ==
  ASSUME Basics, Handle
  PROVE  LET e == Head(inbox)
         IN  /\ Range(task_order') = Range(task_order) \cup (IF Lists(e) THEN {e.task} ELSE {})
             /\ waiting' = IF e.kind \in {"ask", "update"}
                           THEN Announced(waiting, e.task, e.reason) ELSE waiting
             /\ EndsTask(e) => rx' = "speaking" /\ rx_event' = e
             /\ UNCHANGED <<phase, status, reason, missed>>
<1> DEFINE e == Head(inbox)
<1>1. Range(Touched(task_order, e.task)) = Range(task_order) \cup {e.task}
  <2>1. task_order \in Seq(Tasks) /\ IsInjective(task_order) /\ e.task \in Tasks
    BY HandleStep DEF Basics, TypeOK, ControllerType, OrderedOnce, Event
  <2> QED
    BY <2>1, TouchedProperties
<1> DEFINE Effect ==
      /\ Range(task_order') = Range(task_order) \cup (IF Lists(e) THEN {e.task} ELSE {})
      /\ waiting' = IF e.kind \in {"ask", "update"}
                    THEN Announced(waiting, e.task, e.reason) ELSE waiting
      /\ EndsTask(e) => rx' = "speaking" /\ rx_event' = e
<1>2. HandleNarration(e) => Effect
  BY <1>1 DEF HandleNarration, Lists, EndsTask
<1>3. HandleQuestion(e) => Effect
  BY <1>1 DEF HandleQuestion, Lists, EndsTask
<1>4. HandleTaskUpdate(e) => Effect
  BY <1>1 DEF HandleTaskUpdate, Lists, EndsTask
<1>5. HandleEnding(e) => Effect
  BY DEF HandleEnding, AwaitInterrupt, Lists, EndsTask, controller
<1>6. HandleUnknown(e) => Effect
  BY DEF HandleUnknown, Lists, EndsTask, controller
<1>7. Effect
  BY <1>2, <1>3, <1>4, <1>5, <1>6 DEF Handle
<1>8. UNCHANGED <<phase, status, reason, missed>>
  BY DEF Handle, agent
<1> QED
  BY <1>7, <1>8

(* Handling an event brings the view where the event said.                 *)
LEMMA HandleFollows ==
  ASSUME Basics, ViewFollows, Handle
  PROVE  ViewFollows'
<1> DEFINE e == Head(inbox)
<1>1. /\ e = inbox[1] /\ e \in Event
      /\ Len(inbox) \in Nat \ {0} /\ Len(inbox') = Len(inbox) - 1
      /\ \A i \in 1..(Len(inbox) - 1) : inbox'[i] = inbox[i + 1]
      /\ rx = "waiting"
  BY HandleStep
<1>2. /\ Range(task_order') = Range(task_order) \cup (IF Lists(e) THEN {e.task} ELSE {})
      /\ waiting' = IF e.kind \in {"ask", "update"}
                    THEN Announced(waiting, e.task, e.reason) ELSE waiting
      /\ EndsTask(e) => rx' = "speaking" /\ rx_event' = e
      /\ UNCHANGED <<phase, status, reason, missed>>
  BY HandleView
<1>3. phase # "none" /\ waiting \in [Tasks -> Reasons]
  BY <1>1 DEF Basics, TypeOK, LoopType, ControllerType
<1> SUFFICES ASSUME NEW t \in Tasks \ missed
             PROVE  ListFollows(t)' /\ ReasonFollows(t)'
  BY <1>2 DEF ViewFollows
<1>4. ListFollows(t) /\ ReasonFollows(t) /\ ~ Ending(t)
  BY <1>1, <1>3 DEF ViewFollows, Ending
(* What was behind the event is one place further to the front.            *)
<1>5. ASSUME NEW i \in 1..Len(inbox), i # 1
      PROVE  i - 1 \in 1..Len(inbox') /\ inbox'[i - 1] = inbox[i]
  <2>1. i - 1 \in 1..(Len(inbox) - 1) /\ (i - 1) + 1 = i
    BY <1>1, <1>5
  <2> QED
    BY <1>1, <2>1
<1>6. ListFollows(t)'
  <2> SUFFICES ASSUME status[t] = "open"
               PROVE  \/ t \in Range(task_order')
                      \/ \E i \in 1..Len(inbox') : inbox'[i].task = t /\ Lists(inbox'[i])
    BY <1>2 DEF ListFollows, Lists
  <2>1. CASE t \in Range(task_order)
    BY <1>2, <2>1
  <2>2. ASSUME NEW i \in 1..Len(inbox), inbox[i].task = t, Lists(inbox[i])
        PROVE  \/ t \in Range(task_order')
               \/ \E k \in 1..Len(inbox') : inbox'[k].task = t /\ Lists(inbox'[k])
    <3>1. CASE i = 1
      BY <1>1, <1>2, <2>2, <3>1
    <3>2. CASE i # 1
      BY <1>5, <2>2, <3>2
    <3> QED
      BY <3>1, <3>2
  <2> QED
    BY <1>4, <2>1, <2>2 DEF ListFollows
(* A later event that sets the reason is still on its way.                 *)
<1>7. ASSUME NEW i \in 1..Len(inbox), i # 1, inbox[i].task = t, Sets(inbox[i])
      PROVE  \E k \in 1..Len(inbox') : inbox'[k].task = t /\ Sets(inbox'[k])
  BY <1>5, <1>7
<1>8. \/ waiting'[t] = reason[t]
      \/ Ending(t)'
      \/ \E k \in 1..Len(inbox') : inbox'[k].task = t /\ Sets(inbox'[k])
  <2>1. CASE e.task = t /\ Sets(e)
    <3>1. CASE EndsTask(e)
      BY <1>2, <2>1, <3>1 DEF Ending, EndsTask
    <3>2. CASE ~ EndsTask(e)
      <4>1. waiting'[t] = e.reason
        BY <1>2, <1>3, <2>1, <3>2 DEF Sets, EndsTask, Announced
      <4>2. \/ e.reason = reason[t]
            \/ \E j \in 2..Len(inbox) : inbox[j].task = t /\ Sets(inbox[j])
        <5>1. 1 \in 1..Len(inbox) /\ 1 + 1 = 2
          BY <1>1
        <5> QED
          BY <1>1, <1>4, <2>1, <5>1 DEF ReasonFollows
      <4>3. \A j \in 2..Len(inbox) : j \in 1..Len(inbox) /\ j # 1
        BY <1>1
      <4> QED
        BY <1>7, <4>1, <4>2, <4>3
    <3> QED
      BY <3>1, <3>2
  <2>2. CASE ~ (e.task = t /\ Sets(e))
    <3>1. waiting'[t] = waiting[t]
      BY <1>2, <1>3, <2>2 DEF Sets, Announced
    <3>2. CASE waiting[t] = reason[t]
      BY <3>1, <3>2
    <3>3. ASSUME NEW i \in 1..Len(inbox), inbox[i].task = t, Sets(inbox[i])
          PROVE  \E k \in 1..Len(inbox') : inbox'[k].task = t /\ Sets(inbox'[k])
      BY <1>1, <1>7, <2>2, <3>3
    <3> QED
      BY <1>4, <3>2, <3>3 DEF ReasonFollows
  <2> QED
    BY <2>1, <2>2
<1>9. ASSUME NEW i \in 1..Len(inbox'), inbox'[i].task = t, Sets(inbox'[i])
      PROVE  \/ inbox'[i].reason = reason[t]
             \/ \E j \in (i + 1)..Len(inbox') : inbox'[j].task = t /\ Sets(inbox'[j])
  <2>1. i + 1 \in 1..Len(inbox) /\ inbox'[i] = inbox[i + 1]
    BY <1>1
  <2>2. \/ inbox[i + 1].reason = reason[t]
        \/ \E j \in (i + 2)..Len(inbox) : inbox[j].task = t /\ Sets(inbox[j])
    <3>1. (i + 1) + 1 = i + 2
      OBVIOUS
    <3> QED
      BY <1>4, <1>9, <2>1, <3>1 DEF ReasonFollows
  <2>3. ASSUME NEW j \in (i + 2)..Len(inbox), inbox[j].task = t, Sets(inbox[j])
        PROVE  \E k \in (i + 1)..Len(inbox') : inbox'[k].task = t /\ Sets(inbox'[k])
    <3>1. j \in 1..Len(inbox) /\ j # 1 /\ j - 1 \in (i + 1)..Len(inbox')
      BY <1>1, <2>1
    <3> QED
      BY <1>5, <2>3, <3>1
  <2> QED
    BY <2>1, <2>2, <2>3
<1> QED
  BY <1>2, <1>6, <1>8, <1>9 DEF ReasonFollows, Sets

(* A new event of another task changes nothing about t, one about t comes  *)
(* last, and says what t waits for.                                        *)
LEMMA EmitFollows ==
  ASSUME Basics, ViewFollows, NEW e \in Event, Emits(e)
  PROVE  ViewFollows'
<1>1. /\ UNCHANGED <<rx, rx_event, task_order, waiting, phase>>
      /\ missed \subseteq missed'
      /\ \/ inbox' = inbox /\ e.task \in missed'
         \/ /\ Len(inbox') = Len(inbox) + 1 /\ inbox'[Len(inbox) + 1] = e
            /\ \A i \in 1..Len(inbox) : inbox'[i] = inbox[i]
            /\ Len(inbox) \in Nat
  BY EmitStep DEF Emits, AgentEmits
<1>2. /\ status \in [Tasks -> {"unopened", "open", "over"}]
      /\ reason \in [Tasks -> Reasons] /\ e.task \in Tasks
  BY DEF Basics, TypeOK, AgentType, Event
<1> SUFFICES ASSUME phase # "none", NEW t \in Tasks \ missed'
             PROVE  ListFollows(t)' /\ ReasonFollows(t)'
  BY <1>1 DEF ViewFollows
<1>3. ListFollows(t) /\ ReasonFollows(t) /\ (Ending(t)' <=> Ending(t))
  BY <1>1 DEF ViewFollows, Ending, EndsTask
<1>4. reason' = [reason EXCEPT ![e.task] = e.reason]
  BY DEF Emits, AgentEmits
<1>5. CASE t # e.task
  <2>1. status'[t] = status[t] /\ reason'[t] = reason[t]
    BY <1>2, <1>4, <1>5 DEF Emits
  <2>2. CASE inbox' = inbox
    BY <1>1, <1>3, <2>1, <2>2 DEF ListFollows, ReasonFollows, Lists, Sets
  <2>3. CASE /\ Len(inbox') = Len(inbox) + 1 /\ inbox'[Len(inbox) + 1] = e
             /\ \A i \in 1..Len(inbox) : inbox'[i] = inbox[i]
             /\ Len(inbox) \in Nat
    <3>1. \A i \in 1..Len(inbox) : i \in 1..Len(inbox')
      BY <2>3
    <3>2. ASSUME NEW i \in 1..Len(inbox'), inbox'[i].task = t
          PROVE  i \in 1..Len(inbox) /\ inbox'[i] = inbox[i]
      BY <1>5, <2>3, <3>2
    <3>3. ListFollows(t)'
      BY <1>1, <1>3, <2>1, <2>3, <3>1 DEF ListFollows, Lists
    <3>4. \/ waiting'[t] = reason'[t] \/ Ending(t)'
          \/ \E i \in 1..Len(inbox') : inbox'[i].task = t /\ Sets(inbox'[i])
      BY <1>1, <1>3, <2>1, <2>3, <3>1 DEF ReasonFollows
    <3>5. ASSUME NEW i \in 1..Len(inbox'), inbox'[i].task = t, Sets(inbox'[i])
          PROVE  \/ inbox'[i].reason = reason'[t]
                 \/ \E j \in (i + 1)..Len(inbox') : inbox'[j].task = t /\ Sets(inbox'[j])
      <4>1. i \in 1..Len(inbox) /\ inbox'[i] = inbox[i]
        BY <3>2, <3>5
      <4>2. \A j \in (i + 1)..Len(inbox) :
              j \in (i + 1)..Len(inbox') /\ inbox'[j] = inbox[j]
        BY <2>3, <4>1
      <4> QED
        BY <1>3, <2>1, <3>5, <4>1, <4>2 DEF ReasonFollows
    <3> QED
      BY <3>3, <3>4, <3>5 DEF ReasonFollows, Sets
  <2> QED
    BY <1>1, <2>2, <2>3
<1>6. CASE t = e.task
  <2>1. /\ Len(inbox') = Len(inbox) + 1 /\ inbox'[Len(inbox) + 1] = e
        /\ \A i \in 1..Len(inbox) : inbox'[i] = inbox[i]
        /\ Len(inbox) \in Nat
    BY <1>1, <1>6
  <2>2. \A i \in 1..Len(inbox) : i \in 1..Len(inbox')
    BY <2>1
  <2>3. Len(inbox) + 1 \in 1..Len(inbox')
    BY <2>1
  <2>4. reason'[t] = e.reason
    BY <1>2, <1>4, <1>6
  <2>5. ListFollows(t)'
    <3>1. CASE status[t] = "open"
      BY <1>1, <1>3, <2>1, <2>2, <3>1 DEF ListFollows, Lists
    <3>2. CASE status[t] # "open"
      BY <1>6, <2>1, <2>3, <3>2 DEF Emits, ListFollows, Lists
    <3> QED
      BY <3>1, <3>2
  <2>6. ~ Sets(e) => reason'[t] = reason[t]
    BY <1>6, <2>4 DEF Emits
  <2>7. \/ waiting'[t] = reason'[t] \/ Ending(t)'
        \/ \E i \in 1..Len(inbox') : inbox'[i].task = t /\ Sets(inbox'[i])
    <3>1. CASE Sets(e)
      BY <1>6, <2>1, <2>3, <3>1
    <3>2. CASE ~ Sets(e)
      BY <1>1, <1>3, <2>1, <2>2, <2>6, <3>2 DEF ReasonFollows
    <3> QED
      BY <3>1, <3>2
  <2>8. ASSUME NEW i \in 1..Len(inbox'), inbox'[i].task = t, Sets(inbox'[i])
        PROVE  \/ inbox'[i].reason = reason'[t]
               \/ \E j \in (i + 1)..Len(inbox') : inbox'[j].task = t /\ Sets(inbox'[j])
    <3>1. CASE i = Len(inbox) + 1
      BY <2>1, <2>4, <3>1
    <3>2. CASE i # Len(inbox) + 1
      <4>1. i \in 1..Len(inbox) /\ inbox'[i] = inbox[i]
            /\ Len(inbox) + 1 \in (i + 1)..Len(inbox')
        BY <2>1, <3>2
      <4>2. CASE Sets(e)
        BY <1>6, <2>1, <4>1, <4>2
      <4>3. CASE ~ Sets(e)
        <5>1. \A j \in (i + 1)..Len(inbox) :
                j \in (i + 1)..Len(inbox') /\ inbox'[j] = inbox[j]
          BY <2>1, <4>1
        <5> QED
          BY <1>3, <2>6, <2>8, <4>1, <4>3, <5>1 DEF ReasonFollows
      <4> QED
        BY <4>2, <4>3
    <3> QED
      BY <3>1, <3>2
  <2> QED
    BY <2>5, <2>7, <2>8 DEF ReasonFollows, Sets
<1> QED
  BY <1>5, <1>6

(* The terminal event of a task is its last one: when it has been spoken   *)
(* the view of its task is the agent's.                                    *)
LEMMA FinishFollows ==
  ASSUME Basics, TerminalIsLast, OnlyOpenWait, ViewFollows, FinishSpeaking
  PROVE  ViewFollows'
<1>1. /\ rx_event.task \in Tasks /\ rx = "speaking"
      /\ UNCHANGED <<phase, inbox, status, reason, missed>>
      /\ IF EndsTask(rx_event)
         THEN /\ Range(task_order') = Range(task_order) \ {rx_event.task}
              /\ waiting' = Announced(waiting, rx_event.task, "none")
         ELSE UNCHANGED <<task_order, waiting>>
  BY FinishList DEF FinishSpeaking, network, agent
<1>2. rx' # "speaking" /\ phase # "none" /\ waiting \in [Tasks -> Reasons]
  BY <1>1 DEF FinishSpeaking, Persist, Basics, TypeOK, LoopType, ControllerType
<1> SUFFICES ASSUME NEW t \in Tasks \ missed
             PROVE  ListFollows(t)' /\ ReasonFollows(t)'
  BY <1>1 DEF ViewFollows
<1>3. ListFollows(t) /\ ReasonFollows(t)
  BY <1>2 DEF ViewFollows
<1>4. CASE Ending(t)
  <2>1. /\ status[t] = "over" /\ reason[t] = "none" /\ waiting'[t] = "none"
        /\ \A i \in 1..Len(inbox) : inbox[i].task # t
    BY <1>1, <1>2, <1>4 DEF Ending, TerminalIsLast, OnlyOpenWait, Announced
  <2> QED
    BY <1>1, <2>1 DEF ListFollows, ReasonFollows
<1>5. CASE ~ Ending(t)
  <2>1. /\ waiting'[t] = waiting[t]
        /\ t \in Range(task_order) => t \in Range(task_order')
    BY <1>1, <1>2, <1>5 DEF Ending, Announced
  <2> QED
    BY <1>1, <1>3, <1>5, <2>1 DEF ListFollows, ReasonFollows, Lists, Sets
<1> QED
  BY <1>4, <1>5

(* Events that are lost make their tasks missed ones.                      *)
LEMMA LossFollows ==
  ASSUME Basics, ViewFollows, Cut \/ CloseClient \/ LinkDrops
  PROVE  ViewFollows'
<1>1. CASE Cut
  BY <1>1 DEF Cut, ViewFollows, ListFollows, ReasonFollows, Lists, Sets, Ending
<1>2. CASE CloseClient
  <2>1. /\ inbox' = <<>> /\ phase # "none"
        /\ missed' = missed \cup {inbox[i].task : i \in 1..Len(inbox)}
        /\ UNCHANGED <<rx, rx_event, task_order, waiting, status, reason>>
    BY <1>2 DEF CloseClient, controller, loop, agent
  <2>2. Len(inbox') = 0
    BY <2>1
  <2> QED
    BY <2>1, <2>2 DEF ViewFollows, ListFollows, ReasonFollows, Lists, Sets, Ending
<1>3. CASE LinkDrops
  <2>1. /\ UNCHANGED <<rx, rx_event, task_order, waiting, status, reason, phase>>
        /\ missed \subseteq missed'
        /\ Len(inbox) \in Nat /\ Len(inbox') \in Nat /\ Len(inbox') <= Len(inbox)
        /\ \A i \in 1..Len(inbox') : inbox'[i] = inbox[i]
        /\ \A i \in (Len(inbox') + 1)..Len(inbox) : inbox[i].task \in missed'
    BY <1>3, DropStep DEF LinkDrops, agent
  <2> SUFFICES ASSUME phase # "none", NEW t \in Tasks \ missed'
               PROVE  ListFollows(t)' /\ ReasonFollows(t)'
    BY <2>1 DEF ViewFollows
  <2>2. ASSUME NEW i \in 1..Len(inbox), inbox[i].task = t
        PROVE  i \in 1..Len(inbox') /\ inbox'[i] = inbox[i]
    BY <2>1, <2>2
  <2>3. ListFollows(t) /\ ReasonFollows(t) /\ (Ending(t)' <=> Ending(t))
    BY <2>1 DEF ViewFollows, Ending
  <2>4. ListFollows(t)'
    BY <2>1, <2>2, <2>3 DEF ListFollows, Lists
  <2>5. \/ waiting'[t] = reason'[t] \/ Ending(t)'
        \/ \E i \in 1..Len(inbox') : inbox'[i].task = t /\ Sets(inbox'[i])
    BY <2>1, <2>2, <2>3 DEF ReasonFollows
  <2>6. ASSUME NEW i \in 1..Len(inbox'), inbox'[i].task = t, Sets(inbox'[i])
        PROVE  \/ inbox'[i].reason = reason'[t]
               \/ \E j \in (i + 1)..Len(inbox') : inbox'[j].task = t /\ Sets(inbox'[j])
    <3>1. i \in 1..Len(inbox) /\ inbox'[i] = inbox[i]
      BY <2>1
    <3>2. ASSUME NEW j \in (i + 1)..Len(inbox), inbox[j].task = t
          PROVE  j \in (i + 1)..Len(inbox') /\ inbox'[j] = inbox[j]
      <4>1. j \in 1..Len(inbox)
        BY <2>1, <3>1
      <4> QED
        BY <2>2, <3>1, <3>2, <4>1
    <3> QED
      BY <2>1, <2>3, <2>6, <3>1, <3>2 DEF ReasonFollows
  <2> QED
    BY <2>4, <2>5, <2>6 DEF ReasonFollows, Sets
<1> QED
  BY <1>1, <1>2, <1>3

(* No step leaves a reason with a task that is not open.                   *)
LEMMA OnlyOpenWaitStep ==
  ASSUME Basics, OnlyOpenWait, [Next]_vars
  PROVE  OnlyOpenWait'
<1>1. /\ status \in [Tasks -> {"unopened", "open", "over"}]
      /\ reason \in [Tasks -> Reasons]
  BY DEF Basics, TypeOK, AgentType
<1>2. ASSUME NEW e \in Event, Emits(e)
      PROVE  OnlyOpenWait'
  <2>1. reason' = [reason EXCEPT ![e.task] = e.reason] /\ e.task \in Tasks
    BY <1>2 DEF Emits, AgentEmits, Event
  <2> QED
    BY <1>1, <1>2, <2>1 DEF Emits, OnlyOpenWait
<1>3. UNCHANGED <<status, reason>> => OnlyOpenWait'
  BY DEF OnlyOpenWait
<1> QED
  BY <1>2, <1>3, ViewSteps DEF Start, Handle, FinishSpeaking, CloseClient, Crash,
                               LinkDrops, Cut, Unnoticed, agent

(* Every step keeps the view, with what is on its way, at the state of     *)
(* the agent.                                                              *)
LEMMA ViewStep ==
  ASSUME Basics, TerminalIsLast, OnlyOpenWait, ViewFollows, [Next]_vars
  PROVE  ViewFollows'
<1>1. ASSUME NEW resume \in BOOLEAN, Start(resume)
      PROVE  ViewFollows'
  <2>1. /\ inbox' = <<>> /\ waiting' = NoReasons /\ UNCHANGED <<status, reason>>
        /\ missed' = {t \in Tasks : status[t] # "unopened"}
    BY <1>1 DEF Start, agent
  <2>2. Len(inbox') = 0
    BY <2>1
  <2>3. ASSUME NEW t \in Tasks \ missed'
        PROVE  status'[t] # "open" /\ waiting'[t] = reason'[t]
    BY <2>1, <2>3 DEF OnlyOpenWait, NoReasons
  <2> QED
    BY <2>2, <2>3 DEF ViewFollows, ListFollows, ReasonFollows
<1>2. CASE Crash
  BY <1>2 DEF Crash, ViewFollows
<1>3. CASE Unnoticed
  BY <1>3 DEF Unnoticed, ViewFollows, ListFollows, ReasonFollows, Lists, Sets, Ending
<1> QED
  BY <1>1, <1>2, <1>3, HandleFollows, FinishFollows, LossFollows, EmitFollows, ViewSteps

(* At the beginning there is nothing to list.                              *)
LEMMA ViewInvInit ==
  ASSUME Init
  PROVE  ViewInv
<1>1. OnlyOpenWait /\ ViewFollows
  BY DEF Init, OnlyOpenWait, NoReasons, ViewFollows
<1> QED
  BY <1>1, IInvInit DEF ViewInv

(* Every step keeps the view's invariant.                                  *)
LEMMA ViewInvStep ==
  ASSUME ViewInv, [Next]_vars
  PROVE  ViewInv'
BY IInvStep, OnlyOpenWaitStep, ViewStep DEF ViewInv, IInv, Strengthening

(* With nothing on its way the view is the agent's.                        *)
LEMMA ViewInvMatches ==
  ASSUME ViewInv
  PROVE  ViewMatchesAgent
<1> SUFFICES ASSUME phase = "running", rx = "waiting", inbox = <<>>,
                    NEW t \in Tasks \ missed
             PROVE  /\ t \in Range(task_order) <=> status[t] = "open"
                    /\ waiting[t] = reason[t]
  BY DEF ViewMatchesAgent
<1>1. Len(inbox) = 0
  OBVIOUS
<1>2. ListFollows(t) /\ ReasonFollows(t)
  BY DEF ViewInv, ViewFollows
<1>3. t \in Range(task_order) => status[t] = "open"
  BY <1>1 DEF ViewInv, IInv, Strengthening, Accounted, TerminalPending
<1> QED
  BY <1>1, <1>2, <1>3 DEF ListFollows, ReasonFollows, Ending

(* When the receive loop of a running call has handled all it received,    *)
(* the tasks it lists are the open ones, and each waits for what the agent *)
(* said it waits for, for every task of which this call missed no event:   *)
(* no interleaving of questions, updates and endings makes them disagree.  *)
THEOREM ViewCorrect == Spec => []ViewMatchesAgent
<1> QED
  BY ViewInvInit, ViewInvStep, ViewInvMatches, PTL DEF Spec

-----------------------------------------------------------------------------
(* The store follows the view.                                             *)

(* Turns touch neither the controller's own state nor what is saved.       *)
LEMMA TurnsLeaveAlone ==
  ASSUME TurnNext
  PROVE  UNCHANGED <<phase, call, task_order, rx, store, writes, closed>>
BY DEF TurnNext, Utter, AnswerLocally, SendIntent, SendReply, SendQuery, LoseTurn,
       EndTurn, controller, storage, loop

(* Nor do the network and the agent, but that giving up ends the loop.     *)
LEMMA EnvironmentLeavesAlone ==
  ASSUME EnvironmentNext
  PROVE  UNCHANGED <<phase, call, task_order, store, writes, closed>> /\ rx' \in {rx, "dead"}
<1>1. ASSUME LinkDrops \/ Reconnected \/ GivesUp
      PROVE  UNCHANGED <<phase, call, task_order, store, writes, closed>> /\ rx' \in {rx, "dead"}
  BY <1>1 DEF LinkDrops, Reconnected, GivesUp, Reconnecting, controller, storage, loop
<1>2. ASSUME NEW e, AgentEmits(e)
      PROVE  UNCHANGED <<phase, call, task_order, store, writes, closed>> /\ rx' \in {rx, "dead"}
  BY <1>2 DEF AgentEmits, controller, storage, loop
<1> QED
  BY <1>1, <1>2 DEF EnvironmentNext, AgentOpens, AgentSays, AgentFinishes

(* What a save of the loop saves.                                          *)
View      == Snapshot(task_order, FALSE)
ViewWrite == [by |-> "loop", snap |-> View]

(* No save is of a later call than this one.                               *)
SavedBefore ==
  /\ store # NoSnapshot => store.call <= call
  /\ \A w \in writes : w.snap.call <= call

(* A call begins with no session of its own saved, and no save under way,  *)
(* since none of an earlier call is late.                                  *)
NotYetSaved ==
  phase = "connecting" => writes = {} /\ (store # NoSnapshot => store.call < call)

(* The loop does one thing at a time: while it waits or speaks it saves    *)
(* nothing, while it saves, what it saves is the view.                     *)
LoopSaves ==
  phase = "running" =>
    /\ rx \in {"waiting", "speaking"} => writes = {}
    /\ rx = "saving" => writes = {ViewWrite}

(* ... and when it waits, what this call has saved is the view.            *)
SavedIsView ==
  phase = "running" /\ rx = "waiting" /\ store # NoSnapshot /\ store.call = call
    => store = View

StoreInv == Basics /\ SavedBefore /\ NotYetSaved /\ LoopSaves /\ SavedIsView

(* The view consists of the list and the call.                             *)
LEMMA SameView ==
  ASSUME UNCHANGED <<task_order, call>>
  PROVE  View' = View /\ ViewWrite' = ViewWrite
BY DEF View, ViewWrite, Snapshot

(* The end of a handler saves the view, or begins to.                      *)
LEMMA PersistFollows ==
  ASSUME Basics, SavedBefore, LoopSaves, Persist,
         rx \in {"waiting", "speaking"}, UNCHANGED <<phase, call>>
  PROVE  SavedBefore' /\ NotYetSaved' /\ LoopSaves' /\ SavedIsView'
<1>1. /\ View'.call = call /\ call' <= call' /\ ViewWrite'.snap = View'
      /\ phase' # "connecting"
  BY DEF View, ViewWrite, Snapshot, Basics, TypeOK, ControllerType, LoopType
<1>2. CASE StoreKind = "memory"
  <2>1. rx' = "waiting" /\ store' = View' /\ writes' = writes
    BY <1>2 DEF Persist, View, Snapshot
  <2> QED
    BY <1>1, <2>1, SameView
       DEF SavedBefore, NotYetSaved, LoopSaves, SavedIsView
<1>3. CASE StoreKind # "memory"
  <2>1. /\ rx' = "saving" /\ store' = store /\ writes' = writes \cup {ViewWrite'}
    BY <1>3 DEF Persist, ViewWrite, View, Snapshot
  <2> QED
    BY <1>1, <2>1, SameView
       DEF SavedBefore, NotYetSaved, LoopSaves, SavedIsView
<1> QED
  BY <1>2, <1>3

(* Every step keeps what is stored at the view.                            *)
LEMMA StoreInvStep ==
  ASSUME StoreInv, "late_save" \notin Faults, [Next]_vars
  PROVE  StoreInv'
<1> SUFFICES SavedBefore' /\ NotYetSaved' /\ LoopSaves' /\ SavedIsView'
  BY BasicsStep DEF StoreInv
<1> DEFINE Goal == SavedBefore' /\ NotYetSaved' /\ LoopSaves' /\ SavedIsView'
<1>0. Basics /\ Basics' /\ call \in Nat
  BY BasicsStep DEF StoreInv, Basics, TypeOK, ControllerType
<1>b. SavedBefore /\ NotYetSaved /\ LoopSaves /\ SavedIsView
  BY DEF StoreInv
<1>1. ASSUME NEW resume \in BOOLEAN, Start(resume)
      PROVE  Goal
  <2>1. /\ call' = call + 1 /\ phase' \in {"connecting", "failed"} /\ writes = {}
        /\ UNCHANGED <<store, writes>>
    BY <1>1 DEF Start, storage
  <2>2. store # NoSnapshot => store.call \in Nat /\ store.call < call'
    BY <1>0, <1>b, <2>1 DEF SavedBefore, Basics, TypeOK, StoreType, SessionSnapshot
  <2> QED
    BY <1>0, <2>1, <2>2, SameView
       DEF SavedBefore, NotYetSaved, LoopSaves, SavedIsView
<1>2. CASE Connected
  <2>1. /\ phase = "connecting" /\ phase' = "running" /\ rx' = "waiting"
        /\ UNCHANGED <<call, store, writes>>
    BY <1>2 DEF Connected, storage
  <2>2. store # NoSnapshot => store.call # call
    BY <1>0, <2>1 DEF StoreInv, NotYetSaved, Basics, TypeOK, StoreType, SessionSnapshot
  <2> QED
    BY <1>b, <2>1, <2>2, SameView
       DEF SavedBefore, NotYetSaved, LoopSaves, SavedIsView
<1>3. CASE Handle
  <2>1. rx = "waiting" /\ UNCHANGED <<phase, call>>
    BY <1>3 DEF Handle
  <2>2. CASE Persist
    BY <1>0, <2>1, <2>2, PersistFollows DEF StoreInv
  <2>3. CASE UNCHANGED storage /\ rx' \in {"speaking", "dead"}
    <3>1. UNCHANGED <<store, writes>>
      BY <2>3 DEF storage
    <3> QED
      BY <1>b, <2>1, <2>3, <3>1
         DEF SavedBefore, NotYetSaved, LoopSaves, SavedIsView
  <2> QED
    BY <1>3, <2>2, <2>3 DEF Handle, HandleNarration, HandleQuestion, HandleTaskUpdate,
                            HandleEnding, HandleUnknown, AwaitInterrupt, LowLineFails
<1>4. CASE FinishSpeaking
  <2>1. rx = "speaking" /\ UNCHANGED <<phase, call>> /\ Persist
    BY <1>4 DEF FinishSpeaking
  <2> QED
    BY <1>0, <2>1, PersistFollows DEF StoreInv
<1>5. CASE Stop
  <2> DEFINE snap == Snapshot(task_order, TRUE)
  <2>1. /\ phase' # "running" /\ phase' # "connecting" /\ call' = call
        /\ snap.call = call
    BY <1>5 DEF Stop, Snapshot
  <2>2. \/ store' = snap /\ writes' = writes
        \/ store' = store /\ writes' = writes \cup {[by |-> "stop", snap |-> snap]}
    BY <1>5 DEF Stop
  <2>3. SavedBefore'
    <3>1. call <= call
      BY <1>0
    <3> HIDE DEF snap
    <3>2. CASE store' = snap /\ writes' = writes
      BY <1>b, <2>1, <3>1, <3>2 DEF SavedBefore
    <3>3. CASE /\ store' = store
               /\ writes' = writes \cup {[by |-> "stop", snap |-> snap]}
      BY <1>b, <2>1, <3>1, <3>3 DEF SavedBefore
    <3> QED
      BY <2>2, <3>2, <3>3
  <2> QED
    BY <2>1, <2>3 DEF NotYetSaved, LoopSaves, SavedIsView
<1>6. ASSUME NEW w \in writes, SaveLands(w)
      PROVE  Goal
  <2>1. /\ store' = w.snap /\ writes' = writes \ {w}
        /\ UNCHANGED <<call, task_order>> /\ w.snap.call <= call
    BY <1>6 DEF SaveLands, controller, StoreInv, SavedBefore
  <2>2. CASE phase' = "running"
    <3>1. /\ phase = "running"
          /\ rx' = IF Awaited(w) THEN "waiting" ELSE rx
      BY <1>6, <2>2 DEF SaveLands
    <3>2. CASE rx = "saving"
      <4>1. /\ writes = {ViewWrite}
            /\ w = ViewWrite
        BY <1>6, <3>1, <3>2 DEF StoreInv, LoopSaves
      <4>2. Awaited(w)
        BY <3>2, <4>1 DEF Awaited, ViewWrite, View, Snapshot
      <4>3. rx' = "waiting" /\ store' = View' /\ writes' = {}
        BY <2>1, <3>1, <4>1, <4>2, SameView DEF ViewWrite
      <4> QED
        BY <2>1, <2>2, <4>3 DEF SavedBefore, NotYetSaved, LoopSaves, SavedIsView
    <3>3. CASE rx # "saving"
      <4>1. rx \notin {"waiting", "speaking"} /\ rx' = rx
        BY <1>6, <3>1, <3>3 DEF StoreInv, LoopSaves, Awaited
      <4> QED
        BY <2>1, <2>2, <3>3, <4>1 DEF StoreInv, SavedBefore, NotYetSaved, LoopSaves,
                                      SavedIsView
    <3> QED
      BY <3>2, <3>3
  <2>3. CASE phase' # "running"
    <3>1. phase' # "connecting"
      BY <1>6 DEF SaveLands, StoreInv, NotYetSaved
    <3> QED
      BY <2>1, <2>3, <3>1 DEF StoreInv, SavedBefore, NotYetSaved, LoopSaves,
                              SavedIsView
  <2> QED
    BY <2>2, <2>3
<1>7. ASSUME NEW w \in writes, SaveVanishes(w) \/ SaveFails(w)
      PROVE  Goal
  <2>1. /\ writes' = writes \ {w}
        /\ store' = store /\ call' = call /\ task_order' = task_order
    BY <1>7 DEF SaveVanishes, SaveFails, controller
  <2>2. SavedBefore'
    BY <1>b, <2>1 DEF SavedBefore
  <2>3. /\ phase' = "connecting" => phase = "connecting"
        /\ phase' = "running" => phase = "running"
        /\ rx' = rx \/ rx' = "dead"
    BY <1>7 DEF SaveVanishes, SaveFails, loop
  <2>4. phase' = "running" /\ rx' = "saving" => FALSE
    <3>1. SUFFICES ASSUME phase = "running", rx = "saving", rx' = "saving"
                   PROVE  FALSE
      BY <2>3
    <3>2. w.by = "loop" /\ w.snap.call = call
      BY <1>b, <2>3, <3>1 DEF LoopSaves, ViewWrite, View, Snapshot
    <3> QED
      BY <1>7, <3>1, <3>2 DEF SaveVanishes, SaveFails, Awaited
  <2>5. NotYetSaved' /\ LoopSaves' /\ SavedIsView'
    BY <1>b, <2>1, <2>3, <2>4, SameView DEF NotYetSaved, LoopSaves, SavedIsView
  <2> QED
    BY <2>2, <2>5
<1>8. CASE Crash
  <2>1. /\ phase' = "none" /\ UNCHANGED <<call, writes>>
        /\ store' \in {NoSnapshot, store}
    BY <1>8 DEF Crash
  <2> QED
    BY <1>b, <2>1, SameView
       DEF SavedBefore, NotYetSaved, LoopSaves, SavedIsView
<1>9. CASE \/ ConnectFails \/ SpeakFails \/ CloseClient
           \/ TurnNext \/ EnvironmentNext \/ UNCHANGED vars
  <2>1. /\ UNCHANGED <<store, writes, call, task_order>>
        /\ phase' \in {phase, "failed", "stopped"} /\ rx' \in {rx, "dead"}
    <3>1. CASE TurnNext
      BY <3>1, TurnsLeaveAlone
    <3>2. CASE EnvironmentNext
      BY <3>2, EnvironmentLeavesAlone
    <3>3. CASE ConnectFails \/ SpeakFails \/ CloseClient \/ UNCHANGED vars
      BY <3>3 DEF ConnectFails, SpeakFails, CloseClient, vars, controller, storage, loop
    <3> QED
      BY <1>9, <3>1, <3>2, <3>3
  <2> QED
    BY <1>b, <2>1, SameView
       DEF SavedBefore, NotYetSaved, LoopSaves, SavedIsView
<1> QED
  BY <1>0, <1>1, <1>2, <1>3, <1>4, <1>5, <1>6, <1>7, <1>8, <1>9
     DEF Next, ControllerNext

(* t is news to this call, or what it has received of t is unread.         *)
Unread(t) == status[t] = "unopened" \/ \E i \in 1..Len(inbox) : inbox[i].task = t

(* Until this call has saved, it has handled nothing.                      *)
Unsaved ==
  /\ phase = "connecting" \/ (phase = "running" /\ rx = "waiting")
  /\ store = NoSnapshot \/ store.call # call

NoneHandled == Unsaved => \A t \in Tasks \ missed : Unread(t)

(* No step makes the call see something without saving it.                 *)
LEMMA NoneHandledStep ==
  ASSUME StoreInv, StoreInv', NoneHandled, "late_save" \notin Faults, [Next]_vars
  PROVE  NoneHandled'
<1>0. Basics /\ NoneHandled
  BY DEF StoreInv
<1>1. SUFFICES ASSUME Unsaved', NEW t \in Tasks \ missed'
               PROVE  Unread(t)'
  BY DEF NoneHandled
<1>2. ASSUME NEW resume \in BOOLEAN, Start(resume)
      PROVE  Unread(t)'
  BY <1>2 DEF Start, Unread, agent
<1>3. ASSUME NEW e \in Event, AgentStep(e)
      PROVE  Unread(t)'
  <2>1. /\ UNCHANGED <<phase, call, store, rx>> /\ e.task \in Tasks
        /\ missed \subseteq missed'
    BY <1>0, <1>3, EmitStep DEF AgentStep, AgentEmits, Event
  <2>2. Unread(t)
    BY <1>0, <1>1, <2>1 DEF Unsaved, NoneHandled
  <2>3. CASE e.task = t
    <3>1. Len(inbox') = Len(inbox) + 1 /\ inbox'[Len(inbox) + 1] = e /\ Len(inbox) \in Nat
      BY <1>0, <1>1, <1>3, <2>3, EmitStep DEF AgentStep
    <3>2. Len(inbox) + 1 \in 1..Len(inbox')
      BY <3>1
    <3> QED
      BY <2>3, <3>1, <3>2 DEF Unread
  <2>4. CASE e.task # t
    <3>1. status'[t] = status[t]
      BY <1>0, <1>3, <2>4 DEF AgentStep, Basics, TypeOK, AgentType
    <3>2. ASSUME NEW i \in 1..Len(inbox), inbox[i].task = t
          PROVE  Unread(t)'
      <4>1. i \in 1..Len(inbox') /\ inbox'[i] = inbox[i]
        BY <1>0, <1>3, <3>2, EmitStep, LenProperties DEF AgentStep, Basics, TypeOK, NetworkType
      <4> QED
        BY <3>2, <4>1 DEF Unread
    <3> QED
      BY <2>2, <3>1, <3>2 DEF Unread
  <2> QED
    BY <2>3, <2>4
<1>4. CASE LinkDrops
  <2>1. /\ UNCHANGED <<phase, call, store, rx, status>> /\ missed \subseteq missed'
    BY <1>0, <1>4, DropStep DEF LinkDrops, storage
  <2>2. Unread(t)
    BY <1>0, <1>1, <2>1 DEF Unsaved, NoneHandled
  <2>3. ASSUME NEW i \in 1..Len(inbox), inbox[i].task = t
        PROVE  Unread(t)'
    <3>1. i \in 1..Len(inbox') /\ inbox'[i] = inbox[i]
      BY <1>0, <1>1, <1>4, <2>3, DropStep
    <3> QED
      BY <2>3, <3>1 DEF Unread
  <2> QED
    BY <2>1, <2>2, <2>3 DEF Unread
<1>5. CASE Handle \/ FinishSpeaking
  <2>0. phase = "running" /\ rx' = "waiting"
    BY <1>0, <1>1, <1>5 DEF Handle, FinishSpeaking, Unsaved, Basics, TypeOK, LoopType
  <2>1. Persist \/ rx' # "waiting"
    BY <1>5 DEF Handle, HandleNarration, HandleQuestion, HandleTaskUpdate,
                HandleEnding, HandleUnknown, AwaitInterrupt, LowLineFails, FinishSpeaking
  <2>2. Persist
    BY <2>0, <2>1
  <2>3. store' = Snapshot(task_order', FALSE) /\ call' = call
    BY <1>5, <2>0, <2>2 DEF Persist, Handle, FinishSpeaking
  <2>4. store'.call = call' /\ store' # NoSnapshot
    <3>1. call \in 1..MaxCalls /\ task_order' \in Seq(Tasks)
      <4>1. phase # "none" /\ call \in 0..MaxCalls /\ call > 0
        BY <1>0, <1>5 DEF Handle, FinishSpeaking, Basics, TypeOK, ControllerType, LoopType
      <4>2. task_order' \in Seq(Tasks)
        BY DEF StoreInv, Basics, TypeOK, ControllerType
      <4> QED
        BY <4>1, <4>2, BoundAssumption
    <3>2. store' \in SessionSnapshot
      BY <2>3, <3>1, SnapshotType
    <3> QED
      BY <2>3, <3>2, SnapshotAssumption DEF Snapshot
  <2> QED
    BY <1>1, <2>4 DEF Unsaved
<1>6. ASSUME NEW w \in writes, SaveLands(w)
      PROVE  FALSE
  <2>1. phase = "running" /\ phase' = phase /\ rx' = "waiting"
    BY <1>1, <1>6 DEF Unsaved, SaveLands, StoreInv, NotYetSaved
  <2>2. rx = "saving"
    <3>1. rx # "waiting"
      BY <1>6, <2>1 DEF StoreInv, LoopSaves
    <3> QED
      BY <1>6, <2>1, <3>1 DEF SaveLands, Awaited
  <2>3. w = ViewWrite
    BY <1>6, <2>1, <2>2 DEF StoreInv, LoopSaves
  <2>4. store' = View /\ store'.call = call /\ call' = call
    BY <1>6, <2>3 DEF SaveLands, ViewWrite, View, Snapshot
  <2>5. store' # NoSnapshot
    BY <1>6, SnapshotAssumption DEF SaveLands, StoreInv, Basics, TypeOK, StoreType
  <2> QED
    BY <1>1, <2>4, <2>5 DEF Unsaved
<1>7. CASE \/ Connected \/ ConnectFails \/ SpeakFails \/ CloseClient \/ Reconnected
           \/ GivesUp \/ TurnNext \/ UNCHANGED vars
           \/ \E w \in writes : SaveVanishes(w) \/ SaveFails(w)
  <2>1. /\ UNCHANGED <<store, call>>
        /\ Unsaved' => UNCHANGED <<status, inbox>> /\ missed \subseteq missed'
        /\ \/ phase' = phase /\ rx' \in {rx, "dead"}
           \/ phase = "connecting"
           \/ phase' \in {"failed", "stopped", "aborted"}
    <3>1. CASE TurnNext
      BY <3>1, TurnsLeaveAlone
         DEF TurnNext, Utter, AnswerLocally, SendIntent, SendReply, SendQuery, LoseTurn,
             EndTurn, network, agent
    <3>2. CASE ~ TurnNext
      BY <1>1, <1>7, <3>2
         DEF Connected, ConnectFails, SpeakFails, CloseClient, Reconnected, GivesUp,
             SaveVanishes, SaveFails, vars, loop, storage, network, agent, Unsaved
    <3> QED
      BY <3>1, <3>2
  <2>2. Unsaved
    BY <1>1, <2>1 DEF Unsaved
  <2> QED
    BY <1>0, <1>1, <2>1, <2>2 DEF Unread, NoneHandled
<1>8. CASE Stop \/ Crash
  BY <1>1, <1>8 DEF Stop, Crash, Unsaved
<1> QED
  BY <1>0, <1>1, <1>2, <1>3, <1>4, <1>5, <1>6, <1>7, <1>8, AgentSteps DEF Next, ControllerNext

(* With either store, if no save of an earlier call is late: whenever the  *)
(* receive loop of a running call has caught up, the stored list names     *)
(* the tasks that are open at the agent, of those of which this call lost  *)
(* no event, whether or not the call has saved yet: a crash at that point  *)
(* leaves the next call every such task and no other.                      *)
THEOREM StoreCorrect ==
  ASSUME "late_save" \notin Faults
  PROVE  Spec => []StoreMatchesAgent
<1> DEFINE Inv == ViewInv /\ StoreInv /\ NoneHandled
<1>1. Init => Inv
  <2>1. Init => SavedBefore /\ NotYetSaved /\ LoopSaves /\ SavedIsView /\ NoneHandled
    BY DEF Init, SavedBefore, NotYetSaved, LoopSaves, SavedIsView, NoneHandled, Unsaved
  <2> QED
    BY <2>1, BasicsInit, ViewInvInit DEF StoreInv
<1>2. Inv /\ [Next]_vars => Inv'
  BY ViewInvStep, StoreInvStep, NoneHandledStep
<1>3. Inv => StoreMatchesAgent
  <2> SUFFICES ASSUME Inv, phase = "running", rx = "waiting", inbox = <<>>,
                      NEW t \in Tasks \ missed
               PROVE  status[t] = "open" <=> store # NoSnapshot /\ t \in Range(store.active)
    BY DEF StoreMatchesAgent
  <2>1. t \in Range(task_order) <=> status[t] = "open"
    BY ViewInvMatches DEF ViewMatchesAgent
  <2>2. CASE store # NoSnapshot /\ store.call = call
    BY <2>1, <2>2 DEF StoreInv, SavedIsView, View, Snapshot
  <2>3. CASE store = NoSnapshot \/ store.call # call
    <3>1. status[t] = "unopened"
      <4>1. Len(inbox) = 0
        OBVIOUS
      <4> QED
        BY <2>3, <4>1 DEF NoneHandled, Unsaved, Unread
    <3>2. store # NoSnapshot => t \notin Range(store.active)
      BY <3>1 DEF ViewInv, IInv, Strengthening, OnlyOpened, Snapshots
    <3> QED
      BY <3>1, <3>2
  <2> QED
    BY <2>2, <2>3
<1> QED
  BY <1>1, <1>2, <1>3, PTL DEF Spec

-----------------------------------------------------------------------------
(* The ledger.                                                             *)

(* The ledger has the library's operators under names of its own.          *)
LEMMA SameRemoveFirst ==
  ASSUME NEW s, NEW t
  PROVE  Ledger!RemoveFirst(s, t) = RemoveFirst(s, t)
BY DEF Ledger!RemoveFirst, RemoveFirst, Ledger!RemoveAt, RemoveAt,
       Ledger!SelectInSeq, SelectInSeq, Ledger!Min, Min

(* A call that is under way has a number.                                  *)
LEMMA CallUnderWay ==
  ASSUME Basics, rx # "none" \/ phase = "running"
  PROVE  call \in 1..MaxCalls
<1>1. phase # "none" /\ call \in 0..MaxCalls /\ call > 0
  BY DEF Basics, TypeOK, ControllerType, LoopType
<1> QED
  BY <1>1, BoundAssumption

(* Saving replaces what the ledger calls saved by the list that is saved.  *)
LEMMA SavedIs ==
  ASSUME Basics, rx # "none" \/ phase = "running",
         NEW order \in Seq(Tasks), NEW ended \in BOOLEAN,
         store' = Snapshot(order, ended)
  PROVE  SavedList' = {order}
<1>1. store' \in SessionSnapshot
  BY CallUnderWay, SnapshotType
<1>2. store'.active = order
  BY DEF Snapshot
<1> QED
  BY <1>1, <1>2, SnapshotAssumption DEF SavedList

(* The end of a handler over the in-memory store.                          *)
LEMMA PersistSaves ==
  ASSUME Basics, Basics', rx # "none", StoreKind = "memory", Persist
  PROVE  SavedList' = {task_order'}
<1>1. task_order' \in Seq(Tasks)
  BY DEF Basics, TypeOK, ControllerType
<1>2. store' = Snapshot(task_order', FALSE)
  BY DEF Persist
<1> QED
  BY <1>1, <1>2, SavedIs

(* One round of the receive loop notices the task of the event, unless the *)
(* event is a terminal one or one it cannot read.                          *)
LEMMA HandleIsNotice ==
  ASSUME Basics, Basics', TerminalIsLast, StoreKind = "memory", Handle
  PROVE  \/ \E t \in Tasks : Ledger!Notice(t)
         \/ UNCHANGED <<task_order, SavedList, closed>>
<1> DEFINE e == Head(inbox)
<1>1. /\ e.task \in Tasks /\ e.task \notin closed
      /\ rx = "waiting" /\ closed' = closed
  BY HandleStep DEF TerminalIsLast, Event
<1>2. storage' = storage => SavedList' = SavedList
  BY DEF storage, SavedList
<1>3. CASE HandleNarration(e) \/ HandleQuestion(e) \/ HandleTaskUpdate(e)
  <2>1. task_order' = Append(RemoveFirst(task_order, e.task), e.task)
    BY <1>3 DEF HandleNarration, HandleQuestion, HandleTaskUpdate, Touched
  <2>2. Persist \/ storage' = storage
    BY <1>3 DEF HandleNarration, HandleQuestion, HandleTaskUpdate, AwaitInterrupt,
                LowLineFails, storage
  <2>3. SavedList' \in {SavedList, {task_order'}}
    BY <1>1, <1>2, <2>2, PersistSaves
  <2>4. Ledger!Notice(e.task)
    BY <1>1, <2>1, <2>3, SameRemoveFirst DEF Ledger!Notice
  <2> QED
    BY <1>1, <2>4
<1>4. CASE HandleEnding(e) \/ HandleUnknown(e)
  <2>1. task_order' = task_order /\ storage' = storage
    BY <1>4 DEF HandleEnding, HandleUnknown, AwaitInterrupt, controller, storage
  <2> QED
    BY <1>1, <1>2, <2>1
<1> QED
  BY <1>3, <1>4 DEF Handle

(* The rest of a handler finishes the task, or only saves the list.        *)
LEMMA FinishIsFinish ==
  ASSUME Basics, Basics', StoreKind = "memory", FinishSpeaking
  PROVE  Ledger!Save \/ \E t \in Tasks : Ledger!Finish(t)
<1>1. rx = "speaking" /\ rx_event.task \in Tasks
  BY DEF FinishSpeaking, Basics, TypeOK, LoopType, Event
<1>2. SavedList' = {task_order'}
  BY <1>1, PersistSaves DEF FinishSpeaking
<1>3. CASE EndsTask(rx_event)
  <2>1. Ledger!Finish(rx_event.task)
    BY <1>2, <1>3, SameRemoveFirst DEF FinishSpeaking, Dropped, Ledger!Finish
  <2> QED
    BY <1>1, <2>1
<1>4. CASE ~ EndsTask(rx_event)
  BY <1>2, <1>4 DEF FinishSpeaking, controller, Ledger!Save
<1> QED
  BY <1>3, <1>4

(* Every step over the in-memory store is a step of the ledger, or leaves  *)
(* it alone.                                                               *)
LEMMA LedgerStep ==
  ASSUME IInv, IInv', StoreKind = "memory", [Next]_vars
  PROVE  [Ledger!Next]_(Ledger!vars)
<1>0. Basics /\ Basics' /\ TerminalIsLast /\ writes = {}
  BY DEF IInv, Strengthening, Basics, TypeOK, StoreType
<1> DEFINE Idle == UNCHANGED <<task_order, SavedList, closed>>
<1>1. Idle => [Ledger!Next]_(Ledger!vars)
  BY DEF Ledger!vars
<1>2. UNCHANGED <<task_order, storage, closed>> => Idle
  BY DEF storage, SavedList
<1>3. CASE Handle
  BY <1>0, <1>1, <1>3, HandleIsNotice DEF Ledger!Next
<1>4. CASE FinishSpeaking
  BY <1>0, <1>4, FinishIsFinish DEF Ledger!Next
<1>5. CASE Stop
  <2>1. /\ store' = Snapshot(task_order, TRUE) /\ phase = "running"
        /\ UNCHANGED <<task_order, closed>> /\ task_order \in Seq(Tasks)
    BY <1>0, <1>5 DEF Stop, controller, Basics, TypeOK, ControllerType
  <2>2. SavedList' = {task_order}
    BY <1>0, <2>1, SavedIs
  <2> QED
    BY <2>1, <2>2 DEF Ledger!Next, Ledger!Save
<1>6. ASSUME NEW resume \in BOOLEAN, Start(resume)
      PROVE  Ledger!Next
  <2>1. /\ task_order' \in {<<>>} \cup SavedList
        /\ UNCHANGED <<SavedList, closed>>
    BY <1>6 DEF Start, Restored, SavedList, storage
  <2> QED
    BY <2>1 DEF Ledger!Next, Ledger!BeginCall
<1>7. CASE Crash
  <2>1. task_order' = <<>> /\ SavedList' = {} /\ closed' = closed
    BY <1>7 DEF Crash, SavedList
  <2> QED
    BY <2>1 DEF Ledger!Next, Ledger!Forget
<1>8. CASE \/ Connected \/ ConnectFails \/ SpeakFails \/ CloseClient
           \/ TurnNext \/ EnvironmentNext \/ UNCHANGED vars
  <2>1. UNCHANGED <<task_order, storage, closed>>
    <3>1. CASE TurnNext
      BY <3>1, TurnsLeaveAlone DEF storage
    <3>2. CASE EnvironmentNext
      BY <3>2, EnvironmentLeavesAlone DEF storage
    <3>3. CASE Connected \/ ConnectFails \/ SpeakFails \/ CloseClient \/ UNCHANGED vars
      BY <3>3 DEF Connected, ConnectFails, SpeakFails, CloseClient, vars, controller,
                  storage
    <3> QED
      BY <1>8, <3>1, <3>2, <3>3
  <2> QED
    BY <1>1, <1>2, <2>1
<1> QED
  BY <1>0, <1>3, <1>4, <1>5, <1>6, <1>7, <1>8 DEF Next, ControllerNext

(* With the in-memory store the controller implements the ledger: whatever *)
(* the receive loop, turns, stop() and resumed calls do in between, its    *)
(* list changes by one task at a time, the saved list was the list of the  *)
(* moment it was saved, and a finished task returns to neither.            *)
THEOREM KeepsLedger ==
  ASSUME StoreKind = "memory"
  PROVE  Spec => ImplementsLedger
<1>1. Init => Ledger!Init
  BY DEF Init, Ledger!Init, SavedList
<1>2. IInv /\ IInv' /\ [Next]_vars => [Ledger!Next]_(Ledger!vars)
  BY LedgerStep
<1> QED
  BY IInvInit, IInvStep, <1>1, <1>2, PTL DEF Spec, ImplementsLedger, Ledger!Spec
=============================================================================
