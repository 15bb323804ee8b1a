-------------------------- MODULE VoiceAgentProofs --------------------------
(* The life of a job and its turns, proved for every value of the          *)
(* constants: whatever is said, answered and measured, wherever the job    *)
(* ends.  The latency log stays in order, which its percentiles rest on,   *)
(* and no answer is classified by which model gave it.                     *)
EXTENDS VoiceAgent, SequenceLemmas

(* The agent behind the websocket has a task of this job, and a turn is in *)
(* progress, only once LiveKit's session runs.                             *)
LiveFirst ==
  /\ "opened" \in tasks => entry = "live"
  /\ turn # NoTurn => entry = "live"

(* A turn is about an utterance.                                           *)
TurnType == turn \in [stage : Stages, text : SUBSET Words] \cup {NoTurn}

JobInv ==
  env \in Environment /\ TurnType /\ LiveFirst /\ ChosenModelWorks

(* An approval or a rejection that reaches the agent is one without the    *)
(* other.                                                                  *)
LEMMA WhatIsForwarded ==
  ASSUME NEW class, NEW text \in SUBSET Words, NEW output,
         output = Forward(class, text), output.type = "confirmation_response"
  PROVE  IF output.decision = "modify" THEN output.words = text
         ELSE text \cap {"approve", "reject"} = {output.decision}
<1>1. CASE class = "confirmation_reply" /\ listed
  <2>1. output = Sent("confirmation_response", Decision(text),
                      IF Decision(text) = "modify" THEN text ELSE {})
    BY <1>1 DEF Forward
  <2>2. output = [type |-> "confirmation_response", decision |-> Decision(text),
                  words |-> IF Decision(text) = "modify" THEN text ELSE {}]
    BY <2>1 DEF Sent, Quiet
  <2>3. Decision(text) # "modify" => text \cap {"approve", "reject"} = {Decision(text)}
    BY DEF Decision
  <2> QED
    BY <2>2, <2>3
<1>2. CASE ~ (class = "confirmation_reply" /\ listed)
  <2>1. \/ output = Sent("user_utterance", "none", text)
        \/ output = Sent("interrupt", "none", text)
        \/ output = Sent("session_query", "none", text)
        \/ output = Quiet
    BY <1>2 DEF Forward
  <2> QED
    BY <2>1 DEF Sent, Quiet
<1> QED
  BY <1>1, <1>2

(* What a turn sends when the router has answered.                         *)
LEMMA WhatIsSent ==
  ASSUME NEW a \in Answers, Classify(a), turn.text \in SUBSET Words,
         out'.type = "confirmation_response"
  PROVE  IF out'.decision = "modify" THEN out'.words = turn.text
         ELSE turn.text \cap {"approve", "reject"} = {out'.decision}
<1> DEFINE class == Classified(Content(env, a))
<1> HIDE DEF class
<1>1. \/ out' = Quiet
      \/ out' = [Quiet EXCEPT !.type = "line"]
      \/ out' = Forward(class, turn.text)
  BY DEF Classify, EndTurn, class
<1>2. out' = Quiet => out'.type = "nothing"
  BY DEF Quiet
<1>3. out' = [Quiet EXCEPT !.type = "line"] => out'.type = "line"
  BY DEF Quiet
<1> QED
  BY <1>1, <1>2, <1>3, WhatIsForwarded

(* No other step sends a decision.                                         *)
LEMMA OnlyTurnsDecide ==
  ASSUME [Next]_vars, ~ UNCHANGED vars, ~ \E a \in Answers : Classify(a)
  PROVE  out'.type # "confirmation_response"
<1>1. out' \in {Quiet, [Quiet EXCEPT !.type = "line"]}
  BY DEF Next, Wire, RoomConnected, ControllerStarted, SessionStarted, EntryFails,
     Advance, LinkDrops, Reconnects, GivesUp, Link, AgentSpeaks, Shutdown, StopSaved,
     StopRaises, SessionEndSent, SocketClosed, Stopping, ProcessExits, Utter,
     ModelFails, EndTurn, Lookup, Measure
<1> QED
  BY <1>1 DEF Quiet

(* Every step keeps what holds of the job.                                 *)
LEMMA JobInvStep ==
  ASSUME JobInv, [Next]_vars
  PROVE  JobInv'
<1> USE DEF lifecycle, ending, connection, work
<1>0. env \in Environment /\ TurnType /\ LiveFirst /\ ChosenModelWorks
  BY DEF JobInv
<1>1. CASE Wire
  <2>1. /\ entry = "new" /\ UNCHANGED <<env, tasks, turn>>
        /\ entry' = IF Accepted(env) /\ ClientBuilt(env) THEN "room" ELSE "failed"
    BY <1>1 DEF Wire, Advance
  <2>2. Accepted(env) /\ env.override = "none" => HasKey(env)
    BY <1>0 DEF Environment, Accepted, HasKey, Provider
  <2>3. ChosenModelWorks'
    BY <2>1, <2>2 DEF ChosenModelWorks, HasKey, Provider
  <2> QED
    BY <1>0, <2>1, <2>3 DEF JobInv, TurnType, LiveFirst
<1>2. CASE RoomConnected \/ ControllerStarted \/ SessionStarted \/ EntryFails
  <2>1. entry \notin {"new", "failed", "live"} /\ UNCHANGED <<env, tasks, turn>>
    BY <1>2 DEF RoomConnected, ControllerStarted, SessionStarted, EntryFails, Advance
  <2>2. ChosenModelWorks'
    BY <1>0, <2>1 DEF ChosenModelWorks, HasKey, Provider
  <2> QED
    BY <1>0, <2>1, <2>2 DEF JobInv, TurnType, LiveFirst
<1>3. ASSUME UNCHANGED <<env, entry, tasks>>, turn' \in {turn, NoTurn}
      PROVE  JobInv'
  <2>1. ChosenModelWorks'
    BY <1>0, <1>3 DEF ChosenModelWorks, HasKey, Provider
  <2> QED
    BY <1>0, <1>3, <2>1 DEF JobInv, TurnType, LiveFirst
<1>4. CASE \/ LinkDrops \/ Reconnects \/ GivesUp \/ AgentSpeaks
           \/ Shutdown \/ StopSaved \/ StopRaises \/ SessionEndSent \/ SocketClosed
           \/ ProcessExits \/ ModelFails \/ \E a \in Answers : Lookup(a)
           \/ \E value \in Samples : Measure(value)
           \/ UNCHANGED vars
  <2>1. UNCHANGED <<env, entry, tasks>> /\ turn' \in {turn, NoTurn}
    BY <1>4 DEF LinkDrops, Reconnects, GivesUp, Link, AgentSpeaks, Shutdown, StopSaved,
       StopRaises, SessionEndSent, SocketClosed, Stopping, ProcessExits, ModelFails,
       EndTurn, Lookup, Measure, vars
  <2> QED
    BY <1>3, <2>1
<1>5. ASSUME entry = "live", turn' \in [stage : Stages, text : SUBSET Words] \cup {NoTurn},
             UNCHANGED <<env, entry>>
      PROVE  JobInv'
  <2>1. ChosenModelWorks'
    BY <1>0, <1>5 DEF ChosenModelWorks, HasKey, Provider
  <2> QED
    BY <1>0, <1>5, <2>1 DEF JobInv, TurnType, LiveFirst
<1>6. ASSUME NEW text \in Utterances, Utter(text)
      PROVE  JobInv'
  <2>1. /\ entry = "live" /\ turn' = [stage |-> "classify", text |-> text]
        /\ UNCHANGED <<env, entry>>
    BY <1>6 DEF Utter
  <2>2. turn' \in [stage : Stages, text : SUBSET Words]
    BY <2>1, UtteranceAssumption DEF Stages
  <2> QED
    BY <1>5, <2>1, <2>2
<1>7. ASSUME NEW a \in Answers, Classify(a)
      PROVE  JobInv'
  <2>1. turn.stage = "classify" /\ UNCHANGED <<env, entry>>
    BY <1>7 DEF Classify
  <2>2. entry = "live" /\ turn \in [stage : Stages, text : SUBSET Words]
    BY <1>0, <2>1 DEF LiveFirst, TurnType, NoTurn
  <2>3. turn' \in {NoTurn, [turn EXCEPT !.stage = "lookup"]}
    <3> DEFINE class == Classified(Content(env, a))
    <3> HIDE DEF class
    <3> QED
      BY <1>7 DEF Classify, EndTurn, class
  <2>4. turn' \in [stage : Stages, text : SUBSET Words] \cup {NoTurn}
    BY <2>2, <2>3 DEF Stages
  <2> QED
    BY <1>5, <2>1, <2>2, <2>4
<1> QED
  BY <1>1, <1>2, <1>4, <1>6, <1>7 DEF Next

(* The job at the beginning,                                               *)
LEMMA JobInvInit == Init => JobInv
BY DEF Init, JobInv, TurnType, LiveFirst, ChosenModelWorks

(* ... and always.                                                         *)
LEMMA JobInvCorrect == Spec => []JobInv
BY JobInvInit, JobInvStep, PTL DEF Spec

-----------------------------------------------------------------------------
(* The latency log.                                                        *)

(* The numbers a[1] to a[n] go up.                                         *)
InOrder(a, n) == \A i, j \in 1..n : i <= j => a[i] <= a[j]

(* Those up to v come first.                                               *)
SplitBy(a, n, v, k) == \A i \in 1..n : a[i] <= v <=> i <= k

Numbers(a, n) == \A i \in 1..n : a[i] \in Nat

(* b is a with x at the end, or with v behind its first k numbers.         *)
Appended(b, a, n, x) == b[n + 1] = x /\ \A i \in 1..n : b[i] = a[i]

Inserted(b, a, n, k, v) ==
  /\ b[k + 1] = v /\ \A i \in 1..k : b[i] = a[i]
  /\ \A i \in (k + 2)..(n + 1) : b[i] = a[i - 1]

(* A number inserted where the greater ones begin leaves them in order.    *)
LEMMA InsertedInOrder ==
  ASSUME NEW n \in Nat, NEW k \in 0..n, NEW v \in Nat,
         NEW a, Numbers(a, n), InOrder(a, n), SplitBy(a, n, v, k),
         NEW b, Numbers(b, n + 1), Inserted(b, a, n, k, v)
  PROVE  InOrder(b, n + 1)
<1> USE DEF Numbers, SplitBy, Inserted
<1> SUFFICES ASSUME NEW i \in 1..(n + 1), NEW j \in 1..(n + 1), i < j
             PROVE  b[i] <= b[j]
  BY DEF InOrder
<1>1. CASE j <= k
  BY <1>1 DEF InOrder
<1>2. CASE j = k + 1
  BY <1>2
<1>3. CASE j > k + 1
  <2>1. b[j] = a[j - 1] /\ j - 1 \in 1..n /\ j - 1 > k
    BY <1>3
  <2>2. CASE i <= k
    BY <2>1, <2>2 DEF InOrder
  <2>3. CASE i = k + 1
    BY <2>1, <2>3
  <2>4. CASE i > k + 1
    <3>1. b[i] = a[i - 1] /\ i - 1 \in 1..n /\ i - 1 <= j - 1
      BY <2>4
    <3> QED
      BY <2>1, <3>1 DEF InOrder
  <2> QED
    BY <2>2, <2>3, <2>4
<1> QED
  BY <1>1, <1>2, <1>3

(* Where the greater ones begin, one number further.                       *)
LEMMA SplitAppended ==
  ASSUME NEW n \in Nat, NEW k \in 0..n, NEW v \in Nat, NEW x \in Nat,
         NEW a, Numbers(a, n), SplitBy(a, n, v, k),
         NEW b, Appended(b, a, n, x), InOrder(b, n + 1)
  PROVE  /\ x <= v => SplitBy(b, n + 1, v, k + 1)
         /\ ~ (x <= v) => SplitBy(b, n + 1, v, k)
<1> USE DEF Numbers, SplitBy, Appended
<1>1. \A i \in 1..n : a[i] <= x
  BY DEF InOrder
<1>2. ASSUME x <= v
      PROVE  SplitBy(b, n + 1, v, k + 1)
  <2>1. k = n
    <3>1. CASE n = 0
      BY <3>1
    <3>2. CASE n # 0
      BY <1>1, <1>2, <3>2
    <3> QED
      BY <3>1, <3>2
  <2> QED
    BY <1>1, <1>2, <2>1
<1>3. ASSUME ~ (x <= v), NEW i \in 1..(n + 1)
      PROVE  b[i] <= v <=> i <= k
  BY <1>3
<1> QED
  BY <1>2, <1>3

(* The elements of a concatenation, and of a sequence with one inserted.   *)
LEMMA ConcatIs ==
  ASSUME NEW T, NEW s \in Seq(T), NEW t \in Seq(T)
  PROVE  /\ s \o t \in Seq(T) /\ Len(s \o t) = Len(s) + Len(t)
         /\ \A i \in 1..Len(s) : (s \o t)[i] = s[i]
         /\ \A i \in 1..Len(t) : (s \o t)[Len(s) + i] = t[i]
OBVIOUS

(* InsertAt puts one value between the others.                             *)
LEMMA InsertIs ==
  ASSUME NEW T, NEW s \in Seq(T), NEW v \in T, NEW k \in 0..Len(s)
  PROVE  /\ InsertAt(s, k + 1, v) \in Seq(T) /\ Len(InsertAt(s, k + 1, v)) = Len(s) + 1
         /\ Inserted(InsertAt(s, k + 1, v), s, Len(s), k, v)
<1>a. PICK n \in Nat : n = Len(s)
  OBVIOUS
<1>b. PICK t : t = InsertAt(s, k + 1, v)
  OBVIOUS
<1>c. t = SubSeq(s, 1, k) \o <<v>> \o SubSeq(s, k + 1, n)
  <2>1. (k + 1) - 1 = k
    OBVIOUS
  <2>2. InsertAt(s, k + 1, v) = SubSeq(s, 1, (k + 1) - 1) \o <<v>> \o SubSeq(s, k + 1, Len(s))
    BY Zenon DEF InsertAt
  <2> QED
    BY <1>a, <1>b, <2>1, <2>2, Zenon
<1>d. k \in 0..n
  BY <1>a, Zenon
<1>1. PICK p \in Seq(T) : p = SubSeq(s, 1, k)
  BY SubSeq(s, 1, k) \in Seq(T), Zenon
<1>2. PICK q \in Seq(T) : q = SubSeq(s, k + 1, n)
  BY <1>a, SubSeq(s, k + 1, n) \in Seq(T), Zenon
<1>3. Len(p) = k /\ \A i \in 1..k : p[i] = s[i]
  BY <1>1
<1>4. PICK m \in Nat : m = n - k
  BY <1>d, n - k \in Nat
<1>5. Len(q) = m /\ \A i \in 1..m : q[i] = s[k + i]
  BY <1>2, <1>4, <1>a, <1>d
<1>6. PICK e \in Seq(T) : e = <<v>>
  BY <<v>> \in Seq(T), Zenon
<1>7. Len(e) = 1 /\ e[1] = v
  BY <1>6
<1>8. PICK u \in Seq(T) : u = p \o e
  BY p \o e \in Seq(T), Zenon
<1>9. /\ Len(u) = Len(p) + Len(e) /\ \A i \in 1..Len(p) : u[i] = p[i]
      /\ \A i \in 1..Len(e) : u[Len(p) + i] = e[i]
  BY <1>8, ConcatIs
<1>10. Len(u) = k + 1 /\ u[k + 1] = v /\ \A i \in 1..k : u[i] = s[i]
  <2>1. u[k + 1] = v
    <3>1. 1 \in 1..1
      OBVIOUS
    <3> QED
      BY <1>3, <1>7, <1>9, <3>1, Zenon
  <2>2. \A i \in 1..k : u[i] = s[i]
    BY <1>3, <1>9, Zenon
  <2>3. Len(u) = k + 1
    BY <1>3, <1>7, <1>9, Zenon
  <2> QED
    BY <2>1, <2>2, <2>3
<1>11. t = u \o q
  BY <1>c, <1>1, <1>2, <1>6, <1>8, Zenon
<1>12. /\ t \in Seq(T) /\ Len(t) = Len(u) + Len(q) /\ \A i \in 1..Len(u) : t[i] = u[i]
       /\ \A i \in 1..Len(q) : t[Len(u) + i] = q[i]
  <2>1. /\ u \o q \in Seq(T) /\ Len(u \o q) = Len(u) + Len(q)
        /\ \A i \in 1..Len(u) : (u \o q)[i] = u[i]
        /\ \A i \in 1..Len(q) : (u \o q)[Len(u) + i] = q[i]
    BY ConcatIs
  <2> QED
    BY <1>11, <2>1, Zenon
<1>13. /\ \A i \in 1..(k + 1) : t[i] = u[i]
       /\ \A i \in 1..m : t[k + 1 + i] = s[k + i]
  BY <1>5, <1>10, <1>12, Zenon
<1>14. ASSUME NEW i \in (k + 2)..(n + 1)
       PROVE  t[i] = s[i - 1]
  <2>1. i - (k + 1) \in 1..m /\ k + 1 + (i - (k + 1)) = i /\ k + (i - (k + 1)) = i - 1
    BY <1>4, <1>d
  <2> QED
    BY <1>13, <2>1, Zenon
<1>15. Len(t) = n + 1
  <2>1. Len(t) = (k + 1) + m
    BY <1>5, <1>10, <1>12, Zenon
  <2>2. (k + 1) + m = n + 1
    BY <1>4, <1>d
  <2> QED
    BY <2>1, <2>2, Zenon
<1>16. t[k + 1] = v
  <2>1. k + 1 \in 1..(k + 1)
    OBVIOUS
  <2> QED
    BY <1>10, <1>13, <2>1, Zenon
<1>17. \A i \in 1..k : t[i] = s[i]
  <2>1. \A i \in 1..k : i \in 1..(k + 1)
    OBVIOUS
  <2> QED
    BY <1>10, <1>13, <2>1, Zenon
<1>18. Inserted(t, s, n, k, v)
  BY <1>14, <1>16, <1>17, Zenon DEF Inserted
<1> QED
  BY <1>a, <1>b, <1>12, <1>15, <1>18, Zenon
Sorted(s) == InOrder(s, Len(s))

(* In a sorted sequence those up to a value come first.                    *)
LEMMA KeptOfSorted ==
  ASSUME NEW v \in Nat
  PROVE  \A s \in Seq(Nat) :
           Sorted(s) => /\ Len(Kept(s, 0..v)) \in 0..Len(s)
                        /\ SplitBy(s, Len(s), v, Len(Kept(s, 0..v)))
<1> DEFINE Splits(s) == /\ Len(Kept(s, 0..v)) \in 0..Len(s)
                        /\ SplitBy(s, Len(s), v, Len(Kept(s, 0..v)))
           P == {s \in Seq(Nat) : Sorted(s) => Splits(s)}
<1>1. <<>> \in P
  <2>1. Kept(<<>>, 0..v) = <<>> /\ <<>> \in Seq(Nat)
    BY KeptEmpty
  <2> QED
    BY <2>1 DEF SplitBy
<1>2. ASSUME NEW s \in Seq(Nat), NEW x \in Nat, s \in P
      PROVE  Append(s, x) \in P
  <2>0. PICK t \in Seq(Nat) : t = Append(s, x)
    BY Append(s, x) \in Seq(Nat)
  <2>1. /\ Len(t) = Len(s) + 1 /\ Len(s) \in Nat /\ t[Len(s) + 1] = x
        /\ \A i \in 1..Len(s) : t[i] = s[i] /\ s[i] \in Nat
    BY <2>0
  <2>2. Appended(t, s, Len(s), x) /\ Numbers(s, Len(s))
    BY <2>1, Zenon DEF Appended, Numbers
  <2> SUFFICES ASSUME Sorted(t) PROVE Splits(t)
    BY <2>0
  <2>3. InOrder(t, Len(s) + 1)
    BY <2>1, Zenon DEF Sorted
  <2>4. Sorted(s)
    BY <2>1, <2>3 DEF Sorted, InOrder
  <2>5. PICK k \in Seq(Nat) : k = Kept(s, 0..v)
    <3>1. Kept(s, 0..v) \in Seq(Nat \cap (0..v)) /\ Nat \cap (0..v) \subseteq Nat
      BY KeptType, Zenon
    <3> QED
      BY <3>1, SeqMonotonic, Zenon
  <2>6. Len(k) \in 0..Len(s) /\ SplitBy(s, Len(s), v, Len(k))
    BY <1>2, <2>4, <2>5, Zenon
  <2>7. /\ x <= v => SplitBy(t, Len(s) + 1, v, Len(k) + 1)
        /\ ~ (x <= v) => SplitBy(t, Len(s) + 1, v, Len(k))
    BY <2>1, <2>2, <2>3, <2>6, SplitAppended, Zenon
  <2>8. CASE x <= v
    <3>1. Kept(t, 0..v) = Append(k, x)
      <4>1. x \in 0..v
        BY <2>8
      <4> QED
        BY <2>0, <2>5, <4>1, KeptAppend, Zenon
    <3>2. Len(Append(k, x)) = Len(k) + 1
      OBVIOUS
    <3>3. Len(k) + 1 \in 0..(Len(s) + 1)
      BY <2>1, <2>6
    <3> QED
      BY <2>1, <2>7, <2>8, <3>1, <3>2, <3>3, Zenon
  <2>9. CASE ~ (x <= v)
    <3>1. Kept(t, 0..v) = k
      <4>1. x \notin 0..v
        BY <2>9
      <4> QED
        BY <2>0, <2>5, <4>1, KeptAppend, Zenon
    <3>2. Len(k) \in 0..(Len(s) + 1)
      BY <2>1, <2>6
    <3> QED
      BY <2>1, <2>7, <2>9, <3>1, <3>2, Zenon
  <2> QED
    BY <2>8, <2>9
<1>3. Seq(Nat) \subseteq P
  <2> HIDE DEF P
  <2> QED
    BY <1>1, <1>2, SequencesBySteps
<1> QED
  BY <1>3

(* A value is recorded behind those up to it and before the others.        *)
LEMMA RecordedIs ==
  ASSUME NEW s \in Seq(Nat), NEW v \in Nat, Sorted(s)
  PROVE  /\ Recorded(s, v) \in Seq(Nat) /\ Sorted(Recorded(s, v))
         /\ Len(Recorded(s, v)) = Len(s) + 1
<1>0. Len(s) \in Nat /\ Numbers(s, Len(s)) /\ InOrder(s, Len(s))
  BY DEF Numbers, Sorted
<1>1. PICK k \in 0..Len(s) : k = Len(Kept(s, 0..v)) /\ SplitBy(s, Len(s), v, k)
  BY KeptOfSorted, Zenon
<1>2. PICK t \in Seq(Nat) : /\ t = InsertAt(s, k + 1, v) /\ Len(t) = Len(s) + 1
                            /\ Inserted(t, s, Len(s), k, v)
  BY InsertIs, Zenon
<1>3. Recorded(s, v) = t
  BY <1>1, <1>2, Zenon DEF Recorded
<1>4. Numbers(t, Len(s) + 1)
  BY <1>0, <1>2 DEF Numbers
<1>5. InOrder(t, Len(s) + 1)
  BY <1>0, <1>1, <1>2, <1>4, InsertedInOrder, Zenon
<1> QED
  BY <1>2, <1>3, <1>5, Zenon DEF Sorted

(* The value k hundredths of the way from one sample to the next.          *)
Interpolated(s, k) ==
  LET lo == k \div 100
      hi == Min({lo + 1, Len(s) - 1})
  IN  100 * s[lo + 1] + (s[hi + 1] - s[lo + 1]) * (k % 100)

(* How far behind which sample.                                            *)
LEMMA Hundredths ==
  ASSUME NEW k \in Nat
  PROVE  \E lo \in Nat, r \in 0..99 : k = 100 * lo + r /\ lo = k \div 100 /\ r = k % 100
<1>1. k \div 100 \in Nat /\ k % 100 \in 0..99
  OBVIOUS
<1>2. PICK lo \in Nat : lo = k \div 100
  BY <1>1, Zenon
<1>3. PICK r \in 0..99 : r = k % 100
  BY <1>1, Zenon
<1>4. k = 100 * lo + r
  BY <1>2, <1>3
<1> QED
  BY <1>2, <1>3, <1>4, Zenon

(* The upper neighbour of a sample, or the last sample itself.             *)
LEMMA MinOfTwo ==
  ASSUME NEW a \in Int, NEW b \in Int
  PROVE  /\ a <= b => Min({a, b}) = a
         /\ b <= a => Min({a, b}) = b
<1> DEFINE Q(x) == x \in {a, b} /\ \A y \in {a, b} : x <= y
           c == CHOOSE x : Q(x)
<1>1. Min({a, b}) = c
  BY Zenon DEF Min
<1>2. Q(a) \/ Q(b)
  OBVIOUS
<1>3. Q(c)
  BY <1>2, Zenon
<1> HIDE DEF c
<1>4. /\ a <= b => c = a
      /\ b <= a => c = b
  BY <1>3
<1> QED
  BY <1>1, <1>4, Zenon

(* Between two neighbours, the closer to the upper one the greater.        *)
LEMMA Products ==
  ASSUME NEW d \in Nat, NEW r \in 0..100, NEW q \in r..100
  PROVE  0 <= d * r /\ d * r <= d * q /\ d * r \in Nat /\ d * q \in Nat
<1>1. PICK e \in Nat : q = r + e
  <2>1. q - r \in Nat /\ q = r + (q - r)
    OBVIOUS
  <2> QED
    BY <2>1
<1>2. d * r \in Nat /\ d * e \in Nat
  OBVIOUS
<1>3. d * q = d * r + d * e
  BY <1>1
<1> QED
  BY <1>2, <1>3

(* s are n samples in order.                                               *)
Sample(s, n) == s \in Seq(Nat) /\ n \in Nat \ {0} /\ Len(s) = n /\ InOrder(s, n)

(* k lies r hundredths behind the sample lo, d below the next one.         *)
LiesAt(s, n, k, lo, r, d) ==
  /\ k = 100 * lo + r
  /\ Interpolated(s, k) = 100 * s[lo + 1] + d * r
  /\ lo < n - 1 => s[lo + 2] = s[lo + 1] + d
  /\ lo = n - 1 => r = 0

(* A percentile lies between two neighbours, at a part of their distance.  *)
LEMMA InterpolatedIs ==
  ASSUME NEW s, NEW n \in Nat, Sample(s, n),
         NEW k \in Nat, k <= 100 * (n - 1)
  PROVE  \E lo \in 0..(n - 1), r \in 0..99, d \in Nat : LiesAt(s, n, k, lo, r, d)
<1>0. /\ n \in Nat \ {0} /\ Len(s) = n /\ InOrder(s, n)
      /\ \A i \in 1..n : s[i] \in Nat
  BY DEF Sample
<1>1. PICK lo \in Nat, r \in 0..99 : k = 100 * lo + r /\ lo = k \div 100 /\ r = k % 100
  BY Hundredths, Zenon
<1>2. lo \in 0..(n - 1) /\ (lo = n - 1 => r = 0)
  BY <1>0, <1>1
<1>3. CASE lo = n - 1
  <2>1. Min({lo + 1, n - 1}) = lo
    BY <1>3, MinOfTwo
  <2>2. Interpolated(s, k) = 100 * s[lo + 1] + (s[lo + 1] - s[lo + 1]) * r
    BY <1>0, <1>1, <2>1, Zenon DEF Interpolated
  <2>3. (s[lo + 1] - s[lo + 1]) * r = 0 * r
    BY <1>0, <1>2
  <2>4. Interpolated(s, k) = 100 * s[lo + 1] + 0 * r
    BY <2>2, <2>3, Zenon
  <2>5. ~ (lo < n - 1) /\ 0 \in Nat
    BY <1>3
  <2> QED
    BY <1>1, <1>2, <2>4, <2>5, Zenon DEF LiesAt
<1>4. CASE lo < n - 1
  <2>1. Min({lo + 1, n - 1}) = lo + 1
    BY <1>4, MinOfTwo
  <2>2. (lo + 1) + 1 = lo + 2
    OBVIOUS
  <2>3. Interpolated(s, k) = 100 * s[lo + 1] + (s[lo + 2] - s[lo + 1]) * r
    BY <1>0, <1>1, <2>1, <2>2, ZenonT(30) DEF Interpolated
  <2>4. lo + 1 \in 1..n /\ lo + 2 \in 1..n /\ lo + 1 <= lo + 2
    BY <1>4
  <2>5. s[lo + 1] \in Nat /\ s[lo + 2] \in Nat /\ s[lo + 1] <= s[lo + 2]
    BY <1>0, <2>4, Zenon DEF InOrder
  <2>6. PICK d \in Nat : d = s[lo + 2] - s[lo + 1]
    BY <2>5
  <2>7. s[lo + 2] = s[lo + 1] + d
    BY <2>5, <2>6
  <2>8. lo # n - 1
    BY <1>4
  <2> QED
    BY <1>1, <1>2, <2>3, <2>6, <2>7, <2>8, Zenon DEF LiesAt
<1> QED
  BY <1>2, <1>3, <1>4

(* A figure further behind is no smaller.                                  *)
LEMMA InterpolatedInOrder ==
  ASSUME NEW s, NEW n \in Nat, Sample(s, n),
         NEW k \in Nat, NEW l \in Nat, k <= l, l <= 100 * (n - 1)
  PROVE  Interpolated(s, k) <= Interpolated(s, l)
<1>0. /\ n \in Nat \ {0} /\ Len(s) = n /\ InOrder(s, n)
      /\ \A i \in 1..n : s[i] \in Nat
  BY DEF Sample
<1> USE DEF LiesAt
<1>1. PICK lo \in 0..(n - 1), r \in 0..99, d \in Nat : LiesAt(s, n, k, lo, r, d)
  <2>1. k <= 100 * (n - 1)
    BY <1>0
  <2> QED
    <3> HIDE DEF LiesAt
    <3> QED
      BY <2>1, InterpolatedIs, Zenon
<1>2. PICK hi \in 0..(n - 1), q \in 0..99, e \in Nat : LiesAt(s, n, l, hi, q, e)
  <2> HIDE DEF LiesAt
  <2> QED
    BY InterpolatedIs, Zenon
<1>3. lo < hi \/ (lo = hi /\ r <= q)
  <2>1. k = 100 * lo + r /\ l = 100 * hi + q
    BY <1>1, <1>2, Zenon
  <2> QED
    BY <2>1
<1>4. /\ d * r \in Nat /\ e * q \in Nat /\ d * r <= d * 100
      /\ (r <= q => d * r <= d * q /\ d * q \in Nat)
  <2>1. d * r \in Nat /\ d * r <= d * 100
    <3>1. r \in 0..100 /\ 100 \in r..100
      OBVIOUS
    <3> QED
      BY <3>1, Products, Zenon
  <2>2. e * q \in Nat
    OBVIOUS
  <2>3. r <= q => d * r <= d * q /\ d * q \in Nat
    <3>1. r \in 0..100 /\ (r <= q => q \in r..100)
      OBVIOUS
    <3> QED
      BY <3>1, Products, Zenon
  <2> QED
    BY <2>1, <2>2, <2>3
<1>5. s[lo + 1] \in Nat /\ s[hi + 1] \in Nat
  BY <1>0
<1>6. CASE lo < hi
  <2>1. lo + 2 \in 1..n /\ hi + 1 \in 1..n /\ lo + 2 <= hi + 1 /\ lo < n - 1
    BY <1>6
  <2>2. s[lo + 2] <= s[hi + 1] /\ s[lo + 2] = s[lo + 1] + d
    BY <1>0, <1>1, <2>1, Zenon DEF InOrder
  <2>3. 100 * s[lo + 1] + d * 100 <= 100 * s[hi + 1]
    BY <1>5, <2>2
  <2> QED
    <3>1. PICK x \in Nat : x = d * r
      BY <1>4
    <3>2. PICK y \in Nat : y = e * q
      BY <1>4
    <3>3. x <= d * 100 /\ d * 100 \in Nat
      BY <1>4, <3>1
    <3>4. \A a, b, c \in Nat : 100 * a + c <= 100 * b /\ x <= c => 100 * a + x <= 100 * b + y
      OBVIOUS
    <3>5. 100 * s[lo + 1] + x <= 100 * s[hi + 1] + y
      BY <1>5, <2>3, <3>3, <3>4, Zenon
    <3> QED
      BY <1>1, <1>2, <3>1, <3>2, <3>5, Zenon
<1>7. CASE lo = hi /\ r <= q
  <2>1. CASE lo = n - 1
    <3>1. r = 0 /\ q = 0
      BY <1>1, <1>2, <1>7, <2>1
    <3>2. d * r = 0 /\ e * q = 0
      BY <3>1
    <3> QED
      BY <1>1, <1>2, <1>5, <1>7, <3>2
  <2>2. CASE lo < n - 1
    <3>0. s[lo + 2] = s[lo + 1] + d /\ s[lo + 2] = s[lo + 1] + e
      BY <1>1, <1>2, <1>7, <2>2, Zenon
    <3>1. d = e
      BY <1>5, <3>0
    <3>2. d * r <= e * q
      BY <1>4, <1>7, <3>1
    <3> QED
      BY <1>1, <1>2, <1>4, <1>5, <1>7, <3>2
  <2> QED
    BY <2>1, <2>2
<1> QED
  BY <1>3, <1>6, <1>7

(* At a sample the figure is the sample, half way between two the mean.    *)
LEMMA InterpolatedAt ==
  ASSUME NEW s, NEW n \in Nat, Sample(s, n), NEW m \in 0..(n - 1)
  PROVE  Interpolated(s, 100 * m) = 100 * s[m + 1]
<1>1. /\ n \in Nat \ {0} /\ \A i \in 1..n : s[i] \in Nat
      /\ 100 * m \in Nat /\ 100 * m <= 100 * (n - 1)
  BY DEF Sample
<1>2. PICK lo \in 0..(n - 1), r \in 0..99, d \in Nat : LiesAt(s, n, 100 * m, lo, r, d)
  BY <1>1, InterpolatedIs, Zenon
<1>3. 100 * m = 100 * lo + r /\ Interpolated(s, 100 * m) = 100 * s[lo + 1] + d * r
  BY <1>2, Zenon DEF LiesAt
<1>4. lo = m /\ r = 0
  BY <1>3
<1>5. d * 0 = 0 /\ m + 1 \in 1..n
  BY <1>1
<1>6. Interpolated(s, 100 * m) = 100 * s[m + 1] + 0
  BY <1>3, <1>4, <1>5, Zenon
<1>7. \A x \in Nat : 100 * x + 0 = 100 * x
  OBVIOUS
<1> QED
  BY <1>1, <1>5, <1>6, <1>7, Zenon

(* The median of an even number of samples is between the middle ones.     *)
LEMMA InterpolatedBetween ==
  ASSUME NEW s, NEW m \in Nat, Sample(s, 2 * m)
  PROVE  2 * Interpolated(s, (2 * m - 1) * 50) = 100 * (s[m] + s[m + 1])
<1>0. PICK n \in Nat : n = 2 * m
  BY 2 * m \in Nat
<1> SUFFICES 2 * Interpolated(s, (n - 1) * 50) = 100 * (s[m] + s[m + 1])
  BY <1>0, Zenon
<1>s. Sample(s, n)
  BY <1>0, Zenon
<1>1. /\ n \in Nat \ {0} /\ \A i \in 1..n : s[i] \in Nat
      /\ (n - 1) * 50 \in Nat /\ (n - 1) * 50 <= 100 * (n - 1)
  BY <1>s DEF Sample
<1>2. PICK lo \in 0..(n - 1), r \in 0..99, d \in Nat : LiesAt(s, n, (n - 1) * 50, lo, r, d)
  BY <1>1, <1>s, InterpolatedIs, Zenon
<1>3. /\ (n - 1) * 50 = 100 * lo + r
      /\ Interpolated(s, (n - 1) * 50) = 100 * s[lo + 1] + d * r
      /\ lo < n - 1 => s[lo + 2] = s[lo + 1] + d
  BY <1>2, Zenon DEF LiesAt
<1>4. lo + 1 = m /\ lo + 2 = m + 1 /\ r = 50 /\ lo < n - 1 /\ m \in 1..n /\ m + 1 \in 1..n
  <2>1. (n - 1) * 50 = 100 * lo + r
    BY <1>3
  <2> QED
    BY <1>0, <1>1, <2>1
<1>5. /\ Interpolated(s, (n - 1) * 50) = 100 * s[m] + d * 50
      /\ s[m + 1] = s[m] + d
  BY <1>3, <1>4, Zenon
<1>6. s[m] \in Nat /\ s[m + 1] \in Nat
  BY <1>1, <1>4, Zenon
<1>7. 2 * (100 * s[m] + d * 50) = 100 * (s[m] + s[m + 1])
  BY <1>5, <1>6
<1> QED
  BY <1>5, <1>7, Zenon

(* The figures over sorted samples are in order, the median that of the    *)
(* middle, or of the two in the middle.                                    *)
LEMMA SummaryInOrder ==
  ASSUME samples \in Seq(Nat), Sorted(samples)
  PROVE  PercentilesInOrder
<1> SUFFICES ASSUME samples # <<>>
             PROVE  LET s == Summary(samples)
                    IN  /\ 100 * Head(samples) <= s.p50 /\ s.p50 <= s.p95 /\ s.p95 <= s.max
                        /\ s.count % 2 = 1 => s.p50 = 100 * samples[(s.count + 1) \div 2]
                        /\ s.count % 2 = 0 =>
                             2 * s.p50 = 100 * (samples[s.count \div 2]
                                                  + samples[s.count \div 2 + 1])
  BY Zenon DEF PercentilesInOrder
<1>1. PICK n \in Nat \ {0} : n = Len(samples)
  OBVIOUS
<1>2. n \in Nat /\ Sample(samples, n)
  BY <1>1 DEF Sample, Sorted
<1> DEFINE I(k) == Interpolated(samples, k)
<1>3. /\ Percentile(samples, 50) = I((n - 1) * 50)
      /\ Percentile(samples, 95) = I((n - 1) * 95)
  BY <1>1, Zenon DEF Percentile, Interpolated
<1>4. /\ Summary(samples).count = n
      /\ Summary(samples).p50 = I((n - 1) * 50)
      /\ Summary(samples).p95 = I((n - 1) * 95)
      /\ Summary(samples).max = 100 * Last(samples)
  <2>1. \A a, b, c, d : LET r == [count |-> a, p50 |-> b, p95 |-> c, max |-> d]
                        IN  r.count = a /\ r.p50 = b /\ r.p95 = c /\ r.max = d
    OBVIOUS
  <2> QED
    BY <1>1, <1>3, <2>1, Zenon DEF Summary
<1>5. I(0) = 100 * Head(samples) /\ I(100 * (n - 1)) = 100 * Last(samples)
  <2>1. 0 \in 0..(n - 1) /\ 100 * 0 = 0 /\ 0 + 1 = 1 /\ n - 1 \in 0..(n - 1) /\ (n - 1) + 1 = n
    OBVIOUS
  <2>2. Head(samples) = samples[1] /\ Last(samples) = samples[n]
    BY <1>1 DEF Last
  <2>3. I(100 * 0) = 100 * samples[0 + 1]
    BY <1>2, <2>1, InterpolatedAt, ZenonT(30)
  <2>4. I(100 * (n - 1)) = 100 * samples[(n - 1) + 1]
    BY <1>2, <2>1, InterpolatedAt, ZenonT(30)
  <2> QED
    BY <2>1, <2>2, <2>3, <2>4, Zenon
<1>6. I(0) <= I((n - 1) * 50) /\ I((n - 1) * 50) <= I((n - 1) * 95)
      /\ I((n - 1) * 95) <= I(100 * (n - 1))
  <2>1. /\ 0 \in Nat /\ (n - 1) * 50 \in Nat /\ (n - 1) * 95 \in Nat /\ 100 * (n - 1) \in Nat
        /\ 0 <= (n - 1) * 50 /\ (n - 1) * 50 <= (n - 1) * 95 /\ (n - 1) * 95 <= 100 * (n - 1)
        /\ (n - 1) * 50 <= 100 * (n - 1) /\ 100 * (n - 1) <= 100 * (n - 1)
    OBVIOUS
  <2> QED
    BY <1>2, <2>1, InterpolatedInOrder, Zenon
<1>7. ASSUME n % 2 = 1
      PROVE  I((n - 1) * 50) = 100 * samples[(n + 1) \div 2]
  <2>1. PICK m \in Nat : m = (n + 1) \div 2 - 1
    BY <1>7
  <2>2. m \in 0..(n - 1) /\ 100 * m = (n - 1) * 50 /\ m + 1 = (n + 1) \div 2
    BY <1>7, <2>1
  <2> QED
    BY <1>2, <2>2, InterpolatedAt, ZenonT(30)
<1>8. ASSUME n % 2 = 0
      PROVE  2 * I((n - 1) * 50) = 100 * (samples[n \div 2] + samples[n \div 2 + 1])
  <2>1. PICK m \in Nat : m = n \div 2
    BY <1>8
  <2>2. n = 2 * m
    BY <1>8, <2>1
  <2> QED
    <3>1. Sample(samples, 2 * m)
      BY <1>2, <2>2, Zenon
    <3>2. 2 * I((2 * m - 1) * 50) = 100 * (samples[m] + samples[m + 1])
      BY <3>1, InterpolatedBetween, Zenon
    <3> QED
      BY <2>1, <2>2, <3>2, Zenon
<1> HIDE DEF I
<1> QED
  BY <1>4, <1>5, <1>6, <1>7, <1>8

-----------------------------------------------------------------------------
(* The answers of the two models.                                          *)

(* What an answer consists of, and what classify() looks for in it.        *)
Blocks == [type : {"text", "tool_use"}, class : Classes \cup {"unusable"}]
Usable == [type : {"tool_use"}, class : Classes]

(* Text beside the calls of an answer changes no classification.           *)
LEMMA ShapesAgree ==
  ASSUME NEW a \in Answer
  PROVE  /\ Classified(ToAnthropicShape(a)) = Classified(AnthropicContent(a))
         /\ a.calls = <<>> => ToAnthropicShape(a) = AnthropicContent(a)
<1>1. a.calls \in Seq(Classes \cup {"unusable"}) /\ a.text \in BOOLEAN
  BY DEF Answer
<1>2. PICK uses \in Seq(Blocks) : uses = ToolUses(a)
  <2>1. \A i \in 1..Len(a.calls) : Block("tool_use", a.calls[i]) \in Blocks
    BY <1>1 DEF Block, Blocks
  <2>2. ToolUses(a) \in Seq(Blocks)
    BY <1>1, <2>1 DEF ToolUses
  <2> QED
    BY <2>2, Zenon
<1>3. PICK text \in Seq(Blocks) : text = TextBlock(a) /\ Kept(text, Usable) = <<>>
  <2> DEFINE b == Block("text", "unusable")
  <2>1. b \in Blocks /\ b \notin Usable
    BY DEF Block, Blocks, Usable
  <2>2. Kept(<<>>, Usable) = <<>> /\ <<>> \in Seq(Blocks)
    BY KeptEmpty
  <2>3. <<b>> \in Seq(Blocks) /\ <<b>> = Append(<<>>, b)
    BY <2>1
  <2>4. Kept(<<b>>, Usable) = <<>>
    <3>1. Kept(Append(<<>>, b), Usable) = Kept(<<>>, Usable)
      <4> HIDE DEF b
      <4> QED
        BY <2>1, <2>2, KeptAppend, Zenon
    <3> QED
      BY <2>2, <2>3, <3>1, Zenon
  <2>5. TextBlock(a) = <<b>> \/ TextBlock(a) = <<>>
    BY DEF TextBlock
  <2> QED
    BY <2>2, <2>3, <2>4, <2>5, Zenon
<1>4. AnthropicContent(a) = text \o uses
  BY <1>2, <1>3, Zenon DEF AnthropicContent
<1>5. CASE a.calls = <<>>
  <2>1. uses = <<>>
    BY <1>2, <1>5 DEF ToolUses
  <2>2. text \o uses = text
    BY <2>1
  <2>3. ToAnthropicShape(a) = text
    BY <1>3, <1>5, Zenon DEF ToAnthropicShape
  <2> QED
    BY <1>4, <2>2, <2>3, Zenon
<1>6. CASE a.calls # <<>>
  <2>1. ToAnthropicShape(a) = uses
    BY <1>2, <1>6, Zenon DEF ToAnthropicShape
  <2>2. PICK kept \in Seq(Blocks \cap Usable) : kept = Kept(uses, Usable)
    BY KeptType, Zenon
  <2>3. Kept(text \o uses, Usable) = Kept(text, Usable) \o Kept(uses, Usable)
    BY KeptConcat, Zenon
  <2>4. <<>> \o kept = kept
    OBVIOUS
  <2>5. Kept(text \o uses, Usable) = Kept(uses, Usable)
    BY <1>3, <2>2, <2>3, <2>4, Zenon
  <2>6. Classified(text \o uses) = Classified(uses)
    BY <2>5, Zenon DEF Classified, Usable
  <2> QED
    BY <1>4, <1>6, <2>1, <2>6, Zenon
<1> QED
  BY <1>5, <1>6

-----------------------------------------------------------------------------
(* stop() runs only from the callback, which is registered when the loop   *)
(* has begun; past the save there is no loop.                              *)
StoppedLoop ==
  /\ callbacks => entry \notin {"new", "room", "connect"}
  /\ stop # "none" => callbacks
  /\ stop \in {"ending", "closing", "returned"} => loop = "none"

(* What the parts of a job keep, the samples in order.                     *)
TypeInv == TypeOK /\ StoppedLoop /\ Sorted(samples)

(* What a turn sends, what a step leaves in out, in the turn, the log and  *)
(* the rest of the job.                                                    *)
LEMMA ForwardType ==
  ASSUME NEW class, NEW text \in SUBSET Words
  PROVE  Forward(class, text) \in Output
<1>1. Quiet \in Output
  BY DEF Quiet, Output
<1>2. ASSUME NEW type \in {"user_utterance", "interrupt", "session_query", "confirmation_response"},
             NEW decision \in {"none", "approve", "reject", "modify"},
             NEW words \in SUBSET Words
      PROVE  Sent(type, decision, words) \in Output
  BY <1>1 DEF Sent, Output
<1>3. Decision(text) \in {"approve", "reject", "modify"}
  BY DEF Decision
<1>4. /\ Sent("user_utterance", "none", text) \in Output
      /\ Sent("interrupt", "none", text) \in Output
      /\ Sent("session_query", "none", text) \in Output
  BY <1>2
<1>5. Sent("confirmation_response", Decision(text),
           IF Decision(text) = "modify" THEN text ELSE {}) \in Output
  <2>1. (IF Decision(text) = "modify" THEN text ELSE {}) \in SUBSET Words
    OBVIOUS
  <2> QED
    BY <1>2, <1>3, <2>1
<1>6. \/ Forward(class, text) = Sent("user_utterance", "none", text)
      \/ Forward(class, text) = Sent("interrupt", "none", text)
      \/ Forward(class, text) = Sent("session_query", "none", text)
      \/ Forward(class, text) = Quiet
      \/ Forward(class, text) = Sent("confirmation_response", Decision(text),
                                     IF Decision(text) = "modify" THEN text ELSE {})
  BY DEF Forward
<1> QED
  BY <1>1, <1>4, <1>5, <1>6

(* What a step says or sends has its type.                                 *)
LEMMA OutputType ==
  ASSUME TypeOK, [Next]_vars
  PROVE  out' \in Output
<1>1. Quiet \in Output /\ [Quiet EXCEPT !.type = "line"] \in Output
  BY DEF Quiet, Output
<1>2. ASSUME NEW a \in Answers, Classify(a)
      PROVE  out' \in Output
  <2> DEFINE class == Classified(Content(env, a))
  <2> HIDE DEF class
  <2>1. turn.text \in SUBSET Words
    BY <1>2 DEF Classify, TypeOK, NoTurn
  <2>2. \/ out' = Quiet
        \/ out' = [Quiet EXCEPT !.type = "line"]
        \/ out' = Forward(class, turn.text)
    BY <1>2 DEF Classify, EndTurn, class
  <2>3. Forward(class, turn.text) \in Output
    BY <2>1, ForwardType
  <2> QED
    BY <1>1, <2>2, <2>3
<1>3. CASE ~ \E a \in Answers : Classify(a)
  <2>1. out' \in {Quiet, [Quiet EXCEPT !.type = "line"], out}
    BY <1>3 DEF Next, Wire, RoomConnected, ControllerStarted, SessionStarted, EntryFails,
       Advance, LinkDrops, Reconnects, GivesUp, Link, AgentSpeaks, Shutdown, StopSaved,
       StopRaises, SessionEndSent, SocketClosed, Stopping, ProcessExits, Utter,
       ModelFails, EndTurn, Lookup, Measure, vars
  <2> QED
    BY <1>1, <2>1 DEF TypeOK
<1> QED
  BY <1>2, <1>3

(* The turn and the answer keep their types.                               *)
LEMMA TurnStep ==
  ASSUME TypeOK, [Next]_vars
  PROVE  /\ turn' \in [stage : Stages, text : SUBSET Words] \cup {NoTurn}
         /\ answer' \in Answer
<1>0. turn \in [stage : Stages, text : SUBSET Words] \cup {NoTurn} /\ answer \in Answer
  BY DEF TypeOK
<1>1. ASSUME NEW a \in Answers, Classify(a)
      PROVE  /\ turn' \in [stage : Stages, text : SUBSET Words] \cup {NoTurn}
             /\ answer' \in Answer
  <2> DEFINE class == Classified(Content(env, a))
  <2> HIDE DEF class
  <2>1. turn \in [stage : Stages, text : SUBSET Words]
    BY <1>0, <1>1 DEF Classify, NoTurn
  <2>2. turn' \in {NoTurn, [turn EXCEPT !.stage = "lookup"]} /\ answer' = a
    BY <1>1 DEF Classify, EndTurn, class
  <2> QED
    BY <2>1, <2>2, AnswerAssumption DEF Stages
<1>2. ASSUME NEW text \in Utterances, Utter(text)
      PROVE  /\ turn' \in [stage : Stages, text : SUBSET Words] \cup {NoTurn}
             /\ answer' \in Answer
  BY <1>0, <1>2, UtteranceAssumption DEF Utter, Stages
<1>3. CASE ~ \/ \E a \in Answers : Classify(a)
             \/ \E text \in Utterances : Utter(text)
  <2>1. turn' \in {turn, NoTurn} /\ (answer' = answer \/ answer' \in Answers)
    BY <1>3 DEF Next, Wire, RoomConnected, ControllerStarted, SessionStarted, EntryFails,
       Advance, LinkDrops, Reconnects, GivesUp, Link, AgentSpeaks, Shutdown, StopSaved,
       StopRaises, SessionEndSent, SocketClosed, Stopping, ProcessExits, ModelFails,
       EndTurn, Lookup, Measure, vars
  <2> QED
    BY <1>0, <2>1, AnswerAssumption
<1> QED
  BY <1>1, <1>2, <1>3

(* Samples stay natural numbers, bounded in number, in order.              *)
LEMMA SamplesStep ==
  ASSUME TypeInv, [Next]_vars
  PROVE  samples' \in Seq(Nat) /\ Len(samples') <= MaxSamples /\ Sorted(samples')
<1>0. samples \in Seq(Nat) /\ Len(samples) <= MaxSamples /\ Sorted(samples)
  BY DEF TypeInv, TypeOK
<1>1. ASSUME NEW value \in Samples, Measure(value)
      PROVE  samples' \in Seq(Nat) /\ Len(samples') <= MaxSamples /\ Sorted(samples')
  <2>1. samples' = Recorded(samples, value) /\ Len(samples) < MaxSamples /\ value \in Nat
    BY <1>1, SampleAssumption DEF Measure
  <2>2. /\ Recorded(samples, value) \in Seq(Nat) /\ Sorted(Recorded(samples, value))
        /\ Len(Recorded(samples, value)) = Len(samples) + 1
    BY <1>0, <2>1, RecordedIs, Zenon
  <2>3. Len(samples) + 1 <= MaxSamples
    BY <1>0, <2>1, SampleAssumption
  <2> QED
    BY <2>1, <2>2, <2>3, Zenon
<1>2. CASE ~ \E value \in Samples : Measure(value)
  <2>1. samples' = samples
    BY <1>2 DEF Next, Wire, RoomConnected, ControllerStarted, SessionStarted, EntryFails,
       Advance, LinkDrops, Reconnects, GivesUp, Link, AgentSpeaks, Shutdown, StopSaved,
       StopRaises, SessionEndSent, SocketClosed, Stopping, ProcessExits, Utter,
       ModelFails, Classify, Lookup, vars
  <2> QED
    BY <1>0, <2>1 DEF Sorted
<1> QED
  BY <1>1, <1>2

(* The job and the session keep their types, and stop() its order.         *)
LEMMA LifecycleStep ==
  ASSUME TypeOK, StoppedLoop, [Next]_vars
  PROVE  /\ env' \in Environment
         /\ entry' \in {"new", "room", "connect", "start", "live", "failed"}
         /\ job' \in {"running", "ending", "over"}
         /\ callbacks' \in BOOLEAN
         /\ stop' \in {"none", "saving", "ending", "closing", "returned", "raised"}
         /\ session' \in {"none", "open", "lost", "ended", "closed"}
         /\ resumed' \in BOOLEAN
         /\ loop' \in {"none", "listening", "dead"}
         /\ loop' = "listening" => session' \in {"open", "lost"}
         /\ tasks' \subseteq {"before", "opened"} /\ listed' \in BOOLEAN
         /\ StoppedLoop'
<1> USE DEF lifecycle, ending, connection, work, StoppedLoop
<1> DEFINE Kinds ==
      /\ env \in Environment
      /\ entry \in {"new", "room", "connect", "start", "live", "failed"}
      /\ job \in {"running", "ending", "over"}
      /\ callbacks \in BOOLEAN
      /\ stop \in {"none", "saving", "ending", "closing", "returned", "raised"}
      /\ session \in {"none", "open", "lost", "ended", "closed"}
      /\ resumed \in BOOLEAN
      /\ loop \in {"none", "listening", "dead"}
      /\ loop = "listening" => session \in {"open", "lost"}
      /\ tasks \subseteq {"before", "opened"} /\ listed \in BOOLEAN
      /\ StoppedLoop
<1>0. Kinds
  BY DEF TypeOK
<1>1. CASE Wire \/ RoomConnected \/ SessionStarted \/ EntryFails
  <2>1. /\ UNCHANGED <<env, job, callbacks, stop, session, resumed, loop, tasks, listed>>
        /\ entry' \in {"room", "connect", "live", "failed"}
        /\ entry \notin {"new", "room", "connect"} => entry' \in {"live", "failed"}
    BY <1>1 DEF Wire, RoomConnected, SessionStarted, EntryFails, Advance
  <2> QED
    BY <1>0, <2>1
<1>2. CASE ControllerStarted
  BY <1>0, <1>2 DEF ControllerStarted, Advance
<1>3. CASE LinkDrops \/ Reconnects \/ GivesUp \/ AgentSpeaks
  <2>1. /\ UNCHANGED <<env, entry, job, callbacks, stop, tasks>>
        /\ (listed' = listed \/ listed' \in BOOLEAN) /\ (resumed' = resumed \/ resumed' = TRUE)
    BY <1>3 DEF LinkDrops, Reconnects, GivesUp, Link, AgentSpeaks
  <2>2. \/ session = "open" /\ session' = "lost" /\ loop' = loop
        \/ session' = "open" /\ loop' = loop
        \/ session' = session /\ loop' = "dead" /\ loop = "listening"
    BY <1>3 DEF LinkDrops, Reconnects, GivesUp, Link, AgentSpeaks
  <2>3. listed' \in BOOLEAN /\ resumed' \in BOOLEAN
    BY <1>0, <2>1
  <2>4. /\ session' \in {"none", "open", "lost", "ended", "closed"}
        /\ loop' \in {"none", "listening", "dead"}
        /\ loop' = "listening" => session' \in {"open", "lost"}
        /\ loop = "none" => loop' = "none"
    BY <1>0, <2>2
  <2>5. StoppedLoop'
    BY <1>0, <2>1, <2>4
  <2> QED
    BY <1>0, <2>1, <2>3, <2>4, <2>5
<1>4. CASE Shutdown \/ ProcessExits
  <2>1. /\ UNCHANGED <<env, entry, callbacks, session, resumed, tasks, listed>>
        /\ job' \in {"ending", "over"} /\ loop' \in {loop, "none"}
        /\ stop' = stop \/ (callbacks /\ stop' = "saving")
    BY <1>4 DEF Shutdown, ProcessExits
  <2> QED
    BY <1>0, <2>1
<1>5. CASE StopSaved \/ StopRaises \/ SessionEndSent \/ SocketClosed
  BY <1>0, <1>5 DEF StopSaved, StopRaises, SessionEndSent, SocketClosed, Stopping
<1>6. ASSUME UNCHANGED <<env, entry, job, callbacks, stop, session, resumed, loop, listed>>,
             tasks' \subseteq {"before", "opened"}
      PROVE  Kinds'
  BY <1>0, <1>6
<1>7. ASSUME NEW a \in Answers, Classify(a)
      PROVE  Kinds'
  <2>1. /\ tasks' = tasks \cup IF out'.type = "user_utterance" THEN {"opened"} ELSE {}
        /\ UNCHANGED <<env, entry, job, callbacks, stop, session, resumed, loop, listed>>
    BY <1>7, Zenon DEF Classify
  <2>2. tasks' \subseteq {"before", "opened"}
    BY <1>0, <2>1
  <2> QED
    BY <1>6, <2>1, <2>2
<1>8. CASE \/ \E text \in Utterances : Utter(text)
           \/ ModelFails \/ \E a \in Answers : Lookup(a)
           \/ \E value \in Samples : Measure(value)
           \/ UNCHANGED vars
  <2>1. UNCHANGED <<env, entry, job, callbacks, stop, session, resumed, loop, tasks, listed>>
    BY <1>8 DEF Utter, ModelFails, Lookup, Measure, vars
  <2>2. tasks' \subseteq {"before", "opened"}
    BY <1>0, <2>1
  <2> QED
    BY <1>6, <2>1, <2>2
<1> QED
  BY <1>1, <1>2, <1>3, <1>4, <1>5, <1>7, <1>8 DEF Next

(* Types and the order of the samples hold always.                         *)
LEMMA TypeInvCorrect == Spec => []TypeInv
<1>1. Init => TypeInv
  <2> SUFFICES ASSUME Init PROVE TypeInv
    OBVIOUS
  <2>1. samples = <<>> /\ samples \in Seq(Nat) /\ Len(samples) <= MaxSamples /\ Sorted(samples)
    BY SampleAssumption DEF Init, Sorted, InOrder
  <2>2. answer \in Answer /\ out \in Output /\ turn = NoTurn
    BY DEF Init, NoAnswer, Answer, Quiet, Output
  <2> QED
    BY <2>1, <2>2 DEF Init, TypeInv, TypeOK, StoppedLoop
<1>2. TypeInv /\ [Next]_vars => TypeInv'
  <2> SUFFICES ASSUME TypeInv, [Next]_vars PROVE TypeInv'
    OBVIOUS
  <2>1. TypeOK /\ StoppedLoop
    BY DEF TypeInv
  <2> QED
    BY <2>1, OutputType, TurnStep, SamplesStep, LifecycleStep, Zenon DEF TypeInv, TypeOK
<1> QED
  BY <1>1, <1>2, PTL DEF Spec

-----------------------------------------------------------------------------
(* Settings that are accepted and leave the choice of the model to the     *)
(* service name a model whose key is there.                                *)
THEOREM ChosenModelProved == Spec => []ChosenModelWorks
<1>1. JobInv => ChosenModelWorks
  BY DEF JobInv
<1> QED
  BY <1>1, JobInvCorrect, PTL

(* What is approved was not refused in the same breath, nor the other way  *)
(* round, and any other reply reaches the agent whole.                     *)
THEOREM DecisionsAreUnmixedProved == Spec => DecisionsAreUnmixed
<1> DEFINE Unmixed ==
      out'.type = "confirmation_response" =>
        LET told == turn.text \cap {"approve", "reject"}
        IN  CASE out'.decision = "modify" -> out'.words = turn.text
              [] OTHER -> told = {out'.decision}
<1>1. ASSUME JobInv, [Next]_vars
      PROVE  [Unmixed]_vars
  <2>1. ASSUME NEW a \in Answers, Classify(a)
        PROVE  Unmixed
    <3>1. turn.text \in SUBSET Words
      BY <1>1, <2>1 DEF JobInv, TurnType, Classify, NoTurn
    <3> QED
      BY <2>1, <3>1, WhatIsSent
  <2>2. CASE ~ \E a \in Answers : Classify(a)
    BY <1>1, <2>2, OnlyTurnsDecide
  <2> QED
    BY <2>1, <2>2
<1> QED
  BY <1>1, JobInvCorrect, PTL DEF Spec, DecisionsAreUnmixed

(* Router and acks cannot tell the two models apart: the same answer       *)
(* classifies an utterance the same way, text beside a call or not.        *)
THEOREM ModelsAgreeProved == Spec => []ModelsAgree
<1>1. TypeInv => ModelsAgree
  BY ShapesAgree, Zenon DEF TypeInv, TypeOK, ModelsAgree
<1> QED
  BY <1>1, TypeInvCorrect, PTL

(* The figures of the latency log are in order and between the samples,    *)
(* however many were recorded and in whatever order they came.             *)
THEOREM PercentilesInOrderProved == Spec => []PercentilesInOrder
<1>1. TypeInv => PercentilesInOrder
  BY SummaryInOrder, Zenon DEF TypeInv, TypeOK
<1> QED
  BY <1>1, TypeInvCorrect, PTL

(* All a job keeps is what it is declared to be; the receive loop listens  *)
(* only to a session that has begun and that stop() has not ended.         *)
THEOREM VoiceAgentTypeOK == Spec => []TypeOK
<1>1. TypeInv => TypeOK
  BY DEF TypeInv
<1> QED
  BY <1>1, TypeInvCorrect, PTL
=============================================================================
