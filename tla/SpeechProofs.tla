---------------------------- MODULE SpeechProofs ----------------------------
(* What the user hears and what a pronoun means, proved for every value of *)
(* the constants: each line is said at most once, in the order of the      *)
(* agent, high lines before what was queued earlier; the tracker holds     *)
(* what was cut, and the entity stack what the agent named last.           *)
EXTENDS Speech, SequenceLemmas

Basics ==
  /\ lines \in Seq(Line)
  /\ loop \in {"none", "listening", "interrupting"}
  /\ held \in 0..Len(lines) /\ (held # 0 <=> loop = "interrupting")
  /\ said \in Seq(Nat) /\ \A i \in 1..Len(said) : said[i] \in 1..Len(lines)
  /\ ended \in 0..Len(said)
  /\ unsaid \subseteq 1..Len(lines)

(* Only a high line of the agent is held.                                  *)
HeldIsHigh == held # 0 => IsAgent(held) /\ IsHigh(held)

(* A line that is held is later than all the agent has said.               *)
HeldIsLast ==
  held # 0 => \A i \in 1..Len(said) : IsAgent(said[i]) => said[i] < held

(* While a line is held everything queued is cut, replies aside.           *)
HeldIsNext ==
  held # 0 => \A i \in Queued : said[i] \in cut \/ ~IsAgent(said[i])

(* A line is said once, given up, or held, and only one of these.          *)
OnePlace ==
  /\ \A i, j \in 1..Len(said) : said[i] = said[j] => i = j
  /\ \A i \in 1..Len(said) : said[i] \notin unsaid /\ said[i] # held
  /\ held \notin unsaid
  /\ \A n \in 1..Len(lines) :
       n \in unsaid \/ n = held \/ \E i \in 1..Len(said) : said[i] = n

SpeechInv ==
  /\ Basics /\ HeldIsHigh /\ HeldIsLast /\ HeldIsNext /\ OnePlace
  /\ AgentIsHeardInOrder /\ HighLinesPreempt

-----------------------------------------------------------------------------
(* Every step is one of five.                                              *)

(* A low line is handed over, and said or given up at once.                *)
LowLine(l) ==
  /\ lines' = Append(lines, l) /\ l \in Line /\ l.kind = "low"
  /\ l.by = "agent" => loop = "listening"
  /\ \/ ~ speaking /\ Say(Len(lines) + 1)
     \/ speaking /\ unsaid' = unsaid \cup {Len(lines) + 1} /\ UNCHANGED <<said, ended>>
  /\ UNCHANGED <<loop, held, cut>>

(* A high line is handed over.                                             *)
HighLine(l) ==
  /\ lines' = Append(lines, l) /\ l \in Line /\ l.by = "agent" /\ l.kind # "low"
  /\ loop = "listening"
  /\ SpeakHigh(Len(lines) + 1)

(* Nothing is handed over or said, what was said is played and cut.        *)
Plays ==
  /\ UNCHANGED <<lines, held, said, unsaid>>
  /\ loop' \in {"none", "listening", "interrupting"}
  /\ loop' = "interrupting" <=> loop = "interrupting"
  /\ ended' \in ended..Len(said) /\ cut \subseteq cut'

(* The five steps are all that the specification takes.                    *)
LEMMA Steps ==
  ASSUME Basics, [Next]_vars
  PROVE  \/ \E l \in Line : LowLine(l) \/ HighLine(l)
         \/ InterruptReturns \/ Stop \/ Plays
<1>0. ended \in Nat /\ Len(said) \in Nat /\ ended <= Len(said)
  BY DEF Basics
<1>1. ASSUME NEW kind \in {"low", "high", "error"}, NEW text \in Texts,
             Receive(kind, text)
      PROVE  \E l \in Line : LowLine(l) \/ HighLine(l)
  <2> DEFINE l == [by |-> "agent", kind |-> kind, text |-> text]
  <2>1. l \in Line /\ l.by = "agent" /\ l.kind = kind
    BY DEF Line
  <2>2. lines' = Append(lines, l) /\ loop = "listening"
    BY <1>1 DEF Receive, CanReceive, Hand
  <2>3. CASE kind = "low"
    <3>1. LowLine(l)
      BY <1>1, <2>1, <2>2, <2>3 DEF Receive, SpeakLow, Drop, Say, playback, LowLine
    <3> QED
      BY <2>1, <3>1
  <2>4. CASE kind # "low"
    <3>1. HighLine(l)
      BY <1>1, <2>1, <2>2, <2>4 DEF Receive, HighLine
    <3> QED
      BY <2>1, <3>1
  <2> QED
    BY <2>3, <2>4
<1>2. ASSUME Reply
      PROVE  \E l \in Line : LowLine(l)
  <2> DEFINE l == [by |-> "reply", kind |-> "low", text |-> <<>>]
  <2>1. l \in Line /\ l.by # "agent" /\ l.kind = "low"
    BY DEF Line
  <2>2. LowLine(l)
    BY <1>2, <2>1 DEF Reply, Hand, SpeakLow, Drop, Say, playback, LowLine
  <2> QED
    BY <2>1, <2>2
<1>3. ASSUME LineEnds \/ BargeIn \/ UserStateChanges \/ Resume \/ UNCHANGED vars
      PROVE  Plays
  <2>1. LineEnds => ended' \in ended..Len(said)
    BY <1>0 DEF LineEnds, Queued
  <2>2. ~ LineEnds => ended' = ended
    BY <1>3 DEF BargeIn, UserStateChanges, Resume, vars, playback
  <2> QED
    BY <1>0, <1>3, <2>1, <2>2
       DEF Basics, LineEnds, BargeIn, UserStateChanges, Resume, Plays, vars, playback
<1> QED
  BY <1>1, <1>2, <1>3 DEF Next

(* Lines that were handed over stay as they were.                          *)
LEMMA LineAdded ==
  ASSUME Basics, NEW l \in Line, lines' = Append(lines, l)
  PROVE  /\ lines' \in Seq(Line) /\ Len(lines) \in Nat /\ Len(lines') = Len(lines) + 1
         /\ lines'[Len(lines) + 1] = l
         /\ \A n \in 1..Len(lines) :
              n \in 1..Len(lines') /\ n < Len(lines) + 1 /\ lines'[n] = lines[n]
BY DEF Basics

(* A line that is said comes after those said before.                      *)
LEMMA LineSaid ==
  ASSUME Basics, NEW n \in Nat, said' = Append(said, n)
  PROVE  /\ said' \in Seq(Nat) /\ Len(said) \in Nat /\ Len(said') = Len(said) + 1
         /\ said'[Len(said) + 1] = n
         /\ \A i \in 1..Len(said) : said'[i] = said[i] /\ i \in 1..Len(said')
         /\ \A i \in 1..Len(said') : i \in 1..Len(said) \/ i = Len(said) + 1
BY DEF Basics

(* A low line behind what is queued disturbs nothing.                      *)
LEMMA LowLineStep ==
  ASSUME SpeechInv, NEW l \in Line, LowLine(l)
  PROVE  SpeechInv'
<1> USE DEF IsAgent, IsHigh
<1>0. /\ Basics /\ HeldIsHigh /\ HeldIsLast /\ HeldIsNext /\ OnePlace
      /\ AgentIsHeardInOrder /\ HighLinesPreempt
      /\ Len(lines) \in Nat /\ Len(said) \in Nat /\ ended \in 0..Len(said)
      /\ \A i \in 1..Len(said) : said[i] \in 1..Len(lines)
      /\ held \in 0..Len(lines)
  BY DEF SpeechInv, Basics
<1>1. PICK n \in Nat : n = Len(lines) + 1
  BY <1>0
<1>2. /\ lines' \in Seq(Line) /\ Len(lines') = n /\ lines'[n] = l
      /\ \A m \in 1..Len(lines) : m \in 1..Len(lines') /\ m < n /\ lines'[m] = lines[m]
  BY <1>0, <1>1, LineAdded DEF LowLine
<1>3. /\ l.kind = "low" /\ (l.by = "agent" => held = 0)
      /\ UNCHANGED <<loop, held, cut>>
  BY <1>0 DEF LowLine, Basics
<1>4. held # 0 => held \in 1..Len(lines)
  BY <1>0
<1>5. HeldIsHigh'
  BY <1>0, <1>2, <1>3, <1>4 DEF HeldIsHigh
<1>6. CASE said' = Append(said, n) /\ UNCHANGED <<ended, unsaid>>
  <2>1. PICK k \in Nat : k = Len(said) + 1
    BY <1>0
  <2>2. /\ said' \in Seq(Nat) /\ Len(said') = k /\ said'[k] = n
        /\ \A i \in 1..Len(said) : said'[i] = said[i] /\ i \in 1..Len(said') /\ i < k
        /\ \A i \in 1..Len(said') : i \in 1..Len(said) \/ i = k
    BY <1>0, <1>6, <2>1, LineSaid
  <2>3. Basics'
    BY <1>0, <1>1, <1>2, <1>3, <1>6, <2>1, <2>2 DEF Basics
  <2>4. HeldIsLast'
    BY <1>0, <1>2, <1>3, <1>4, <2>2 DEF HeldIsLast
  <2>5. HeldIsNext'
    BY <1>0, <1>2, <1>3, <1>6, <2>2 DEF HeldIsNext, Queued
  <2>6. HighLinesPreempt'
    <3> SUFFICES ASSUME NEW i \in Queued', NEW j \in Queued', i < j,
                        lines'[said'[j]].kind # "low"
                 PROVE  said'[i] \in cut' \/ lines'[said'[i]].by # "agent"
      BY DEF HighLinesPreempt
    <3>1. j # k
      BY <1>2, <1>3, <2>2
    <3>2. j \in Queued /\ i \in Queued /\ said'[i] = said[i] /\ said'[j] = said[j]
      BY SMTT(30), <1>0, <1>6, <2>1, <2>2, <3>1 DEF Queued
    <3>3. said[i] \in 1..Len(lines) /\ said[j] \in 1..Len(lines)
      BY <1>0, <3>2 DEF Queued
    <3> QED
      BY <1>0, <1>2, <1>3, <3>2, <3>3 DEF HighLinesPreempt
  <2>7. OnePlace'
    <3>1. n \notin unsaid /\ n # held /\ \A i \in 1..Len(said) : said[i] # n
      BY <1>0, <1>1 DEF Basics
    <3>2. k \in 1..Len(said') /\ \A m \in 1..Len(lines') : m \in 1..Len(lines) \/ m = n
      BY <1>0, <1>1, <1>2, <2>1, <2>2
    <3>3. \A m \in 1..Len(lines') :
            m \in unsaid' \/ m = held' \/ \E i \in 1..Len(said') : said'[i] = m
      BY <1>0, <1>3, <1>6, <2>2, <3>2 DEF OnePlace
    <3>4. ASSUME NEW i \in 1..Len(said'), NEW j \in 1..Len(said'), said'[i] = said'[j]
          PROVE  i = j
      <4>1. CASE i \in 1..Len(said) /\ j \in 1..Len(said)
        BY <1>0, <2>2, <3>4, <4>1 DEF OnePlace
      <4>2. CASE i = k \/ j = k
        <5>1. \A m \in 1..Len(said') : said'[m] = n => m = k
          BY <2>2, <3>1
        <5> QED
          BY <2>2, <3>4, <4>2, <5>1
      <4> QED
        BY <2>2, <4>1, <4>2
    <3> QED
      BY <1>0, <1>3, <1>6, <2>2, <3>1, <3>3, <3>4 DEF OnePlace
  <2>8. AgentIsHeardInOrder'
    <3> SUFFICES ASSUME NEW i \in 1..Len(said'), NEW j \in 1..Len(said'), i < j,
                        lines'[said'[i]].by = "agent", lines'[said'[j]].by = "agent"
                 PROVE  said'[i] < said'[j]
      BY DEF AgentIsHeardInOrder
    <3>1. i \in 1..Len(said) /\ said'[i] = said[i]
      BY <2>1, <2>2
    <3>2. CASE j = k
      BY <1>0, <1>2, <2>2, <3>1, <3>2
    <3>3. CASE j # k
      <4>1. j \in 1..Len(said) /\ said'[j] = said[j]
        BY <2>2, <3>3
      <4>2. lines'[said[i]] = lines[said[i]] /\ lines'[said[j]] = lines[said[j]]
        BY <1>0, <1>2, <3>1, <4>1
      <4> QED
        BY <1>0, <3>1, <4>1, <4>2 DEF AgentIsHeardInOrder
    <3> QED
      BY <3>2, <3>3
  <2> QED
    BY <1>5, <2>3, <2>4, <2>5, <2>6, <2>7, <2>8 DEF SpeechInv
<1>7. CASE unsaid' = unsaid \cup {n} /\ UNCHANGED <<said, ended>>
  <2>1. Basics'
    <3>1. 1..Len(lines) \subseteq 1..Len(lines') /\ n \in 1..Len(lines')
      BY <1>2, <1>1
    <3> QED
      <4>1. held' \in 0..Len(lines') /\ unsaid' \subseteq 1..Len(lines')
        <5>1. held' = held /\ Len(lines') = Len(lines) + 1
          BY <1>1, <1>2, <1>3
        <5>2. held' \in 0..Len(lines')
          BY <1>0, <5>1
        <5>3. unsaid \subseteq 1..Len(lines)
          BY <1>0 DEF Basics
        <5> QED
          BY <1>7, <3>1, <5>2, <5>3
      <4>2. \A i \in 1..Len(said') : said'[i] \in 1..Len(lines')
        BY <1>0, <1>7, <3>1
      <4>3. /\ loop' = loop /\ held' = held /\ said' = said /\ ended' = ended
        BY <1>3, <1>7
      <4> QED
        BY <1>0, <1>2, <4>1, <4>2, <4>3 DEF Basics
  <2>a. /\ said' = said /\ Queued' = Queued
        /\ \A i \in 1..Len(said) : lines'[said[i]] = lines[said[i]]
    BY <1>0, <1>2, <1>7 DEF Queued
  <2>b. Queued \subseteq 1..Len(said)
    BY <1>0 DEF Queued
  <2>2. HeldIsLast' /\ HeldIsNext'
    <3>1. HeldIsLast'
      BY <1>0, <1>3, <2>a DEF HeldIsLast
    <3>2. HeldIsNext'
      BY <1>0, <1>3, <2>a, <2>b DEF HeldIsNext
    <3> QED
      BY <3>1, <3>2
  <2>3. OnePlace'
    <3>1. n \notin 1..Len(lines) /\ n # held
      BY <1>0, <1>1
    <3>2. held' \notin unsaid' /\ \A i \in 1..Len(said) : said[i] \notin unsaid'
      BY <1>0, <1>3, <1>7, <3>1 DEF OnePlace
    <3>3. \A m \in 1..Len(lines') : m \in 1..Len(lines) \/ m = n
      BY <1>0, <1>1, <1>2
    <3>4. \A m \in 1..Len(lines') :
            m \in unsaid' \/ m = held' \/ \E i \in 1..Len(said) : said[i] = m
      BY <1>0, <1>3, <1>7, <3>3 DEF OnePlace
    <3> QED
      BY <1>0, <1>3, <2>a, <3>2, <3>4 DEF OnePlace
  <2>4. AgentIsHeardInOrder'
    BY <1>0, <2>a DEF AgentIsHeardInOrder
  <2>5. HighLinesPreempt'
    BY <1>0, <1>3, <2>a, <2>b DEF HighLinesPreempt
  <2> QED
    BY <1>5, <2>1, <2>2, <2>3, <2>4, <2>5 DEF SpeechInv
<1> QED
  BY <1>1, <1>6, <1>7 DEF LowLine, Say

(* A high line cuts everything that is queued.                             *)
LEMMA HighLineStep ==
  ASSUME SpeechInv, NEW l \in Line, HighLine(l)
  PROVE  SpeechInv'
<1> USE DEF IsAgent, IsHigh
<1>0. /\ Basics /\ OnePlace /\ AgentIsHeardInOrder /\ HighLinesPreempt
      /\ Len(lines) \in Nat /\ Len(said) \in Nat /\ ended \in 0..Len(said)
      /\ \A i \in 1..Len(said) : said[i] \in 1..Len(lines)
      /\ held = 0
  BY DEF SpeechInv, Basics, HighLine
<1>1. PICK n \in Nat : n = Len(lines) + 1
  BY <1>0
<1>2. /\ lines' \in Seq(Line) /\ Len(lines') = n /\ lines'[n] = l
      /\ \A m \in 1..Len(lines) : m \in 1..Len(lines') /\ m < n /\ lines'[m] = lines[m]
  BY <1>0, <1>1, LineAdded DEF HighLine
<1>3. /\ l.kind # "low" /\ l.by = "agent"
      /\ held' = n /\ loop' = "interrupting"
      /\ cut' = cut \cup {said[i] : i \in Queued}
      /\ UNCHANGED <<said, ended, unsaid>>
  BY <1>1 DEF HighLine, SpeakHigh, Interrupt
<1>4. Basics'
  BY <1>0, <1>1, <1>2, <1>3 DEF Basics
<1>5. HeldIsHigh' /\ HeldIsLast'
  BY <1>0, <1>2, <1>3 DEF HeldIsHigh, HeldIsLast
<1>6. HeldIsNext'
  BY <1>3 DEF HeldIsNext, Queued
<1>7. OnePlace'
  <2>1. n \notin unsaid /\ \A i \in 1..Len(said) : said[i] # n
    BY <1>0, <1>1 DEF Basics
  <2>2. ASSUME NEW m \in 1..Len(lines'), m # n
        PROVE  m \in 1..Len(lines) /\ m # 0
    BY <1>0, <1>1, <1>2, <2>2
  <2> QED
    BY <1>0, <1>3, <2>1, <2>2 DEF OnePlace
<1>8. AgentIsHeardInOrder' /\ HighLinesPreempt'
  <2>1. \A i \in 1..Len(said) : lines'[said[i]] = lines[said[i]]
    BY <1>0, <1>2
  <2>2. Queued' = Queued /\ Queued \subseteq 1..Len(said) /\ cut \subseteq cut'
    BY <1>0, <1>3 DEF Queued
  <2>3. AgentIsHeardInOrder'
    BY <1>0, <1>3, <2>1 DEF AgentIsHeardInOrder
  <2>4. HighLinesPreempt'
    BY <1>0, <1>3, <2>1, <2>2 DEF HighLinesPreempt
  <2> QED
    BY <2>3, <2>4
<1> QED
  BY <1>4, <1>5, <1>6, <1>7, <1>8 DEF SpeechInv

(* The held line is the agent's latest, behind what was cut.               *)
LEMMA ReturnStep ==
  ASSUME SpeechInv, InterruptReturns
  PROVE  SpeechInv'
<1> USE DEF IsAgent, IsHigh
<1>0. /\ Basics /\ HeldIsHigh /\ HeldIsLast /\ HeldIsNext /\ OnePlace
      /\ AgentIsHeardInOrder /\ HighLinesPreempt
      /\ Len(said) \in Nat /\ ended \in 0..Len(said)
      /\ held \in 1..Len(lines) /\ held \in Nat /\ held # 0
  BY DEF SpeechInv, Basics, InterruptReturns
<1>1. PICK k \in Nat : k = Len(said) + 1
  BY <1>0
<1>2. PICK h \in Nat : h = held
  BY <1>0
<1>3. /\ said' = Append(said, h) /\ held' = 0 /\ loop' = "listening"
      /\ UNCHANGED <<lines, ended, unsaid, cut>>
  BY <1>2 DEF InterruptReturns, Say
<1>4. /\ said' \in Seq(Nat) /\ Len(said') = k /\ said'[k] = h
      /\ \A i \in 1..Len(said) : said'[i] = said[i] /\ i \in 1..Len(said') /\ i < k
      /\ \A i \in 1..Len(said') : i \in 1..Len(said) \/ i = k
  BY <1>0, <1>1, <1>3, LineSaid
<1>5. Basics'
  BY <1>0, <1>1, <1>2, <1>3, <1>4 DEF Basics
<1>6. HeldIsHigh' /\ HeldIsLast' /\ HeldIsNext'
  BY <1>3 DEF HeldIsHigh, HeldIsLast, HeldIsNext
<1>7. OnePlace'
  <2>1. h \notin unsaid /\ \A i \in 1..Len(said) : said[i] # h /\ said[i] # 0
    BY <1>0, <1>2 DEF OnePlace, Basics
  <2>2. ASSUME NEW i \in 1..Len(said'), NEW j \in 1..Len(said'), said'[i] = said'[j]
        PROVE  i = j
    <3>1. CASE i \in 1..Len(said) /\ j \in 1..Len(said)
      BY <1>0, <1>4, <2>2, <3>1 DEF OnePlace
    <3>2. CASE i = k \/ j = k
      <4>1. \A m \in 1..Len(said') : said'[m] = h => m = k
        BY <1>4, <2>1
      <4> QED
        BY <1>4, <2>2, <3>2, <4>1
    <3> QED
      BY <1>4, <3>1, <3>2
  <2>3. k \in 1..Len(said') /\ 0 \notin unsaid /\ h # 0
    BY <1>0, <1>1, <1>2, <1>4 DEF Basics
  <2>4. \A i \in 1..Len(said') : said'[i] \notin unsaid /\ said'[i] # 0
    BY <1>0, <1>4, <2>1, <2>3 DEF OnePlace
  <2>5. \A m \in 1..Len(lines) :
          m \in unsaid \/ \E i \in 1..Len(said') : said'[i] = m
    BY <1>0, <1>2, <1>4, <2>3 DEF OnePlace
  <2> QED
    BY <1>3, <2>2, <2>3, <2>4, <2>5 DEF OnePlace
<1>8. AgentIsHeardInOrder'
  <2> SUFFICES ASSUME NEW i \in 1..Len(said'), NEW j \in 1..Len(said'), i < j,
                      lines[said'[i]].by = "agent", lines[said'[j]].by = "agent"
               PROVE  said'[i] < said'[j]
    BY <1>3 DEF AgentIsHeardInOrder
  <2>1. i \in 1..Len(said) /\ said'[i] = said[i]
    BY <1>1, <1>4
  <2>2. CASE j = k
    BY <1>0, <1>2, <1>4, <2>1, <2>2 DEF HeldIsLast
  <2>3. CASE j # k
    BY <1>0, <1>4, <2>1, <2>3 DEF AgentIsHeardInOrder
  <2> QED
    BY <2>2, <2>3
<1>9. HighLinesPreempt'
  <2> SUFFICES ASSUME NEW i \in Queued', NEW j \in Queued', i < j,
                      lines[said'[j]].kind # "low"
               PROVE  said'[i] \in cut \/ lines[said'[i]].by # "agent"
    BY <1>3 DEF HighLinesPreempt
  <2>1. /\ i \in Queued /\ said'[i] = said[i]
        /\ j = k \/ (j \in Queued /\ said'[j] = said[j])
    BY <1>0, <1>1, <1>3, <1>4 DEF Queued
  <2> QED
    BY <1>0, <2>1 DEF HighLinesPreempt, HeldIsNext
<1> QED
  BY <1>5, <1>6, <1>7, <1>8, <1>9 DEF SpeechInv

(* Every step keeps the order of speech.                                   *)
LEMMA SpeechInvStep ==
  ASSUME SpeechInv, [Next]_vars
  PROVE  SpeechInv'
<1> USE DEF IsAgent, IsHigh
<1>0. /\ Basics /\ HeldIsHigh /\ HeldIsLast /\ HeldIsNext /\ OnePlace
      /\ AgentIsHeardInOrder /\ HighLinesPreempt
      /\ Len(lines) \in Nat /\ Len(said) \in Nat /\ ended \in 0..Len(said)
  BY DEF SpeechInv, Basics
<1>1. CASE Stop
  <2>1. /\ held' = 0 /\ loop' = "none" /\ unsaid' = unsaid \cup ({held} \ {0})
        /\ UNCHANGED <<lines, said, ended, cut>>
    BY <1>1 DEF Stop, playback
  <2>2. Basics'
    BY <1>0, <2>1 DEF Basics
  <2>3. HeldIsHigh' /\ HeldIsLast' /\ HeldIsNext'
    BY <2>1 DEF HeldIsHigh, HeldIsLast, HeldIsNext
  <2>4. OnePlace'
    BY <1>0, <2>1 DEF OnePlace, Basics
  <2>5. AgentIsHeardInOrder' /\ HighLinesPreempt'
    BY <1>0, <2>1 DEF AgentIsHeardInOrder, HighLinesPreempt, Queued
  <2> QED
    BY <2>2, <2>3, <2>4, <2>5 DEF SpeechInv
<1>2. CASE Plays
  <2>1. Basics'
    BY <1>0, <1>2 DEF Plays, Basics
  <2>2. HeldIsHigh' /\ HeldIsLast' /\ OnePlace' /\ AgentIsHeardInOrder'
    BY <1>0, <1>2 DEF Plays, HeldIsHigh, HeldIsLast, OnePlace, AgentIsHeardInOrder
  <2>3. Queued' \subseteq Queued
    BY <1>0, <1>2 DEF Plays, Queued
  <2>4. HeldIsNext' /\ HighLinesPreempt'
    BY <1>0, <1>2, <2>3 DEF Plays, HeldIsNext, HighLinesPreempt
  <2> QED
    BY <2>1, <2>2, <2>4 DEF SpeechInv
<1> QED
  BY <1>0, <1>1, <1>2, Steps, LowLineStep, HighLineStep, ReturnStep

(* The order of speech at the beginning,                                   *)
LEMMA SpeechInvInit == Init => SpeechInv
BY DEF Init, SpeechInv, Basics, HeldIsHigh, HeldIsLast, HeldIsNext, OnePlace,
       AgentIsHeardInOrder, HighLinesPreempt, Queued

(* ... and always.                                                         *)
LEMMA SpeechInvCorrect == Spec => []SpeechInv
BY SpeechInvInit, SpeechInvStep, PTL DEF Spec

-----------------------------------------------------------------------------
(* What was cut, and what became of it.                                    *)

(* The lines that have ended, in the order in which they were said.        *)
Over == SubSeq(said, 1, ended)

(* The tracker holds what was cut among what has ended.                    *)
PlayInv ==
  /\ awaited \in 0..Len(said) /\ cut \subseteq 1..Len(lines) /\ speaking \in BOOLEAN
  /\ undelivered = Kept(Over, cut)

(* What is cut later does not change what became of a line that has ended. *)
LEMMA CutLater ==
  ASSUME Basics, OnePlace, NEW c,
         cut \subseteq c, c \subseteq cut \cup {said[i] : i \in Queued}
  PROVE  Kept(Over, c) = Kept(Over, cut)
<1>0. Len(said) \in Nat /\ ended \in 0..Len(said) /\ said \in Seq(Nat)
  BY DEF Basics
<1>1. /\ Over \in Seq(Nat) /\ Len(Over) = ended
      /\ \A i \in 1..ended : Over[i] = said[i]
  BY <1>0 DEF Over
<1>2. ASSUME NEW i \in 1..Len(Over)
      PROVE  Over[i] \in c <=> Over[i] \in cut
  <2>1. \A j \in Queued : said[i] # said[j]
    BY <1>0, <1>1 DEF OnePlace, Queued
  <2> QED
    BY <1>1, <2>1
<1>3. \A s \in Seq(Nat) :
        (\A i \in 1..Len(s) : s[i] \in c <=> s[i] \in cut) => Kept(s, c) = Kept(s, cut)
  BY KeptSame
<1> QED
  BY <1>1, <1>2, <1>3, Zenon

(* A line that is said behind those that have ended.                       *)
LEMMA SaidLater ==
  ASSUME Basics, NEW n \in Nat, said' = Append(said, n), ended' = ended
  PROVE  Over' = Over
BY DEF Basics, Over

(* The first line of the queue ends: one more is over.                     *)
LEMMA OneMoreEnds ==
  ASSUME Basics, Queued # {}, said' = said, ended' = ended + 1
  PROVE  /\ ended + 1 \in 1..Len(said)
         /\ Over \in Seq(Nat) /\ said[ended + 1] \in Nat
         /\ Over' = Append(Over, said[ended + 1])
<1>1. ended + 1 \in 1..Len(said) /\ ended \in Nat /\ said \in Seq(Nat)
  BY DEF Basics, Queued
<1>2. Over \in Seq(Nat) /\ said[ended + 1] \in Nat
  BY <1>1 DEF Over
<1>3. SubSeq(said, 1, ended + 1) = Append(SubSeq(said, 1, ended), said[ended + 1])
  BY <1>1
<1> QED
  BY <1>1, <1>2, <1>3, Zenon DEF Over

(* Every step keeps the tracker at what was cut.                           *)
LEMMA PlayInvStep ==
  ASSUME SpeechInv, PlayInv, [Next]_vars
  PROVE  PlayInv'
<1>0. /\ Basics /\ OnePlace
      /\ awaited \in 0..Len(said) /\ cut \subseteq 1..Len(lines) /\ speaking \in BOOLEAN
      /\ undelivered = Kept(Over, cut)
      /\ Len(lines) \in Nat /\ Len(said) \in Nat /\ ended \in 0..Len(said)
      /\ \A i \in 1..Len(said) : said[i] \in 1..Len(lines)
  BY DEF SpeechInv, Basics, PlayInv
(* Nothing ends: what has ended is what had, and no more of it is cut.     *)
<1>1. ASSUME UNCHANGED <<ended, undelivered>>,
             said' = said \/ \E n \in Nat : said' = Append(said, n),
             cut \subseteq cut', cut' \subseteq cut \cup {said[i] : i \in Queued}
      PROVE  undelivered' = Kept(Over', cut')
  <2>1. Over' = Over
    <3>1. CASE said' = said
      BY <1>1, <3>1 DEF Over
    <3>2. CASE \E n \in Nat : said' = Append(said, n)
      BY <1>0, <1>1, <3>2, SaidLater
    <3> QED
      BY <1>1, <3>1, <3>2
  <2>2. Kept(Over, cut') = Kept(Over, cut)
    BY <1>0, <1>1, CutLater, Zenon
  <2> QED
    BY <1>0, <1>1, <2>1, <2>2, Zenon
<1>2. ASSUME NEW l \in Line, lines' = Append(lines, l)
      PROVE  Len(lines') = Len(lines) + 1
  BY <1>0, <1>2, LineAdded
<1>3. ASSUME NEW l \in Line, LowLine(l), UNCHANGED <<awaited, speaking>>,
             undelivered' = undelivered
      PROVE  PlayInv'
  <2>1. /\ cut' = cut /\ ended' = ended /\ Len(lines') = Len(lines) + 1
        /\ said' = said \/ said' = Append(said, Len(lines) + 1)
    BY <1>2, <1>3 DEF LowLine, Say
  <2>2. undelivered' = Kept(Over', cut')
    BY <1>0, <1>1, <1>3, <2>1
  <2>3. Len(said') >= Len(said) /\ Len(said') \in Nat
    BY <1>0, <2>1 DEF Basics
  <2> QED
    BY <1>0, <1>3, <2>1, <2>2, <2>3 DEF PlayInv
<1>4. ASSUME NEW l \in Line, HighLine(l), speaking' = speaking
      PROVE  PlayInv'
  <2>1. /\ UNCHANGED <<ended, undelivered, said>>
        /\ cut' = cut \cup {said[i] : i \in Queued}
        /\ Len(lines') = Len(lines) + 1
        /\ awaited' = IF Queued = {} THEN ended ELSE ended + 1
    BY <1>2, <1>4 DEF HighLine, SpeakHigh, Interrupt
  <2>2. undelivered' = Kept(Over', cut')
    BY <1>1, <2>1
  <2>3. awaited' \in 0..Len(said')
    BY <1>0, <2>1 DEF Queued
  <2>4. cut' \subseteq 1..Len(lines')
    <3>1. Queued \subseteq 1..Len(said) /\ 1..Len(lines) \subseteq 1..Len(lines')
      BY <1>0, <2>1 DEF Queued
    <3> QED
      BY <1>0, <2>1, <3>1
  <2> QED
    BY <1>0, <1>4, <2>2, <2>3, <2>4 DEF PlayInv
<1>5. ASSUME NEW kind \in {"low", "high", "error"}, NEW text \in Texts,
             Receive(kind, text)
      PROVE  PlayInv'
  <2> DEFINE l == [by |-> "agent", kind |-> kind, text |-> text]
  <2>1. l \in Line /\ l.by = "agent" /\ l.kind = kind
    BY DEF Line
  <2>2. lines' = Append(lines, l) /\ loop = "listening" /\ speaking' = speaking
    BY <1>5 DEF Receive, CanReceive, Hand
  <2>3. CASE kind = "low"
    <3>1. LowLine(l) /\ UNCHANGED <<awaited, undelivered>>
      BY <1>5, <2>1, <2>2, <2>3 DEF Receive, SpeakLow, Drop, Say, playback, LowLine
    <3> QED
      BY <1>3, <2>1, <2>2, <3>1
  <2>4. CASE kind # "low"
    <3>1. HighLine(l)
      BY <1>5, <2>1, <2>2, <2>4 DEF Receive, HighLine
    <3> QED
      BY <1>4, <2>1, <2>2, <3>1
  <2> QED
    BY <2>3, <2>4
<1>6. CASE Reply
  <2> DEFINE l == [by |-> "reply", kind |-> "low", text |-> <<>>]
  <2>1. l \in Line /\ l.by # "agent" /\ l.kind = "low"
    BY DEF Line
  <2>2. LowLine(l) /\ UNCHANGED <<awaited, speaking, undelivered>>
    BY <1>6, <2>1 DEF Reply, Hand, SpeakLow, Drop, Say, playback, LowLine
  <2> QED
    BY <1>3, <2>1, <2>2
<1>7. CASE InterruptReturns
  <2>1. /\ UNCHANGED <<lines, awaited, speaking, ended, undelivered, cut>>
        /\ said' = Append(said, held) /\ held \in Nat
    BY <1>0, <1>7 DEF InterruptReturns, Say, Basics
  <2>2. undelivered' = Kept(Over', cut')
    BY <1>1, <2>1
  <2>3. Len(said') = Len(said) + 1
    BY <1>0, <2>1, LineSaid
  <2> QED
    BY <1>0, <2>1, <2>2, <2>3 DEF PlayInv
<1>8. CASE LineEnds
  <2>1. /\ UNCHANGED <<lines, awaited, said, cut, speaking>> /\ Queued # {}
        /\ ended' = ended + 1 /\ undelivered' = Tracked(said[ended + 1])
    BY <1>8 DEF LineEnds
  <2>2. PICK n \in Nat : n = said[ended + 1]
    BY <1>0, <2>1, OneMoreEnds
  <2>3. Over \in Seq(Nat) /\ Over' = Append(Over, n)
    BY <1>0, <2>1, <2>2, OneMoreEnds, Zenon
  <2>4. /\ n \in cut => Kept(Append(Over, n), cut) = Append(Kept(Over, cut), n)
        /\ n \notin cut => Kept(Append(Over, n), cut) = Kept(Over, cut)
    BY <2>3, KeptAppend, Zenon
  <2>5. Tracked(n) = Kept(Append(Over, n), cut)
    <3>1. CASE n \in cut
      <4>1. Tracked(n) = Append(undelivered, n)
        BY <3>1 DEF Tracked
      <4> QED
        BY <1>0, <2>4, <3>1, <4>1, Zenon
    <3>2. CASE n \notin cut
      <4>1. Tracked(n) = undelivered
        BY <3>2 DEF Tracked
      <4> QED
        BY <1>0, <2>4, <3>2, <4>1, Zenon
    <3> QED
      BY <3>1, <3>2
  <2>6. undelivered' = Kept(Over', cut')
    BY <2>1, <2>2, <2>3, <2>5, Zenon
  <2> QED
    BY <1>0, <2>1, <2>6 DEF PlayInv
<1>9. CASE BargeIn
  <2>1. /\ UNCHANGED <<lines, awaited, said, ended, undelivered, speaking>>
        /\ Queued # {} /\ cut' = cut \cup {said[ended + 1]}
    BY <1>9 DEF BargeIn
  <2>2. ended + 1 \in Queued /\ ended + 1 \in 1..Len(said)
    BY <1>0, <2>1 DEF Queued
  <2>3. undelivered' = Kept(Over', cut')
    BY <1>1, <2>1, <2>2
  <2>4. cut' \subseteq 1..Len(lines')
    BY <1>0, <2>1, <2>2
  <2> QED
    BY <1>0, <2>1, <2>3, <2>4 DEF PlayInv
<1>10. CASE UserStateChanges \/ Stop \/ Resume \/ UNCHANGED vars
  <2>1. /\ UNCHANGED <<lines, awaited, said, ended, cut, undelivered>>
        /\ speaking' \in BOOLEAN
    BY <1>0, <1>10 DEF UserStateChanges, Stop, Resume, vars, playback
  <2>2. undelivered' = Kept(Over', cut')
    BY <1>1, <2>1
  <2> QED
    BY <1>0, <2>1, <2>2 DEF PlayInv
<1> QED
  BY <1>5, <1>6, <1>7, <1>8, <1>9, <1>10 DEF Next

(* The tracker at the beginning,                                           *)
LEMMA PlayInvInit == Init => PlayInv
<1> SUFFICES ASSUME Init PROVE PlayInv
  OBVIOUS
<1>1. /\ said = <<>> /\ ended = 0 /\ cut = {} /\ undelivered = <<>> /\ awaited = 0
      /\ speaking \in BOOLEAN
  BY DEF Init
<1>2. Kept(<<>>, cut) = <<>>
  BY KeptEmpty, Zenon
<1>3. Over = <<>>
  BY <1>1 DEF Over
<1> QED
  BY <1>1, <1>2, <1>3 DEF PlayInv

(* ... and always.                                                         *)
LEMMA PlayInvCorrect == Spec => []PlayInv
BY PlayInvInit, PlayInvStep, SpeechInvCorrect, PTL DEF Spec

-----------------------------------------------------------------------------
(* The entity stack.                                                       *)

(* The last n elements are all but the first d.                            *)
LEMMA LastOfIs ==
  ASSUME NEW T, NEW s \in Seq(T), NEW n \in Nat \ {0}
  PROVE  \E d \in 0..Len(s) :
           /\ LastOf(s, n) = SubSeq(s, d + 1, Len(s))
           /\ Len(s) <= n => d = 0
           /\ Len(s) > n => d = Len(s) - n
<1>1. PICK m \in Nat : m = Len(s)
  OBVIOUS
<1>2. PICK d \in 0..m : (m <= n => d = 0) /\ (m > n => d = m - n)
  <2>1. CASE m <= n
    BY <2>1
  <2>2. CASE m > n
    <3>1. m - n \in 0..m
      BY <2>2
    <3> QED
      BY <2>2, <3>1
  <2> QED
    BY <2>1, <2>2
<1>3. d + 1 \in {1, m - n + 1} /\ \A y \in {1, m - n + 1} : d + 1 >= y
  BY <1>2
<1>4. \A x \in {1, m - n + 1} :
        (\A y \in {1, m - n + 1} : x >= y) => x = d + 1
  BY <1>2, <1>3
<1>5. Max({1, m - n + 1}) = d + 1
  <2> DEFINE Q(x) == x \in {1, m - n + 1} /\ \A y \in {1, m - n + 1} : x >= y
             c == CHOOSE x : Q(x)
  <2>1. Q(c)
    BY <1>3
  <2>2. Max({1, m - n + 1}) = c
    BY Zenon DEF Max
  <2> HIDE DEF c
  <2>3. c = d + 1
    BY <1>4, <2>1
  <2> QED
    BY <2>2, <2>3
<1> QED
  BY <1>1, <1>2, <1>5 DEF LastOf

(* It has at most n elements, and all of them if there are no more.        *)
LEMMA LastOfType ==
  ASSUME NEW T, NEW s \in Seq(T), NEW n \in Nat \ {0}
  PROVE  /\ LastOf(s, n) \in Seq(T) /\ Len(LastOf(s, n)) <= n
         /\ Len(s) <= n => LastOf(s, n) = s
<1>1. PICK d \in 0..Len(s) : /\ LastOf(s, n) = SubSeq(s, d + 1, Len(s))
                             /\ Len(s) <= n => d = 0
                             /\ Len(s) > n => d = Len(s) - n
  BY LastOfIs
<1>2. SubSeq(s, d + 1, Len(s)) \in Seq(T)
  BY <1>1
<1>3. Len(SubSeq(s, d + 1, Len(s))) <= n
  BY <1>1
<1>4. Len(s) <= n => SubSeq(s, d + 1, Len(s)) = s
  BY <1>1
<1> QED
  BY <1>1, <1>2, <1>3, <1>4

(* What one push forgets does not matter to the next.                      *)
LEMMA LastOfAppend ==
  ASSUME NEW T, NEW s \in Seq(T), NEW x \in T, NEW n \in Nat \ {0}
  PROVE  LastOf(Append(LastOf(s, n), x), n) = LastOf(Append(s, x), n)
<1>0. PICK k \in Seq(T) : k = LastOf(s, n)
  BY LastOfType
<1>1. PICK m \in Nat : m = Len(s)
  OBVIOUS
<1>2. CASE m < n
  BY <1>1, <1>2, LastOfType
<1>3. CASE m >= n
  <2>0. PICK d \in 0..Len(s) : /\ LastOf(s, n) = SubSeq(s, d + 1, Len(s))
                               /\ Len(s) <= n => d = 0
                               /\ Len(s) > n => d = Len(s) - n
    BY LastOfIs
  <2>1. d \in 0..m /\ k = SubSeq(s, d + 1, m) /\ d = m - n
    BY <1>0, <1>1, <1>3, <2>0
  <2>2. /\ Len(k) = n /\ \A i \in 1..n : k[i] = s[d + i]
    <3>1. d + 1 \in Nat /\ d + 1 >= 1 /\ m <= Len(s) /\ m - (d + 1) + 1 = n /\ d + 1 <= m + 1
      BY <1>1, <2>1
    <3>2. /\ Len(SubSeq(s, d + 1, m)) = m - (d + 1) + 1
          /\ \A i \in 1..(m - (d + 1) + 1) : SubSeq(s, d + 1, m)[i] = s[(d + 1) + i - 1]
      BY SMTT(30), <1>1, <3>1, SubSeqProperties
    <3>3. \A i \in 1..n : (d + 1) + i - 1 = d + i
      BY <2>1
    <3> QED
      BY <2>1, <3>1, <3>2, <3>3
  <2>3. PICK kx \in Seq(T) : kx = Append(k, x)
    BY Append(k, x) \in Seq(T)
  <2>4. Len(kx) = n + 1 /\ kx[n + 1] = x /\ \A i \in 1..n : kx[i] = s[d + i]
    BY <2>2, <2>3
  <2>5. LastOf(kx, n) = SubSeq(kx, 2, n + 1)
    <3>1. PICK e \in 0..Len(kx) : LastOf(kx, n) = SubSeq(kx, e + 1, Len(kx)) /\ (Len(kx) > n => e = Len(kx) - n)
      BY LastOfIs
    <3>2. e = 1
      BY <3>1, <2>4
    <3> QED
      BY <3>1, <3>2, <2>4
  <2>6. PICK sx \in Seq(T) : sx = Append(s, x)
    BY Append(s, x) \in Seq(T)
  <2>7. Len(sx) = m + 1 /\ sx[m + 1] = x /\ \A i \in 1..m : sx[i] = s[i]
    BY <1>1, <2>6
  <2>8. LastOf(sx, n) = SubSeq(sx, d + 2, m + 1)
    <3>1. PICK e \in 0..Len(sx) : LastOf(sx, n) = SubSeq(sx, e + 1, Len(sx)) /\ (Len(sx) > n => e = Len(sx) - n)
      BY LastOfIs
    <3>2. e = d + 1
      BY <3>1, <2>7, <1>3, <2>1
    <3> QED
      BY <3>1, <3>2, <2>7
  <2>9. SubSeq(kx, 2, n + 1) = SubSeq(sx, d + 2, m + 1)
    <3> DEFINE a == SubSeq(kx, 2, n + 1)
               b == SubSeq(sx, d + 2, m + 1)
    <3>1. a \in Seq(T) /\ Len(a) = n /\ \A i \in 1..n : a[i] = kx[i + 1]
      BY <2>4
    <3>2. b \in Seq(T) /\ Len(b) = n /\ \A i \in 1..n : b[i] = sx[d + 1 + i]
      BY <2>1, <2>7
    <3>3. \A i \in 1..n : kx[i + 1] = sx[d + 1 + i]
      <4> TAKE i \in 1..n
      <4>1. CASE i = n
        BY <2>1, <2>4, <2>7, <4>1
      <4>2. CASE i # n
        <5>1. i + 1 \in 1..n /\ d + 1 + i \in 1..m /\ d + (i + 1) = d + 1 + i
          BY <2>1, <4>2
        <5> QED
          BY <2>4, <2>7, <5>1
      <4> QED
        BY <4>1, <4>2
    <3> HIDE DEF a, b
    <3>4. a = b
      <4>1. \A i \in 1..n : a[i] = b[i]
        BY <3>1, <3>2, <3>3
      <4> QED
        BY <3>1, <3>2, <4>1
    <3> QED
      BY <3>4 DEF a, b
  <2> QED
    BY <1>0, <2>3, <2>5, <2>6, <2>8, <2>9
<1> QED
  BY <1>1, <1>2, <1>3

(* The function in which PushedAll collects its pushes.                    *)
Pushes(f, stk, labels) ==
  f = [i \in 0..Len(labels) |-> IF i = 0 THEN stk ELSE Pushed(f[i - 1], labels[i])]

(* A concatenation, one element further.                                   *)
LEMMA ConcatPrefix ==
  ASSUME NEW T, NEW s \in Seq(T), NEW t \in Seq(T), NEW i \in 1..Len(t)
  PROVE  Append(s \o SubSeq(t, 1, i - 1), t[i]) = s \o SubSeq(t, 1, i)
BY SMTT(30)

(* Pushing labels on the last of s leaves the last of s and them.          *)
LEMMA PushedAllIs ==
  ASSUME NEW s \in Seq(Mentions), NEW labels \in Seq(Mentions)
  PROVE  PushedAll(LastOf(s, MaxLen), labels) = LastOf(s \o labels, MaxLen)
<1> DEFINE stk == LastOf(s, MaxLen)
           upto(i) == s \o SubSeq(labels, 1, i)
           h == [i \in 0..Len(labels) |-> LastOf(upto(i), MaxLen)]
           f == CHOOSE f : Pushes(f, stk, labels)
<1>0. Len(labels) \in Nat /\ MaxLen \in Nat \ {0}
  BY BoundAssumption
<1>1. upto(0) = s /\ upto(Len(labels)) = s \o labels
  BY <1>0
<1>2. ASSUME NEW i \in 1..Len(labels)
      PROVE  /\ upto(i - 1) \in Seq(Mentions) /\ labels[i] \in Mentions
             /\ Append(upto(i - 1), labels[i]) = upto(i)
  <2>1. SubSeq(labels, 1, i - 1) \in Seq(Mentions) /\ labels[i] \in Mentions
    BY <1>0
  <2>2. upto(i - 1) \in Seq(Mentions)
    BY <2>1
  <2>3. Append(s \o SubSeq(labels, 1, i - 1), labels[i]) = s \o SubSeq(labels, 1, i)
    BY ConcatPrefix, Zenon
  <2> QED
    BY <2>1, <2>2, <2>3, Zenon
<1>3. ASSUME NEW i \in 1..Len(labels)
      PROVE  Pushed(LastOf(upto(i - 1), MaxLen), labels[i]) = LastOf(upto(i), MaxLen)
  <2>1. PICK u \in Seq(Mentions) : u = upto(i - 1)
    BY <1>2
  <2>2. LastOf(Append(LastOf(u, MaxLen), labels[i]), MaxLen)
          = LastOf(Append(u, labels[i]), MaxLen)
    BY <1>0, <1>2, LastOfAppend
  <2> HIDE DEF upto
  <2> QED
    BY <1>0, <1>2, <2>1, <2>2 DEF Pushed
<1> HIDE DEF upto
<1>4. Pushes(h, stk, labels)
  <2>1. ASSUME NEW i \in 0..Len(labels)
        PROVE  h[i] = IF i = 0 THEN stk ELSE Pushed(h[i - 1], labels[i])
    <3>1. CASE i = 0
      BY <1>1, <3>1
    <3>2. CASE i # 0
      <4>1. i \in 1..Len(labels) /\ i - 1 \in 0..Len(labels)
        BY <1>0, <3>2
      <4> QED
        BY <1>3, <3>2, <4>1
    <3> QED
      BY <3>1, <3>2
  <2>2. h = [i \in 0..Len(labels) |-> IF i = 0 THEN stk ELSE Pushed(h[i - 1], labels[i])]
    <3> DEFINE g == [i \in 0..Len(labels) |-> IF i = 0 THEN stk ELSE Pushed(h[i - 1], labels[i])]
    <3>1. DOMAIN g = DOMAIN h /\ \A i \in DOMAIN h : h[i] = g[i]
      BY <2>1
    <3>2. h = [i \in DOMAIN h |-> h[i]] /\ g = [i \in DOMAIN g |-> g[i]]
      OBVIOUS
    <3> QED
      BY <3>1, <3>2, Zenon
  <2> QED
    BY <2>2, Zenon DEF Pushes
<1> HIDE DEF h
<1>5. Pushes(f, stk, labels)
  BY <1>4, Zenon
<1>6. PushedAll(stk, labels) = f[Len(labels)]
  BY Zenon DEF PushedAll, Pushes
<1> HIDE DEF f
<1>7. f[0] = stk /\ \A i \in 1..Len(labels) : f[i] = Pushed(f[i - 1], labels[i])
  <2> DEFINE g == [i \in 0..Len(labels) |-> IF i = 0 THEN stk ELSE Pushed(f[i - 1], labels[i])]
  <2> HIDE DEF stk
  <2>1. f = g
    BY <1>5, Zenon DEF Pushes
  <2>2. \A i \in 0..Len(labels) : g[i] = IF i = 0 THEN stk ELSE Pushed(f[i - 1], labels[i])
    OBVIOUS
  <2>3. \A i \in 0..Len(labels) : f[i] = IF i = 0 THEN stk ELSE Pushed(f[i - 1], labels[i])
    <3> HIDE DEF g
    <3> QED
      BY <2>1, <2>2, Zenon
  <2>4. \A i \in 1..Len(labels) : i \in 0..Len(labels) /\ i # 0
    BY <1>0
  <2> QED
    BY <1>0, <2>3, <2>4
<1> DEFINE S == {i \in Nat : i <= Len(labels) => f[i] = LastOf(upto(i), MaxLen)}
<1>8. 0 \in S
  BY <1>1, <1>7
<1>9. ASSUME NEW i \in Nat, i \in S
      PROVE  i + 1 \in S
  <2>1. i + 1 <= Len(labels) => i <= Len(labels) /\ i + 1 \in 1..Len(labels) /\ (i + 1) - 1 = i
    BY <1>0
  <2> HIDE DEF stk
  <2> QED
    BY <1>3, <1>7, <1>9, <2>1
<1>10. Nat \subseteq S
  <2> HIDE DEF S
  <2> QED
    BY <1>8, <1>9, NaturalsBySteps
<1>11. f[Len(labels)] = LastOf(upto(Len(labels)), MaxLen)
  BY <1>0, <1>10
<1> QED
  BY <1>1, <1>6, <1>11

(* Everything that is named in a sequence of lines.                        *)
NamedBy(ls) == FlattenSeq([n \in 1..Len(ls) |-> NamedIn(ls[n])])

(* What a text names are mentions.                                         *)
LEMMA NoticedType ==
  ASSUME NEW text \in Texts
  PROVE  Noticed(text) \in Seq(Mentions)
<1> DEFINE Labels == Times \cup Names \cup Passed
<1>1. text \in Seq(Labels)
  BY TextAssumption
<1>2. Kept(text, Times) \in Seq(Labels \cap Times) /\ Kept(text, Names) \in Seq(Labels \cap Names)
  BY <1>1, KeptType, Zenon
<1>3. /\ Labels \cap Times \subseteq Mentions
      /\ Labels \cap Names \subseteq Mentions
  BY DEF Mentions
<1>4. Kept(text, Times) \in Seq(Mentions) /\ Kept(text, Names) \in Seq(Mentions)
  <2> HIDE DEF Labels
  <2> QED
    BY <1>2, <1>3, SeqMonotonic
<1> QED
  BY <1>4 DEF Noticed

(* What a line names are mentions,                                         *)
LEMMA NamedInType ==
  ASSUME NEW l \in Line
  PROVE  NamedIn(l) \in Seq(Mentions)
<1>1. CASE l.by = "agent" /\ l.kind # "error"
  <2>1. l.text \in Texts
    BY <1>1 DEF Line
  <2> QED
    BY <1>1, <2>1, NoticedType DEF NamedIn
<1>2. CASE ~ (l.by = "agent" /\ l.kind # "error")
  BY <1>2 DEF NamedIn
<1> QED
  BY <1>1, <1>2

(* ... and so is what several lines name.                                  *)
LEMMA NamedByType ==
  ASSUME NEW ls \in Seq(Line)
  PROVE  NamedBy(ls) \in Seq(Mentions)
<1>1. \A n \in 1..Len(ls) : NamedIn(ls[n]) \in Seq(Mentions)
  BY NamedInType
<1>2. [n \in 1..Len(ls) |-> NamedIn(ls[n])] \in Seq(Seq(Mentions))
  BY <1>1
<1> QED
  BY <1>2, FlattenType, Zenon DEF NamedBy

(* What a further line names comes after all that.                         *)
LEMMA NamedAppend ==
  ASSUME NEW ls \in Seq(Line), NEW l \in Line
  PROVE  NamedBy(Append(ls, l)) = NamedBy(ls) \o NamedIn(l)
<1>1. PICK s \in Seq(Seq(Mentions)) : s = [n \in 1..Len(ls) |-> NamedIn(ls[n])]
  <2>1. \A n \in 1..Len(ls) : NamedIn(ls[n]) \in Seq(Mentions)
    BY NamedInType
  <2>2. [n \in 1..Len(ls) |-> NamedIn(ls[n])] \in Seq(Seq(Mentions))
    BY <2>1
  <2> QED
    BY <2>2, Zenon
<1>2. PICK x \in Seq(Mentions) : x = NamedIn(l)
  BY NamedInType
<1>3. [n \in 1..Len(Append(ls, l)) |-> NamedIn(Append(ls, l)[n])] = Append(s, x)
  <2>1. /\ Len(Append(ls, l)) = Len(ls) + 1 /\ Append(ls, l)[Len(ls) + 1] = l
        /\ \A n \in 1..Len(ls) : Append(ls, l)[n] = ls[n]
        /\ Len(ls) \in Nat
    OBVIOUS
  <2>2. /\ Append(s, x) \in Seq(Seq(Mentions))
        /\ Len(Append(s, x)) = Len(ls) + 1 /\ Append(s, x)[Len(ls) + 1] = x
        /\ \A n \in 1..Len(ls) : Append(s, x)[n] = NamedIn(ls[n])
    BY <1>1
  <2>3. ASSUME NEW n \in 1..(Len(ls) + 1)
        PROVE  Append(s, x)[n] = NamedIn(Append(ls, l)[n])
    <3>0. n \in 1..Len(ls) \/ n = Len(ls) + 1
      BY <2>1
    <3>1. CASE n \in 1..Len(ls)
      BY <2>1, <2>2, <3>1
    <3>2. CASE n = Len(ls) + 1
      BY <1>2, <2>1, <2>2, <3>2
    <3> QED
      BY <3>0, <3>1, <3>2
  <2>4. Append(s, x) = [n \in 1..(Len(ls) + 1) |-> Append(s, x)[n]]
    <3>1. \A t \in Seq(Seq(Mentions)) : t = [n \in 1..Len(t) |-> t[n]]
      OBVIOUS
    <3> QED
      BY <2>2, <3>1, Zenon
  <2> QED
    BY <2>1, <2>3, <2>4
<1>4. FlattenSeq(Append(s, x)) = FlattenSeq(s) \o x
  BY FlattenAppend, Zenon
<1> QED
  BY <1>1, <1>2, <1>3, <1>4, Zenon DEF NamedBy

(* The stack is what the agent named last, in the session store while no   *)
(* loop runs.                                                              *)
StackInv ==
  /\ lines \in Seq(Line) /\ loop \in {"none", "listening", "interrupting"}
  /\ mentions \in Seq(Mentions) /\ Len(mentions) <= MaxLen
  /\ saved \in Seq(Mentions) /\ Len(saved) <= MaxLen
  /\ StackIsRecent
  /\ loop = "none" => saved = LastOf(Named, MaxLen)

(* What the agent named is a function of the lines,                        *)
LEMMA NamedIs == Named = NamedBy(lines)
BY Zenon DEF Named, NamedBy

(* ... before a step and after it.                                         *)
LEMMA NamedIsNext == Named' = NamedBy(lines')
BY Zenon DEF Named, NamedBy

(* Every step keeps the stack at what was named last.                      *)
LEMMA StackInvStep ==
  ASSUME StackInv, [Next]_vars
  PROVE  StackInv'
<1>0. /\ lines \in Seq(Line) /\ loop \in {"none", "listening", "interrupting"}
      /\ MaxLen \in Nat \ {0}
      /\ mentions \in Seq(Mentions) /\ Len(mentions) <= MaxLen
      /\ saved \in Seq(Mentions) /\ Len(saved) <= MaxLen
  BY BoundAssumption DEF StackInv
<1>1. PICK named \in Seq(Mentions) : named = NamedBy(lines)
  BY <1>0, NamedByType
<1>2. /\ loop # "none" => mentions = LastOf(named, MaxLen)
      /\ loop = "none" => saved = LastOf(named, MaxLen)
  BY <1>1, NamedIs, Zenon DEF StackInv, StackIsRecent
<1>3. /\ LastOf(named, MaxLen) \in Seq(Mentions)
      /\ Len(LastOf(named, MaxLen)) <= MaxLen
  BY <1>0, LastOfType
(* What is left to show of a step, in terms of what is named after it.     *)
<1>4. ASSUME NEW named1 \in Seq(Mentions), NamedBy(lines') = named1,
             lines' \in Seq(Line), loop' \in {"none", "listening", "interrupting"},
             mentions' \in Seq(Mentions), Len(mentions') <= MaxLen,
             saved' \in Seq(Mentions), Len(saved') <= MaxLen,
             loop' # "none" => mentions' = LastOf(named1, MaxLen),
             loop' = "none" => saved' = LastOf(named1, MaxLen)
      PROVE  StackInv'
  <2>1. Named' = named1
    BY <1>4, NamedIsNext, Zenon
  <2>2. StackIsRecent' <=> (loop' # "none" => mentions' = LastOf(named1, MaxLen))
    BY <2>1, Zenon DEF StackIsRecent
  <2> QED
    BY <1>4, <2>1, <2>2, Zenon DEF StackInv
(* What is named once a further line was handed over.                      *)
<1>5. ASSUME NEW l \in Line, lines' = Append(lines, l),
             NEW x \in Seq(Mentions), x = NamedIn(l)
      PROVE  /\ lines' \in Seq(Line) /\ NamedBy(lines') = named \o x
             /\ named \o x \in Seq(Mentions) /\ (x = <<>> => named \o x = named)
  <2>1. NamedBy(lines') = named \o x
    BY <1>0, <1>1, <1>5, NamedAppend, Zenon
  <2>2. named \o x \in Seq(Mentions) /\ (x = <<>> => named \o x = named)
    OBVIOUS
  <2>3. lines' \in Seq(Line)
    BY <1>0, <1>5
  <2> QED
    BY <2>1, <2>2, <2>3
<1>6. ASSUME NEW kind \in {"low", "high", "error"}, NEW text \in Texts,
             Receive(kind, text)
      PROVE  StackInv'
  <2> DEFINE l == [by |-> "agent", kind |-> kind, text |-> text]
  <2>1. l \in Line /\ l.by = "agent" /\ l.kind = kind /\ l.text = text
    BY DEF Line
  <2>2. /\ lines' = Append(lines, l) /\ loop = "listening"
        /\ loop' \in {"listening", "interrupting"}
        /\ saved' \in {mentions', saved}
        /\ mentions' = IF kind = "error" THEN mentions ELSE Observed(mentions, text)
    BY <1>6 DEF Receive, CanReceive, Hand, SpeakHigh
  <2> HIDE DEF l
  <2>3. PICK x \in Seq(Mentions) : x = NamedIn(l)
    BY <2>1, NamedInType, Zenon
  <2>4. /\ lines' \in Seq(Line) /\ NamedBy(lines') = named \o x
        /\ named \o x \in Seq(Mentions) /\ (x = <<>> => named \o x = named)
    BY <1>5, <2>1, <2>2, <2>3, Zenon
  <2>5. mentions' = LastOf(named \o x, MaxLen)
    <3>1. CASE kind = "error"
      <4>1. x = <<>>
        BY <2>1, <2>3, <3>1 DEF NamedIn
      <4>2. mentions' = mentions
        BY <2>2, <3>1
      <4> QED
        BY <1>2, <2>2, <2>4, <4>1, <4>2, Zenon
    <3>2. CASE kind # "error"
      <4>1. x = Noticed(text)
        BY <2>1, <2>3, <3>2 DEF NamedIn
      <4>2. mentions' = PushedAll(mentions, x)
        BY <2>2, <3>2, <4>1, Zenon DEF Observed
      <4>3. mentions = LastOf(named, MaxLen)
        BY <1>2, <2>2, Zenon
      <4>4. PushedAll(LastOf(named, MaxLen), x) = LastOf(named \o x, MaxLen)
        BY PushedAllIs, Zenon
      <4> QED
        BY <4>2, <4>3, <4>4, Zenon
    <3> QED
      BY <3>1, <3>2
  <2>6. PICK named1 \in Seq(Mentions) : named1 = named \o x
    BY <2>4, Zenon
  <2>7. LastOf(named1, MaxLen) \in Seq(Mentions) /\ Len(LastOf(named1, MaxLen)) <= MaxLen
    BY <1>0, LastOfType
  <2>8. mentions' = LastOf(named1, MaxLen) /\ NamedBy(lines') = named1
    BY <2>4, <2>5, <2>6, Zenon
  <2>9. /\ mentions' \in Seq(Mentions) /\ Len(mentions') <= MaxLen
        /\ saved' \in Seq(Mentions) /\ Len(saved') <= MaxLen
    <3> HIDE DEF Mentions
    <3> QED
      BY <1>0, <2>2, <2>7, <2>8, Zenon
  <2>10. loop' # "none" /\ loop' \in {"none", "listening", "interrupting"}
    BY <2>2
  <2> QED
    BY <1>4, <2>4, <2>8, <2>9, <2>10
<1>7. CASE Reply
  <2> DEFINE l == [by |-> "reply", kind |-> "low", text |-> <<>>]
  <2>1. l \in Line /\ NamedIn(l) = <<>> /\ <<>> \in Seq(Mentions)
    BY DEF Line, NamedIn
  <2>2. lines' = Append(lines, l) /\ UNCHANGED <<loop, mentions, saved>>
    BY <1>7 DEF Reply, Hand, stack
  <2> HIDE DEF l
  <2>3. lines' \in Seq(Line) /\ NamedBy(lines') = named
    BY <1>5, <2>1, <2>2, Zenon
  <2> QED
    BY <1>0, <1>2, <1>4, <2>2, <2>3
<1>8. CASE InterruptReturns \/ Stop
  <2>1. /\ lines' = lines /\ mentions' = mentions /\ saved' = mentions
        /\ loop # "none" /\ loop' \in {"none", "listening"}
    BY <1>8 DEF InterruptReturns, Stop
  <2> QED
    BY <1>0, <1>1, <1>2, <1>4, <2>1
<1>9. CASE Resume
  <2>1. /\ lines' = lines /\ mentions' = Restored(saved) /\ saved' = saved
        /\ loop = "none" /\ loop' = "listening"
    BY <1>9 DEF Resume
  <2>2. <<>> \in Seq(Mentions) /\ Len(<<>>) <= MaxLen /\ <<>> \o saved = saved
    BY <1>0
  <2>3. LastOf(<<>>, MaxLen) = <<>> /\ LastOf(saved, MaxLen) = saved
    <3>1. \A s \in Seq(Mentions) : Len(s) <= MaxLen => LastOf(s, MaxLen) = s
      BY <1>0, LastOfType
    <3> QED
      BY <1>0, <2>2, <3>1, Zenon
  <2>4. PushedAll(LastOf(<<>>, MaxLen), saved) = LastOf(<<>> \o saved, MaxLen)
    BY <1>0, <2>2, PushedAllIs, Zenon
  <2>5. mentions' = saved
    BY <2>1, <2>2, <2>3, <2>4, Zenon DEF Restored
  <2> QED
    BY <1>0, <1>1, <1>2, <1>4, <2>1, <2>5
<1>10. CASE LineEnds \/ BargeIn \/ UserStateChanges \/ UNCHANGED vars
  <2>1. UNCHANGED <<lines, loop, mentions, saved>>
    BY <1>10 DEF LineEnds, BargeIn, UserStateChanges, vars, stack
  <2> QED
    BY <1>0, <1>1, <1>2, <1>4, <2>1
<1> QED
  BY <1>6, <1>7, <1>8, <1>9, <1>10 DEF Next

(* The stack at the beginning,                                             *)
LEMMA StackInvInit == Init => StackInv
<1> SUFFICES ASSUME Init PROVE StackInv
  OBVIOUS
<1>1. /\ lines = <<>> /\ mentions = <<>> /\ saved = <<>> /\ loop = "listening"
      /\ <<>> \in Seq(Mentions) /\ <<>> \in Seq(Line) /\ Len(<<>>) <= MaxLen
      /\ MaxLen \in Nat \ {0}
  BY BoundAssumption DEF Init
<1>2. LastOf(<<>>, MaxLen) = <<>>
  BY <1>1, LastOfType
<1>3. Named = <<>>
  <2>1. [n \in 1..Len(<<>>) |-> NamedIn(<<>>[n])] = <<>>
    OBVIOUS
  <2> QED
    BY <1>1, <2>1, FlattenEmpty, Zenon DEF Named
<1> QED
  BY <1>1, <1>2, <1>3, Zenon DEF StackInv, StackIsRecent

(* ... and always.                                                         *)
LEMMA StackInvCorrect == Spec => []StackInv
BY StackInvInit, StackInvStep, PTL DEF Spec

-----------------------------------------------------------------------------
(* However long interrupt() takes, and whatever the turns answer by        *)
(* themselves meanwhile, what the agent says is spoken in the order in     *)
(* which it was received.                                                  *)
THEOREM HeardInOrder == Spec => []AgentIsHeardInOrder
<1>1. SpeechInv => AgentIsHeardInOrder
  BY DEF SpeechInv
<1> QED
  BY <1>1, SpeechInvCorrect, PTL

(* A question, a summary or an error is heard before anything the agent    *)
(* said earlier goes on: all of it that is still queued ahead was cut.     *)
THEOREM HighLinesComeFirst == Spec => []HighLinesPreempt
<1>1. SpeechInv => HighLinesPreempt
  BY DEF SpeechInv
<1> QED
  BY <1>1, SpeechInvCorrect, PTL

(* Each line handed to the composer is in one place: said, once, or given  *)
(* up, or held by the receive loop.                                        *)
THEOREM LinesAreSaidOnce == Spec => []OnePlace
<1>1. SpeechInv => OnePlace
  BY DEF SpeechInv
<1> QED
  BY <1>1, SpeechInvCorrect, PTL

(* No line is said twice, or said and given up, and the tracker of         *)
(* undelivered lines holds those that were interrupted, each once, in the  *)
(* order in which they were cut.                                           *)
THEOREM EveryLineAccountedProved == Spec => []EveryLineAccounted
<1>1. SpeechInv /\ PlayInv => EveryLineAccounted
  <2> SUFFICES ASSUME SpeechInv, PlayInv PROVE EveryLineAccounted
    OBVIOUS
  <2>0. Basics /\ OnePlace /\ undelivered = Kept(SubSeq(said, 1, ended), cut)
    BY Zenon DEF SpeechInv, PlayInv, Over
  <2>1. Range(said) = {said[i] : i \in 1..Len(said)} /\ DOMAIN said = 1..Len(said)
    BY <2>0, RangeEquality DEF Basics
  <2>2. IsInjective(said)
    BY <2>0, <2>1 DEF OnePlace, IsInjective
  <2>3. Range(said) \cap (unsaid \cup {held}) = {} /\ held \notin unsaid
    BY <2>0, <2>1 DEF OnePlace
  <2>4. 1..Len(lines) \subseteq Range(said) \cup unsaid \cup {held}
    BY <2>0, <2>1 DEF OnePlace
  <2> QED
    BY <2>0, <2>2, <2>3, <2>4, Zenon DEF EveryLineAccounted
<1> QED
  BY <1>1, SpeechInvCorrect, PlayInvCorrect, PTL

(* A pronoun never resolves to a mention that a later one has replaced,    *)
(* and stopping and resuming a call forgets none that a call without a     *)
(* break would know.                                                       *)
THEOREM StackIsRecentProved == Spec => []StackIsRecent
<1>1. StackInv => StackIsRecent
  BY DEF StackInv
<1> QED
  BY <1>1, StackInvCorrect, PTL

(* All the composer, the tracker and the stack keep is what it is declared *)
(* to be, the stack within its bound.                                      *)
THEOREM SpeechTypeOK == Spec => []TypeOK
<1>1. SpeechInv /\ PlayInv /\ StackInv => TypeOK
  <2> SUFFICES ASSUME SpeechInv, PlayInv, StackInv PROVE TypeOK
    OBVIOUS
  <2>0. /\ Basics /\ awaited \in 0..Len(said) /\ cut \subseteq 1..Len(lines)
        /\ speaking \in BOOLEAN /\ undelivered = Kept(Over, cut)
        /\ Len(said) \in Nat /\ ended \in 0..Len(said)
    BY DEF SpeechInv, Basics, PlayInv
  <2>1. PICK N : N = 1..Len(lines)
    OBVIOUS
  <2>2. said \in Seq(N)
    <3>1. said \in Seq(Nat) /\ \A i \in 1..Len(said) : said[i] \in N
      BY <2>0, <2>1 DEF Basics
    <3> QED
      BY <3>1
  <2>3. Over \in Seq(N)
    BY <2>0, <2>2 DEF Over
  <2>4. Kept(Over, cut) \in Seq(N \cap cut)
    BY <2>3, KeptType, Zenon
  <2>5. undelivered \in Seq(N)
    <3>1. N \cap cut \subseteq N
      OBVIOUS
    <3> QED
      BY <2>0, <2>4, <3>1, SeqMonotonic
  <2> QED
    BY <2>0, <2>1, <2>2, <2>5 DEF Basics, StackInv, TypeOK
<1> QED
  BY <1>1, SpeechInvCorrect, PlayInvCorrect, StackInvCorrect, PTL
=============================================================================
