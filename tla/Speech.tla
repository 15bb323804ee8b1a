------------------------------- MODULE Speech -------------------------------
(***************************************************************************)
(* What the user hears and what a pronoun means: the speech composer       *)
(* (speech_composer.py) between the receive loop, the user's turns and     *)
(* LiveKit, the tracker of undelivered lines (turn_manager.py) and the     *)
(* entity stack (entity_stack.py) that observes what the agent says.       *)
(*                                                                         *)
(* A step is what a coroutine does between two awaits that suspend:        *)
(* session.interrupt() suspends the receive loop until what is being said  *)
(* has ended, session.say() queues a line and returns.  A text is the      *)
(* sequence of the mentions in it, in the order in which they are spoken.  *)
(***************************************************************************)
EXTENDS Integers, Filter

CONSTANTS
  Times,     \* labels that match _TIME_MENTION
  Names,     \* labels _extract_proper_nouns keeps
  Passed,    \* capitalised words it passes over: stopwords, sentence starts
  Texts,     \* texts of this instance
  MaxLen,    \* maxlen of the entity stack
  NoMention, \* nothing to resolve a pronoun against
  MaxLines   \* bound: lines handed to the composer

ASSUME LabelAssumption ==
  /\ Times \cap Names = {} /\ (Times \cup Names) \cap Passed = {}
  /\ NoMention \notin Times \cup Names
ASSUME TextAssumption  == Texts \subseteq Seq(Times \cup Names \cup Passed)
ASSUME BoundAssumption == MaxLen \in Nat \ {0} /\ MaxLines \in Nat

VARIABLES
  lines,       \* what was handed to the composer, in that order
  loop,        \* where the receive loop stands
  held,        \* the line it is about to say once interrupt() returns, or 0
  awaited,     \* how many lines interrupt() waits to see ended
  said,        \* numbers of the lines handed to session.say(), in that order
  ended,       \* how many of them have ended; the next one is being spoken
  cut,         \* numbers of the lines that were interrupted
  undelivered, \* UndeliveredTracker._undelivered, as numbers of lines
  unsaid,      \* history: lines that were never handed to session.say()
  speaking,    \* session.user_state == "speaking"
  mentions,    \* EntityStack._mentions
  saved        \* entity_stack of the user's entry in the session store

playback == <<said, ended, cut, undelivered>>
stack    == <<mentions, saved>>
vars == <<lines, loop, held, awaited, playback, unsaid, speaking, stack>>

Mentions == Times \cup Names

(* "agent" lines come through the receive loop, "reply" lines from a turn. *)
(* An error is a high line the entity stack does not observe.              *)
Line == [by : {"agent"}, kind : {"low", "high", "error"}, text : Texts]
          \cup [by : {"reply"}, kind : {"low"}, text : {<<>>}]

TypeOK ==
  /\ lines \in Seq(Line)
  /\ loop \in {"none", "listening", "interrupting"}
  /\ held \in 0..Len(lines) /\ (held # 0 <=> loop = "interrupting")
  /\ said \in Seq(1..Len(lines)) /\ ended \in 0..Len(said)
  /\ awaited \in 0..Len(said)
  /\ cut \subseteq 1..Len(lines) /\ unsaid \subseteq 1..Len(lines)
  /\ undelivered \in Seq(1..Len(lines))
  /\ speaking \in BOOLEAN
  /\ mentions \in Seq(Mentions) /\ saved \in Seq(Mentions)
  /\ Len(mentions) <= MaxLen /\ Len(saved) <= MaxLen

Init ==
  /\ lines = <<>> /\ loop = "listening" /\ held = 0 /\ awaited = 0
  /\ said = <<>> /\ ended = 0 /\ cut = {} /\ undelivered = <<>>
  /\ unsaid = {} /\ speaking = FALSE
  /\ mentions = <<>> /\ saved = <<>>

-----------------------------------------------------------------------------
(* The entity stack.                                                       *)

LastOf(seq, n) == SubSeq(seq, Max({1, Len(seq) - n + 1}), Len(seq))

(* push: the queue is bounded.                                             *)
Pushed(stk, m) == LastOf(Append(stk, m), MaxLen)

(* What a text names: all its times, then all its proper nouns.            *)
Noticed(text) == Kept(text, Times) \o Kept(text, Names)

(* One push after the other.                                               *)
PushedAll(stk, labels) ==
  LET pushed[i \in 0..Len(labels)] ==
        IF i = 0 THEN stk ELSE Pushed(pushed[i - 1], labels[i])
  IN  pushed[Len(labels)]

(* observe_agent_speech                                                    *)
Observed(stk, text) == PushedAll(stk, Noticed(text))

(* resolve: every pronoun means the last mention.                          *)
Resolved(stk) == IF stk = <<>> THEN NoMention ELSE Last(stk)

(* The mentions are pushed on the stack of a controller that has some.     *)
RestoredFaulty(snap) == PushedAll(mentions, snap)

(* restore                                                                 *)
Restored(snap) == PushedAll(<<>>, snap)

-----------------------------------------------------------------------------
(* The composer over LiveKit's queue of speech.                            *)

Queued == (ended + 1)..Len(said)

Hand(by, kind, text) ==
  /\ Len(lines) < MaxLines
  /\ lines' = Append(lines, [by |-> by, kind |-> kind, text |-> text])

(* raw_speak: session.say() queues the line, the tracker follows it.       *)
Say(n) == said' = Append(said, n) /\ UNCHANGED <<ended, undelivered, unsaid>>

Drop(n) == unsaid' = unsaid \cup {n} /\ UNCHANGED playback

(* speak(text, "low"): dropped if the user is speaking.                    *)
SpeakLow(n) == IF speaking THEN Drop(n) ELSE Say(n) /\ UNCHANGED cut

(* Only the line being spoken is cut, what is queued behind it is not.     *)
InterruptFaulty ==
  cut' = cut \cup (IF ended < Len(said) THEN {said[ended + 1]} ELSE {})

(* session.interrupt() cuts what is being said and what is queued.         *)
Interrupt == cut' = cut \cup {said[i] : i \in Queued}

(* The interruption of silence is awaited like that of a line.             *)
SpeakHighFaulty(n) ==
  /\ Interrupt
  /\ loop' = "interrupting" /\ held' = n
  /\ awaited' = ended + 1
  /\ UNCHANGED <<said, ended, undelivered, unsaid>>

(* speak(text, "high") up to its await: the receive loop is suspended      *)
(* until the line being spoken has ended.                                  *)
SpeakHigh(n) ==
  /\ Interrupt
  /\ loop' = "interrupting" /\ held' = n
  /\ awaited' = IF Queued = {} THEN ended ELSE ended + 1
  /\ UNCHANGED <<said, ended, undelivered, unsaid>>

(* The loop goes on reading while a line waits to be spoken.               *)
CanReceiveFaulty == loop # "none"

CanReceive == loop = "listening"

(* One round of the receive loop: the line is observed before it is        *)
(* spoken, said or not, and the session saved after it.                    *)
Receive(kind, text) ==
  /\ CanReceive
  /\ Hand("agent", kind, text)
  /\ mentions' = IF kind = "error" THEN mentions ELSE Observed(mentions, text)
  /\ IF kind = "low"
     THEN /\ SpeakLow(Len(lines) + 1)
          /\ saved' = mentions' /\ UNCHANGED <<loop, held, awaited>>
     ELSE SpeakHigh(Len(lines) + 1) /\ UNCHANGED saved
  /\ UNCHANGED speaking

(* interrupt() returns, the high line is said and the session saved.       *)
InterruptReturns ==
  /\ loop = "interrupting" /\ awaited <= ended
  /\ Say(held) /\ UNCHANGED cut
  /\ loop' = "listening" /\ held' = 0 /\ saved' = mentions
  /\ UNCHANGED <<lines, awaited, speaking, mentions>>

(* A turn answers by itself: an instant ack, or "Let's slow down".  It     *)
(* does not wait for the receive loop.                                     *)
Reply ==
  /\ Hand("reply", "low", <<>>)
  /\ SpeakLow(Len(lines) + 1)
  /\ UNCHANGED <<loop, held, awaited, speaking, stack>>

-----------------------------------------------------------------------------
(* LiveKit, external: it speaks what is queued in order, tells when the    *)
(* user speaks, and cuts the line being spoken when that was no noise.     *)

(* The tracker keeps what was heard instead of what was not.               *)
TrackedFaulty(n) == IF n \in cut THEN undelivered ELSE Append(undelivered, n)

(* The done callback of track().                                           *)
Tracked(n) == IF n \in cut THEN Append(undelivered, n) ELSE undelivered

LineEnds ==
  /\ Queued # {}
  /\ ended' = ended + 1 /\ undelivered' = Tracked(said[ended + 1])
  /\ UNCHANGED <<lines, loop, held, awaited, said, cut, unsaid, speaking, stack>>

BargeIn ==
  /\ speaking /\ Queued # {}
  /\ cut' = cut \cup {said[ended + 1]}
  /\ UNCHANGED <<lines, loop, held, awaited, said, ended, undelivered, unsaid,
                 speaking, stack>>

UserStateChanges ==
  /\ speaking' = ~speaking
  /\ UNCHANGED <<lines, loop, held, awaited, playback, unsaid, stack>>

(* stop(): the stack is saved and the receive loop cancelled, with it the  *)
(* line it was about to say.                                               *)
Stop ==
  /\ loop # "none"
  /\ saved' = mentions
  /\ loop' = "none" /\ held' = 0
  /\ unsaid' = unsaid \cup ({held} \ {0})
  /\ UNCHANGED <<lines, awaited, playback, speaking, mentions>>

(* start(resume=True) of a later call, whose stack is a new one.  What was *)
(* said and tracked before is kept as history.                             *)
Resume ==
  /\ loop = "none" /\ Queued = {}
  /\ loop' = "listening" /\ mentions' = Restored(saved)
  /\ UNCHANGED <<lines, held, awaited, playback, unsaid, speaking, saved>>

Next ==
  \/ \E kind \in {"low", "high", "error"}, text \in Texts : Receive(kind, text)
  \/ InterruptReturns \/ Reply \/ LineEnds \/ BargeIn \/ UserStateChanges
  \/ Stop \/ Resume

(* Every line comes to its end, cut or not, and asyncio resumes a          *)
(* coroutine whose await is over.  Users and agent promise nothing.        *)
Fairness == WF_vars(LineEnds) /\ WF_vars(InterruptReturns)

Spec == Init /\ [][Next]_vars /\ Fairness

-----------------------------------------------------------------------------
IsAgent(n) == lines[n].by = "agent"
IsHigh(n)  == lines[n].kind # "low"

(* No line is said twice, or said and dropped: each one is being held, is  *)
(* dropped or was said once; and the tracker holds those the user did not  *)
(* hear to the end, in the order in which they were cut.                   *)
EveryLineAccounted ==
  /\ IsInjective(said)
  /\ Range(said) \cap (unsaid \cup {held}) = {} /\ held \notin unsaid
  /\ 1..Len(lines) \subseteq Range(said) \cup unsaid \cup {held}
  /\ undelivered = Kept(SubSeq(said, 1, ended), cut)

(* What the agent says is spoken in the order in which it was received,    *)
(* however long an interruption takes; replies may come in between.        *)
AgentIsHeardInOrder ==
  \A i, j \in 1..Len(said) :
    i < j /\ IsAgent(said[i]) /\ IsAgent(said[j]) => said[i] < said[j]

(* A high line is heard before anything said earlier goes on: what is      *)
(* still ahead of it in the queue was cut, except for a reply that a turn  *)
(* gave while the interruption was under way.                              *)
HighLinesPreempt ==
  \A i, j \in Queued :
    i < j /\ IsHigh(said[j]) => said[i] \in cut \/ ~IsAgent(said[i])

(* A question, a summary or an error waits no longer than until the line   *)
(* it interrupts has ended.                                                *)
HighLinesAreSpoken ==
  \A n \in 1..MaxLines : held = n ~> n \in Range(said) \/ loop = "none"

(* Everything the agent named, in the order it was noticed.                *)
NamedIn(l) ==
  IF l.by = "agent" /\ l.kind # "error" THEN Noticed(l.text) ELSE <<>>
Named == FlattenSeq([n \in 1..Len(lines) |-> NamedIn(lines[n])])

(* The stack is the end of what the agent named so far, over all calls: a  *)
(* pronoun never resolves to a mention that a later one has replaced, and  *)
(* stopping and resuming forgets none that a call without a break would    *)
(* know.                                                                   *)
StackIsRecent == loop # "none" => mentions = LastOf(Named, MaxLen)

(* A pronoun of the user means something in a line that the user has       *)
(* heard, is hearing or is about to hear.                                  *)
PronounsMeanWhatWasHeard ==
  Resolved(mentions) # NoMention =>
    \E n \in (Range(said) \ cut) \cup ({held} \ {0}) :
      Resolved(mentions) \in Range(lines[n].text)

(* A pronoun means what was mentioned last in the last line that names     *)
(* anything.                                                               *)
PronounsMeanTheLastMention ==
  lines # <<>> /\ loop = "listening" =>
    LET naming == {n \in 1..Len(lines) :
                     lines[n].kind # "error" /\ Noticed(lines[n].text) # <<>>}
    IN  naming # {} =>
          Resolved(mentions) =
            Last(Kept(lines[Max(naming)].text, Mentions))
=============================================================================
