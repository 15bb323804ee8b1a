----------------------------- MODULE VoiceAgent -----------------------------
(***************************************************************************)
(* A job of the voice agent (agent.py): settings, the language model       *)
(* behind router and acks, the order in which the room, the controller,    *)
(* the shutdown callback and LiveKit's session come to life and end, and   *)
(* the turns of llm_node.  The job may end, and the link to the agent      *)
(* drop, between any two of these steps.                                   *)
(*                                                                         *)
(* What the controller and the composer do with an event is Conversation   *)
(* and Speech; here the receive loop only needs a session to speak into.   *)
(* An utterance is the set of the kinds of words in it.                    *)
(***************************************************************************)
EXTENDS Latency

CONSTANTS
  Utterances, \* what users say in this instance
  Answers,    \* what a language model may answer in this instance
  Samples,    \* latencies LiveKit reports in this instance
  MaxSamples  \* bound: samples recorded

Classes == {"new_intent", "modify_inflight", "confirmation_reply",
            "session_query", "small_talk", "simple_lookup"}
Words == {"approve", "reject", "more"}

(* A model calls tools, each with a class or nothing of use, and may add   *)
(* text.                                                                   *)
Answer == [calls : Seq(Classes \cup {"unusable"}), text : BOOLEAN]

ASSUME UtteranceAssumption == Utterances \subseteq SUBSET Words
ASSUME AnswerAssumption    == Answers \subseteq Answer
ASSUME SampleAssumption    == Samples \subseteq Nat /\ MaxSamples \in Nat

(* The settings: keys that are present and not empty, LLM_PROVIDER, and    *)
(* REDIS_URL, without which the session is stored in memory.               *)
Environment == [speech : BOOLEAN, anthropic : BOOLEAN, gemini : BOOLEAN,
                override : {"none", "anthropic", "gemini"}, redis : BOOLEAN]

Stages == {"classify", "lookup"}
NoTurn == [stage |-> "none", text |-> {}]
Quiet  == [type |-> "nothing", decision |-> "none", words |-> {}]
Output == [type : {"nothing", "line", "user_utterance", "interrupt",
                   "confirmation_response", "session_query"},
           decision : {"none", "approve", "reject", "modify"},
           words : SUBSET Words]

VARIABLES
  env,       \* the environment the process was started with
  entry,     \* the await at which entrypoint() stands
  job,       \* LiveKit's side of the job
  callbacks, \* a shutdown callback is registered
  stop,      \* the await at which the callback's controller.stop() stands
  session,   \* the session with the agent behind the websocket
  resumed,   \* the agent was told to resume, by a reconnection
  loop,      \* the receive loop of the controller
  tasks,     \* tasks the agent has of this user: from before, of this job
  listed,    \* the controller's task list is not empty
  turn,      \* the turn llm_node is in
  answer,    \* the last answer of the language model
  out,       \* what the last step said or put on the wire
  samples    \* LatencyAggregator, one hop, in order

ending     == <<job, callbacks, stop>>
connection == <<session, resumed, loop>>
lifecycle  == <<entry, ending, connection>>
work == <<tasks, listed>>
vars == <<env, lifecycle, work, turn, answer, out, samples>>

NoAnswer == [calls |-> <<>>, text |-> FALSE]

TypeOK ==
  /\ env \in Environment
  /\ entry \in {"new", "room", "connect", "start", "live", "failed"}
  /\ job \in {"running", "ending", "over"}
  /\ callbacks \in BOOLEAN
  /\ stop \in {"none", "saving", "ending", "closing", "returned", "raised"}
  /\ session \in {"none", "open", "lost", "ended", "closed"}
  /\ resumed \in BOOLEAN
  /\ loop \in {"none", "listening", "dead"}
  /\ loop = "listening" => session \in {"open", "lost"}
  /\ tasks \subseteq {"before", "opened"} /\ listed \in BOOLEAN
  /\ turn \in [stage : Stages, text : SUBSET Words] \cup {NoTurn}
  /\ answer \in Answer /\ out \in Output
  /\ samples \in Seq(Nat) /\ Len(samples) <= MaxSamples

Init ==
  /\ env \in Environment /\ tasks \in SUBSET {"before"} /\ listed = FALSE
  /\ entry = "new" /\ job = "running" /\ callbacks = FALSE /\ stop = "none"
  /\ session = "none" /\ resumed = FALSE /\ loop = "none"
  /\ turn = NoTurn /\ answer = NoAnswer /\ out = Quiet /\ samples = <<>>

-----------------------------------------------------------------------------
(* Settings and the language model.                                        *)

(* Settings() raises without the speech keys or without either LLM key.    *)
Accepted(e) == e.speech /\ (e.anthropic \/ e.gemini)

(* resolved_llm_provider                                                   *)
Provider(e) ==
  IF e.override # "none" THEN e.override
  ELSE IF e.gemini /\ ~e.anthropic THEN "gemini" ELSE "anthropic"

HasKey(e) == IF Provider(e) = "gemini" THEN e.gemini ELSE e.anthropic

(* make_llm_client: Gemini's client refuses to be built without a key,     *)
(* Anthropic's only to be used.                                            *)
ClientBuilt(e) == Provider(e) = "gemini" => e.gemini

Block(type, class) == [type |-> type, class |-> class]
ToolUses(a) == [i \in 1..Len(a.calls) |-> Block("tool_use", a.calls[i])]
TextBlock(a) == IF a.text THEN <<Block("text", "unusable")>> ELSE <<>>

(* Text hides the calls beside it.                                         *)
ToAnthropicShapeFaulty(a) == IF a.text THEN TextBlock(a) ELSE ToolUses(a)

(* _to_anthropic_shape: text only where there is no call.                  *)
ToAnthropicShape(a) ==
  IF a.calls # <<>> THEN ToolUses(a) ELSE TextBlock(a)

(* Anthropic's own answer: text may come before the calls.                 *)
AnthropicContent(a) == TextBlock(a) \o ToolUses(a)

Content(e, a) ==
  IF Provider(e) = "gemini" THEN ToAnthropicShape(a) ELSE AnthropicContent(a)

(* classify: the first tool call with a class the contract knows, or       *)
(* RouterError.                                                            *)
Classified(content) ==
  LET usable == Kept(content, [type : {"tool_use"}, class : Classes])
  IN  IF usable = <<>> THEN "RouterError" ELSE Head(usable).class

(* _parse_decision; only "modify" carries the utterance.                   *)
Decision(words) ==
  IF "approve" \in words /\ "reject" \notin words THEN "approve"
  ELSE IF "reject" \in words /\ "approve" \notin words THEN "reject"
  ELSE "modify"

-----------------------------------------------------------------------------
(* entrypoint(), from one await to the next.                               *)

Advance(from, to) ==
  /\ job # "over" /\ entry = from /\ entry' = to
  /\ out' = Quiet
  /\ UNCHANGED <<env, job, stop, work, turn, answer, samples>>

(* Settings, session, language model, store and controller are built.      *)
Wire ==
  /\ Advance("new", IF Accepted(env) /\ ClientBuilt(env) THEN "room" ELSE "failed")
  /\ UNCHANGED <<callbacks, connection>>

(* ctx.connect() returned, controller.start() connects to the agent.       *)
RoomConnected == Advance("room", "connect") /\ UNCHANGED <<callbacks, connection>>

(* The transport is connected and SessionStart(resume=False) sent: the     *)
(* receive loop is created and the callback registered without a           *)
(* suspension in between, and session.start() awaited.                     *)
ControllerStarted ==
  /\ Advance("connect", "start")
  /\ session' = "open" /\ loop' = "listening" /\ callbacks' = TRUE
  /\ UNCHANGED resumed

SessionStarted ==
  Advance("start", "live") /\ UNCHANGED <<callbacks, connection>>

(* An await raises, and entrypoint() with it.                              *)
EntryFails ==
  /\ entry \in {"room", "connect", "start"}
  /\ Advance(entry, "failed")
  /\ UNCHANGED <<callbacks, connection>>

-----------------------------------------------------------------------------
(* The link to the agent.                                                  *)

Link ==
  /\ out' = Quiet
  /\ UNCHANGED <<env, entry, ending, work, turn, answer, samples>>

LinkDrops ==
  /\ session = "open" /\ session' = "lost"
  /\ Link /\ UNCHANGED <<resumed, loop>>

(* The receive loop connects again and says SessionStart(resume=True),     *)
(* whatever the first connection said.                                     *)
Reconnects ==
  /\ session = "lost" /\ loop = "listening"
  /\ session' = "open" /\ resumed' = TRUE
  /\ Link /\ UNCHANGED loop

(* ... or runs out of retries, which ends it.                              *)
GivesUp ==
  /\ session = "lost" /\ loop = "listening" /\ loop' = "dead"
  /\ Link /\ UNCHANGED <<session, resumed>>

(* The agent has something to say: about a task this job opened, or, when  *)
(* it was told to resume, about one from before.  The task is listed, or   *)
(* dropped if it is over.  session.say() raises as long as the session     *)
(* does not run, which ends the receive loop.                              *)
AgentSpeaks ==
  /\ loop = "listening" /\ session = "open"
  /\ "opened" \in tasks \/ (resumed /\ "before" \in tasks)
  /\ listed' \in BOOLEAN
  /\ IF entry = "live"
     THEN out' = [Quiet EXCEPT !.type = "line"] /\ UNCHANGED loop
     ELSE out' = Quiet /\ loop' = "dead"
  /\ UNCHANGED <<env, entry, ending, session, resumed, tasks, turn, answer, samples>>

-----------------------------------------------------------------------------
(* The job ends, and the controller with it if its callback is there.      *)

Shutdown ==
  /\ job = "running" /\ job' = "ending"
  /\ stop' = IF callbacks THEN "saving" ELSE stop
  /\ out' = Quiet
  /\ UNCHANGED <<env, entry, callbacks, connection, work, turn, answer, samples>>

Stopping(from, to) ==
  /\ job = "ending" /\ stop = from /\ stop' = to /\ out' = Quiet
  /\ UNCHANGED <<env, entry, job, callbacks, resumed, work, turn, answer, samples>>

(* The client is closed under a loop that goes on.                         *)
StopSavedFaulty == Stopping("saving", "ending") /\ UNCHANGED <<session, loop>>

(* The session is saved, and the receive loop cancelled.                   *)
StopSaved ==
  Stopping("saving", "ending") /\ loop' = "none" /\ UNCHANGED session

(* Redis refuses the save: stop() raises with nothing cancelled or closed. *)
StopRaises ==
  env.redis /\ Stopping("saving", "raised") /\ UNCHANGED <<session, loop>>

(* close() tells the agent, if the connection is still up.                 *)
SessionEndSent ==
  /\ Stopping("ending", "closing")
  /\ session' = IF session = "open" THEN "ended" ELSE session
  /\ UNCHANGED loop

(* ... and the websocket is closed.                                        *)
SocketClosed ==
  Stopping("closing", "returned") /\ session' = "closed" /\ UNCHANGED loop

(* The process exits, with callbacks that are not through if it must.      *)
ProcessExits ==
  /\ job = "ending" /\ job' = "over"
  /\ loop' = "none" /\ turn' = NoTurn /\ out' = Quiet
  /\ UNCHANGED <<env, entry, callbacks, stop, session, resumed, work, answer, samples>>

-----------------------------------------------------------------------------
(* Turns: llm_node and what handle_utterance makes of it.                  *)

(* The final transcript goes to the controller, an empty one does not.     *)
Utter(text) ==
  /\ entry = "live" /\ job = "running" /\ turn = NoTurn /\ text # {}
  /\ turn' = [stage |-> "classify", text |-> text] /\ out' = Quiet
  /\ UNCHANGED <<env, lifecycle, work, answer, samples>>

EndTurn(output) == turn' = NoTurn /\ out' = output

(* send() raises over a lost connection and over one that is closed, but   *)
(* not while close() is between SessionEnd and the closing.                *)
Sent(type, decision, words) ==
  IF session \in {"open", "ended"}
  THEN [type |-> type, decision |-> decision, words |-> words]
  ELSE Quiet

(* The model fails, or was built without a key.                            *)
ModelFails ==
  /\ turn.stage \in Stages
  /\ EndTurn(Quiet)
  /\ UNCHANGED <<env, lifecycle, work, answer, samples>>

(* The reply to a class that needs the agent.                              *)
Forward(class, text) ==
  CASE class = "new_intent" -> Sent("user_utterance", "none", text)
    [] class = "confirmation_reply" /\ listed ->
         Sent("confirmation_response", Decision(text),
              IF Decision(text) = "modify" THEN text ELSE {})
    [] class = "modify_inflight" /\ listed -> Sent("interrupt", "none", text)
    [] class = "session_query" -> Sent("session_query", "none", text)
    [] OTHER -> Quiet

(* The router's answer arrives.                                            *)
Classify(a) ==
  LET class == Classified(Content(env, a))
  IN  /\ turn.stage = "classify" /\ HasKey(env)
      /\ answer' = a
      /\ CASE class = "simple_lookup" ->
                turn' = [turn EXCEPT !.stage = "lookup"] /\ out' = Quiet
           [] class = "small_talk" -> EndTurn([Quiet EXCEPT !.type = "line"])
           [] OTHER -> EndTurn(Forward(class, turn.text))
      /\ tasks' = tasks \cup IF out'.type = "user_utterance" THEN {"opened"} ELSE {}
      /\ UNCHANGED <<env, lifecycle, listed, samples>>

(* simple_lookup: the text blocks of a second answer, or "Not sure, sorry."*)
Lookup(a) ==
  /\ turn.stage = "lookup" /\ answer' = a
  /\ EndTurn([Quiet EXCEPT !.type = "line"])
  /\ UNCHANGED <<env, lifecycle, work, samples>>

(* metrics_collected                                                       *)
Measure(value) ==
  /\ entry = "live" /\ Len(samples) < MaxSamples
  /\ samples' = Recorded(samples, value) /\ out' = Quiet
  /\ UNCHANGED <<env, lifecycle, work, turn, answer>>

Next ==
  \/ Wire \/ RoomConnected \/ ControllerStarted \/ SessionStarted \/ EntryFails
  \/ LinkDrops \/ Reconnects \/ GivesUp \/ AgentSpeaks
  \/ Shutdown \/ StopSaved \/ StopRaises \/ SessionEndSent \/ SocketClosed
  \/ ProcessExits
  \/ \E text \in Utterances : Utter(text)
  \/ ModelFails \/ \E a \in Answers : Classify(a) \/ Lookup(a)
  \/ \E value \in Samples : Measure(value)

(* Nothing to be fair about: users, models and rooms promise nothing.      *)
Spec == Init /\ [][Next]_vars

-----------------------------------------------------------------------------
(* No job leaves a session open of which the agent was not told that it is *)
(* over.                                                                   *)
NoSessionIsLeftOpen == job = "over" => session # "open"

(* No event reaches the receive loop before LiveKit's session, which       *)
(* starts after it, can speak.                                             *)
NothingIsSaidTooSoon == [][AgentSpeaks => loop' # "dead"]_vars

(* Settings that are accepted and leave the choice of the model to the     *)
(* service name a model whose key is there.                                *)
ChosenModelWorks ==
  entry \notin {"new", "failed"} /\ env.override = "none" => HasKey(env)

(* ... and so do those that choose it.                                     *)
AcceptedSettingsWork == entry = "live" => HasKey(env)

(* Router and acks cannot tell the two models apart: the same answer       *)
(* classifies an utterance the same way, text beside a call or not.        *)
ModelsAgree ==
  /\ Classified(ToAnthropicShape(answer)) = Classified(AnthropicContent(answer))
  /\ answer.calls = <<>> => ToAnthropicShape(answer) = AnthropicContent(answer)

(* What is approved was not refused in the same breath, nor the other way  *)
(* round, and any other reply reaches the agent whole.                     *)
DecisionsAreUnmixed ==
  [][out'.type = "confirmation_response" =>
       LET told == turn.text \cap {"approve", "reject"}
       IN  CASE out'.decision = "modify" -> out'.words = turn.text
             [] OTHER -> told = {out'.decision}]_vars

(* Approving words among others are no clean yes: such a reply reaches the *)
(* agent whole.                                                            *)
OnlyCleanRepliesDecide ==
  [][out'.type = "confirmation_response" /\ out'.decision # "modify"
     => turn.text = {out'.decision}]_vars

(* Nothing is sent to an agent that was told the session is over, however  *)
(* long the models take.                                                   *)
SilentAfterTheEnd == out.type \notin {"nothing", "line"} => session # "ended"

(* The figures of the latency log are in order, and between the samples.   *)
PercentilesInOrder ==
  samples # <<>> =>
    LET s == Summary(samples)
    IN  /\ 100 * Head(samples) <= s.p50 /\ s.p50 <= s.p95 /\ s.p95 <= s.max
        /\ s.count % 2 = 1 => s.p50 = 100 * samples[(s.count + 1) \div 2]
        /\ s.count % 2 = 0 =>
             2 * s.p50 = 100 * (samples[s.count \div 2] + samples[s.count \div 2 + 1])
=============================================================================
