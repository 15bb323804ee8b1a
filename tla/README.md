# A TLA+ model of the voice service and its agent backend

This directory specifies the part of the repository that has behaviour over
time: the conversation controller of the voice service, the session store it
writes, the reconnecting client below it, the two rate limiters beside it, the
speech composer and the entity stack through which the user hears the agent
and refers to what it said, the job that wires all of this together, and the
scripted agent backend at the other end of the wire. Each module is written
from the Python source and model-checked by TLC on small instances, and each
has theorems that TLAPS proves for every value of the constants.

Paths below are relative to the repository; `voice_service/x.py` stands for
`services/voice-service/src/voice_service/x.py` and `mock_agent_backend/x.py`
for `services/mock-agent-backend/src/mock_agent_backend/x.py`.

## 1. The system

A user speaks to the **voice agent** (`agent.py`, LiveKit). Each final
transcript goes to the **conversation controller** (`conversation.py`), which
asks the **rate limiter** whether the turn may go on, asks the **router** (a
language model) what kind of utterance it is, and either answers it locally
(**instant acks**) or sends a message of the **wire contract** to the agent
("CollectiveOS") over the **reconnecting client**. A receive loop in the
controller handles what the agent sends back: it speaks lines through the
**speech composer**, keeps the list of active tasks and what each waits for,
and saves both after every event in the **session store**. When a user calls
again, the store gives the list back. The **mock agent backend** plays the
agent in three scripted scenarios.

| component | state | operations | interacts with |
|---|---|---|---|
| conversation controller | `_task_order`, `_task_waiting_reason`, `_receive_task`, session ids | `start`, `stop`, `handle_utterance`, `_receive_loop` / `_handle_agent_event` | every other part |
| session store | one snapshot per user | `load`, `save`; in memory or Redis | controller |
| reconnecting client | `_state`, `_client`, `_closing`, retry count | `connect`, iteration, `send`, `close` | controller, websocket client |
| websocket client | one socket | `connect`, iteration, `send`, `close` | reconnecting client, agent |
| rate limiter | buckets (memory), counter with a time to live (Redis) | `allow` | controller |
| mock agent backend | per connection: queue, reader, script position; per user: task records | accept, read, run a script | websocket client |
| speech composer | LiveKit's queue of speech | `speak` | controller, LiveKit |
| turn manager | lines that were cut | `track`, `drain` | LiveKit |
| entity stack | last mentions | `push`, `observe_agent_speech`, `resolve`, `snapshot`, `restore` | controller, session store |
| voice agent | the job: room, session, controller, shutdown callback | `entrypoint`, `llm_node` | everything above, LiveKit |
| router, instant acks | none | one request each | controller, language model adapter |
| language model adapter, configuration | none | `create`, `Settings` | router, instant acks, voice agent |
| latency aggregator | samples | `record`, `percentile`, `snapshot` | voice agent |

### What is hard about it

* Everything in the voice service is asyncio: between two awaits that suspend
  a coroutine is alone, across one it is not. A turn reads the task list,
  waits for the router, and uses what it read; the receive loop handles a
  terminal event, waits until the line before has been cut short, and only
  then drops the task; `stop()` cancels the loop wherever it stands.
* Two `SET`s of the Redis store may be under way at once on different
  connections of the pool and land in either order, or not at all.
* Speech is a queue of LiveKit that the receive loop, the turns and a barge-in
  all work on: a high line first waits for the interruption of what is being
  said, and turns may queue replies meanwhile.
* A job of LiveKit may end at any point of `entrypoint()`, with a callback
  registered or not, a turn in progress or not, and the receive loop runs
  before the session it speaks into does.
* A connection drops with events on their way; the client reconnects, gives
  up, or is closed while it sleeps between two attempts.
* The limiters do arithmetic on time: parts of a token, caps, windows whose
  edges a burst may straddle, and two Redis commands with a gap between them.
* The backend runs one handler and one reader per connection, all sharing the
  task records of the user; a handler waits on a queue nobody may fill.

### What makes each part correct

* *Controller*: the list has no doubles; a reason is kept only for a listed
  task; a finished task never returns; a reply is addressed to a task that is
  alive as far as anybody could know; when the loop has caught up the view is
  the agent's and the stored list names the tasks that are open there; a
  received terminal event is acted on and `stop()` returns.
* *Speech*: each line is said once or given up; the agent is heard in the order
  in which it spoke; a high line comes before what was queued earlier and is
  said in the end; the stack holds the latest mentions, over a stop and a
  resumption too.
* *Voice agent*: the receive loop listens only to a session that was begun and
  that `stop()` has not ended; the two language models cannot be told apart; an
  approval is not mixed with a rejection. That nothing is spoken before
  LiveKit's session runs, that every session is ended, and that nothing is sent
  to one that was, would belong here: the code has ways around each of them
  (section 3, further counterexamples).
* *Client*: nothing that arrived is skipped; every reconnection resumes; it
  gives up after exactly `max_retries + 1` failures in a row; closed means
  closed; an outage ends.
* *Limiters*: a burst is bounded over every window, trying does not prolong a
  refusal, a refusal ends.
* *Backend*: nothing is written before it was asked about and approved, nor
  what the user asked to keep; an approved script ends; a record is terminal only
  after `done`; a resumed task is completed.

## 2. The modules

| module | models | proved in |
|---|---|---|
| `Conversation` | controller, session store, the turns, and (external) transport and agent | `ConversationProofs` |
| `TaskLedger` | what the controller promises about the list of tasks: the abstract specification | `ConversationProofs` |
| `ResilientClient` | `resilient_client.py` over `collectiveos_client.py`; implements `Transport` | `ResilientClientProofs` |
| `Transport` | what the controller may expect of any transport: the abstract specification | `ResilientClientProofs` |
| `Speech` | `speech_composer.py`, `turn_manager.py`, `entity_stack.py`, and (external) LiveKit's queue | `SpeechProofs` |
| `VoiceAgent` | `agent.py`, `config.py`, `llm_provider.py`, `gemini_client.py`, `router.py`, `ack.py`, and what a turn sends | `VoiceAgentProofs` |
| `Latency` | `latency.py`, as operators | `VoiceAgentProofs` |
| `Filter` | a list comprehension with a condition: what the loops over the words of a text and the blocks of an answer pick out | `SequenceLemmas` |
| `TokenBucket` | `InMemoryRateLimiter` | `TokenBucketProofs` |
| `FixedWindow` | `RedisRateLimiter` | `FixedWindowProofs` |
| `MockBackend` | `app.py`, `scenarios.py`, `session.py` | `MockBackendProofs` |
| `SequenceLemmas` | nothing of the code: what proofs about any of the modules need to know of sequences | |
| `MCConversation`, `MCTokenBucket` | symmetry sets for TLC | |
| `MCSpeech`, `MCVoiceAgent` | the texts, utterances and answers of an instance | |

Operators named `...Faulty` stand beside the definition they spoil. They are
plausible mistakes (a forgotten reset, a swapped order) that no specification
uses; each shows that a property notices the mistake when the operator is put
in the place of the definition that follows it.

### Conversation

One step is what a coroutine does between two awaits that suspend. Which
awaits suspend decides the interleavings, so it follows the code: a
high-priority line suspends in `raw_interrupt` (`rx = "speaking"`), a
low-priority line does not; `save` suspends with Redis (`rx = "saving"`, the
save is a member of `writes` until `SaveLands`) and does not with the
in-memory store.

| state | code |
|---|---|
| `phase`, `call` | between `start()` and `stop()`; `_started_at` as the number of the call |
| `task_order`, `waiting` | `_task_order`, `_task_waiting_reason` |
| `rx`, `rx_event` | where `_receive_task` is suspended, and with which event |
| `turn[u]` | a turn in `handle_utterance` that waits for the router, with what the router was told |
| `sent` | the message the last step put on the wire |
| `store`, `writes` | the user's entry, and `SET`s under way |
| `link`, `inbox` | the transport, as `Transport` describes it |
| `status`, `reason`, `intents` | the agent's side (external): tasks it may open, ask about and finish |
| `closed`, `missed` | history: tasks dropped on a terminal event; tasks of which this call did not see every event |

`Start` (with a `load` that may raise) / `Connected` / `ConnectFails` are
`start()`; `Stop`, `CancelLoop` (inside it) and `CloseClient` are `stop()`; `Handle` with `HandleNarration`,
`HandleQuestion`, `HandleTaskUpdate`, `HandleEnding` and `HandleUnknown` is
one round of `_receive_loop`, which `FinishSpeaking` and `SaveLands` end;
`Utter` begins a turn and `AnswerLocally`, `SendIntent`, `SendReply`,
`SendQuery` or `LoseTurn` end it. Texts, ids, clocks and the entity stack are
left out; a turn the limiter refuses changes nothing here and is not a step.

`Faults` switches on what can go wrong: the link drops, the process dies, the
store raises (in `save` or `load`) or speech does (`LowLineFails` for a line
that is queued at once, `SpeakFails` for one that waited), a turn is lost
(`RouterError`, a barge-in), an event of an unknown type arrives, and, with
`"late_save"`, a cancelled `SET` of an earlier call takes effect in the next
one. A call that resumes is reachable through the constructor and the tests (a
store shared by two controllers). `agent.py` starts every job with
`resume=False`, over a store that is Redis when `REDIS_URL` is set and a new one
in memory otherwise; what resumes there is the client, on every reconnection.

`TaskLedger` is what remains of the controller when turns, speech, the
connection and the coroutines are taken away: a list, a saved list and the set
of finished tasks, which change by one task at a time. `ImplementsLedger` maps
`_task_order`, the list of the user's entry and `closed` to them. It holds
over the in-memory store only: with Redis a save may land late, so that what is
saved need not be a list of this moment.

### ResilientClient and Transport

Three coroutines meet: `start()` awaiting `connect()`, the receive loop
iterating, `stop()` closing. `starter` and `loop` say where each stands in
`_connect_with_retry`, whose four outcomes (`Attached`, `WillRetry`,
`RaisesFailed`, `Retries`) both share. `CancelLoop` then `Close` is the order
`ConversationController.stop()` keeps; `Close` at any other time is what the
class allows and its tests do. `CloseUnconnected` is `close()` before there is a
connection: it sets `_closing`, which a `connect()` under way does not look at.
The lengths of the backoff delays are left out.

`Transport` has two variables, whether the link is up and how many events
arrived undelivered. `Link` and `Pending` are the refinement mapping;
`ImplementsTransport` says that an interruption loses only the last events on
their way, and that it is repaired or given up only after the others were
delivered. The network of `Conversation` behaves this way.

### Speech

| state | code |
|---|---|
| `lines`, `unsaid` | history: what was handed to `speak`, and what of it never reached `session.say` |
| `loop`, `held`, `awaited` | the receive loop, the line it will say when `session.interrupt()` returns, and what that waits for |
| `said`, `ended`, `cut` | LiveKit's queue: lines in the order of `say`, how many are over, which were interrupted |
| `undelivered` | `UndeliveredTracker._undelivered` |
| `speaking` | `session.user_state == "speaking"` |
| `mentions`, `saved` | `EntityStack._mentions`, `entity_stack` of the user's entry |

`Receive` is one round of the receive loop as far as speech and stack go
(`observe_agent_speech` before `speak`, the save after it), `InterruptReturns`
the rest of a high line, `Reply` a line of a turn, `Stop` and `Resume` the
controller's. `LineEnds`, `BargeIn` and `UserStateChanges` are LiveKit's. A
text is the sequence of what the regular expressions of `entity_stack.py` find
in it, in the order in which it is spoken; `Noticed` keeps the times and then
the names of it, as the code does. Which capitalised words count as names
(stopwords, the start of a sentence) is given by the label itself: a text may
have labels that are neither.

### VoiceAgent and Latency

| state | code |
|---|---|
| `env` | which keys are set, `LLM_PROVIDER`, `REDIS_URL` |
| `entry`, `job`, `callbacks` | the await at which `entrypoint()` stands, LiveKit's side of the job, `add_shutdown_callback` |
| `stop` | the await at which the callback's `controller.stop()` stands: the save, `SessionEnd`, the closing of the socket; or how it ended |
| `session`, `resumed` | the session with the agent: begun, its link lost, told that it is over, closed; and whether its last `SessionStart` had `resume=True` |
| `loop` | `_receive_task` |
| `tasks`, `listed` | tasks the agent has of the user, whether `current_task_id` is one |
| `turn`, `answer` | the request `llm_node` waits for, the last answer of the model |
| `out` | what the last step said or sent |
| `samples` | one hop of `LatencyAggregator`, in order |

`Wire` to `SessionStarted` are the stretches of `entrypoint()` between two
awaits, `EntryFails` an await that raises. `Shutdown` is the end of the job;
the callback then goes from `StopSaved` (saved, receive loop cancelled) to
`SessionEndSent` and `SocketClosed`, unless Redis refuses the save
(`StopRaises`), which leaves loop and connection as they are; `ProcessExits`
may come before it is through. `LinkDrops`, `Reconnects` and `GivesUp` are the
client under the receive loop. After a reconnection the agent also speaks of
tasks from before this job, for it is told to resume. `Utter`, `Classify`, `Lookup` and
`ModelFails` are a turn, from `llm_node` through the router or the ack model to
what is spoken or sent. An answer is a sequence of tool calls and whether it
has text; `Content` is what `create` of either client makes of it, `Classified`
what the router reads out of that. An utterance is the set of kinds of words in
it, which is all that `_parse_decision` looks at. Percentiles
are hundredths in integers, so that interpolation is exact.

### TokenBucket and FixedWindow

In `TokenBucket` a token costs `Cost` shares and a tick brings `Rate` shares,
so that refills of parts of a token are exact integers. `Refill` is the capped
sum, `Allow` one call. History variables keep an observer's window and the
time of the last admitted call. `FixedWindow` has the two commands of
`RedisRateLimiter.allow` as two actions, `Incr` and `Expire`, with `Abandon`
for a call that ends between them.

### MockBackend

A handler stands at a position of its script (`pos`); `queue`, `reader` and
`line` are its connection; `status` and `opened` are the task records in the
order in which they were created, `task[c]` the record a handler works for. A
text is the set of numbers of the items it names. `kept` is `keep_10am` in
scenario A and `keep` in C; the history variable `wished` collects what
interrupts named where the script listens for them, and `written` what was
acted on. `Listen`, `Window`, `Timeout` are the three ways to
wait on the queue; `Raises` is a send to a user who is gone (which may also
vanish: the other steps stay enabled).

## 3. What is checked

Passing runs (sizes with 2 workers):

| run | instance | properties | states |
|---|---|---|---|
| `conversation_memory` | in-memory store, 2 tasks, 2 calls, crash and drop | types, `OrderedOnce`, `FinishedForgotten`, `RepliesReachLiveTasks`, `ViewMatchesAgent`, and `ImplementsLedger` | 949k, 1 min |
| `conversation_redis` | Redis, 1 task, 2 calls, six kinds of fault, two waiting reasons | `StoreMatchesAgent`, `TerminalEventsAreHandled`, `StopCompletes` | 373k, 1 min |
| `resilient_client` | 2 retries, 3 connections, 2 events each | types, `NothingSkipped`, `ReconnectsResume`, `GivesUpInTime`, `ClosedForGood`, `OutageEnds`, and `ImplementsTransport` | 12k |
| `speech` | 3 lines of 3 texts, stack of 2 mentions | types, `EveryLineAccounted`, `AgentIsHeardInOrder`, `HighLinesPreempt`, `StackIsRecent`, `HighLinesAreSpoken` | 257k, 17 s |
| `voice_agent` | every setting, 2 utterances, 10 answers, 3 samples | types, `ModelsAgree`, `PercentilesInOrder` | 993k, 1 min |
| `token_bucket` | 2 users, capacity 2 tokens of 3 shares, 2 shares a tick, 5 ticks | types, `BurstBounded`, `RefusedOnlyWhenFast` | 161k, 5 s |
| `fixed_window` | 3 calls at once, limit 2, window 3 | types, `AtMostTwice`, `LockoutEnds` | 237 |
| `mock_backend` | 1 connection, 3 items, 4 messages of any kind | types, `WritesAreAgreed`, `WishesAreGranted`, `ApprovedScriptsEnd` | 148k, 12 s |
| `mock_backend_resume` | 3 connections, scenario B | `CompletedAfterDone`, `ResumedTasksComplete` | 25k, 17 s |

Violation runs, each a property the documentation states and the code does
not keep:

| run | trace |
|---|---|
| `conversation_saved` | `stop()` comes while the summary of a `done` waits to be spoken: the finished task is saved as active and the rest of the handler is cancelled; the README of the service says the snapshot tells "which tasks are active" |
| `conversation_current` | a task blocked externally hides an older one that asked the user; the docstring of `current_task_id` says "Whichever task is actually waiting on the user" |
| `conversation_listen` | an event of an unknown type raises inside the iteration and ends the receive loop of a call that goes on; the contract says unknown types are "logged and ignored" |

### Further counterexamples

These configurations each check one formula that does not hold. They are kept
for whoever changes the code near them; they are not part of the regular runs.

| configuration | formula | what happens |
|---|---|---|
| `MCConversationEnded` | `EndedIsFinal` | with Redis, a save of the receive loop that is under way lands after the one of `stop()`; the ended call stays stored as running |
| `MCConversationResume` | `ResumeKeepsWhoIsWaiting` | reasons are not part of the snapshot, so that after resuming an unqualified reply goes to another task, although the README of the service says "which is waiting on the user" is snapshotted |
| `MCConversationLate` | `StoreMatchesAgent` | with `"late_save"`, a `SET` of a call that crashed lands after a save of the next call and takes its list away |
| `MCConversationConfirm` | `ConfirmationsAnswerRequests` | what the router takes for a confirmation goes to a current task that asked nothing |
| `MCSpeechHeard` | `PronounsMeanWhatWasHeard` | lines that were dropped or cut are observed like those that were heard |
| `MCSpeechOrder` | `PronounsMeanTheLastMention` | the names of a line are pushed after its times, whatever was spoken last |
| `MCVoiceAgentLate` | `NoSessionIsLeftOpen` | the callback is registered only when `start()` has returned: a job that ends before leaves the session it then opens without an end |
| `MCVoiceAgentSoon` | `NothingIsSaidTooSoon` | the link drops while `session.start()` is awaited and comes back; the agent, told to resume, reports a task from before; `session.say` raises in the receive loop and ends it |
| `MCVoiceAgentSilent` | `SilentAfterTheEnd` | a turn whose model answers between `SessionEnd` and the closing of the socket still sends |
| `MCVoiceAgentSettings` | `AcceptedSettingsWork` | with `LLM_PROVIDER` the settings are accepted without the key of that provider, and every turn fails |
| `MCVoiceAgentReply` | `OnlyCleanRepliesDecide` | "yes, but keep the 10am" has an approving word and no rejecting one: it is sent as an approval and loses its second half |
| `ResilientClientClosed` | `ClosedAnyway` | `close()` during a reconnection, without a cancelled reader: `_closing` is read only when an inner iteration ends, and the client connects again. The controller is not exposed |
| `FixedWindowAbandoned` | `WindowsEnd` | a call that ends between `INCR` and `EXPIRE` leaves a counter without a time to live; past the limit the user is refused for ever |
| `MockBackendApproval` | `ApprovalsAnswerAQuestion` | an approval sent before the question approves |
| `MockBackendWindow` | `WindowStaysOpen` | any message closes the window held open for an interrupt |
| `MockBackendInFlight` | `OneTaskInFlight` | a user who hangs up and calls again has two tasks in flight, against the comment in `app.py` |
| `MockBackendAnswer` | `ResumeIsAnswered` | a `session_query` with a pending task of A or C gets no answer |
| `MockBackendIntent` | `FirstIntentIsTaken` | the first `new_intent` is ignored when it is not the first message |
| `MockBackendEnd` | `SessionsEnd` | after `session_end` scenario A waits on its queue for ever, and the socket with it |

### Why the bounds are enough

* *Two tasks* are what it takes for one to be current and another to be
  waiting, finished or forgotten; the list operations treat all others alike.
  Redis is checked with one task and every fault, memory with two: the store
  sees only whole snapshots, so what two saves can do to each other needs one
  task. `"late_save"` is left out there: with it `StoreMatchesAgent` does not
  hold. Tasks are interchangeable, and the symmetry is used only where no
  liveness is checked.
* *One event on its way* besides the one being spoken: with both a task has
  up to two unhandled events, which is what makes a terminal event overtake a
  turn. Two calls are one that stops or crashes and one that resumes.
* *One turn at a time*: LiveKit runs one `llm_node` at a time and cancels the
  one before. The model allows more (`Turns`), the proofs hold for any number.
* *Two retries and three connections*: two outages with different numbers of
  failures, and one of them exhausted. Two events distinguish the last from
  the others.
* *Speech*: three lines are one being spoken, one queued and one held, with
  replies in between; two mentions against texts of three make the stack drop
  some; the texts are one that names nothing, one that names two and a time,
  and one that names a time only. A call may stop and resume any number of
  times.
* *Voice agent*: no property of the run is about what a reply decides, so that
  an utterance of two kinds of words and an empty one are enough
  (`DecisionsAreUnmixed` is proved for all, and `MCVoiceAgentReply` has all
  six). The answers have a call for each thing that becomes of a turn, none, and
  one of no use before or after it, each with text or without. Two values and
  three samples give percentiles between and on samples, with an even and an odd
  number of them.
* *Token bucket*: `Rate` does not divide `Cost`, so parts of a token occur; in
  five ticks a bucket empties, refuses, fills past its cap and is drained
  again.
* *Fixed window*: three calls and `MaxCount = 4` are a window filled, one
  refused, and calls of the next window beside them.
* *Mock backend*: intent, interrupt, another answer and an approval are four
  messages; three items are one kept, one that fails and one done; a task that
  two resumed sessions take up needs three connections.
* `CHECK_DEADLOCK FALSE` is given where the system may stop: a user places no
  more calls, a script is over. The two limiters never stop and are checked for
  deadlock.

### Fairness

* `Conversation`: weak fairness of the receive loop, of each save under way
  (by coroutine) and of the closing of the client. asyncio resumes a coroutine
  whose awaited future is done, Redis answers or the client raises, and the
  closing handshake of the websocket library has a timeout. Nothing is assumed
  of users, router, agent or network.
* `ResilientClient`: weak fairness of each coroutine that can go on; an
  attempt to connect succeeds or fails (the library bounds it), a sleep ends.
  Nothing makes attempts succeed, and nothing makes the server send.
* `Speech`: a line that is spoken or was cut ends, and the receive loop goes on
  when the interruption it awaits has returned. `VoiceAgent` assumes none.
* `FixedWindow`: time passes and a call that has counted sends `EXPIRE`
  unless it is cut off.
* `MockBackend`: a handler that can go on does. Users promise nothing: they
  may never answer.

## 4. What is proved

All theorems are for arbitrary sets of tasks and turns, any faults, any
bounds, under the named assumptions on constants in each module (types and
ranges, nothing else), and hold without the fairness. One has a premise of its
own: `StoreCorrect` assumes that no save of an earlier call is still to come
(`"late_save"` is not among the faults).

* **`ConversationProofs`.** `TypeCorrect`, `ListCorrect` (`OrderedOnce`),
  `StrengtheningCorrect`, `FinishedForgottenCorrect`, `RepliesCorrect`,
  `ViewCorrect`, `StoreCorrect`, `KeepsLedger`. For the first five the inductive
  invariant is the types and `OrderedOnce` (`Basics`) with
  `Strengthening`, `FinishedForgotten` and `RepliesReachLiveTasks`. None of
  the last three is inductive alone. That a reply reaches a live task needs
  that every listed task is open, or has its terminal event on its way, or
  lost one (`Accounted`); that in turn needs that a terminal event is the last
  one of its task in the inbox (`TerminalIsLast`), or handling it would leave
  a later event to list the task again; that a finished task stays forgotten
  over calls needs that snapshots, stored or under way, name only tasks the
  agent opened, each once (`OnlyOpened`, `SavedOnce`).
  On this invariant rest `ViewCorrect` (`ViewMatchesAgent`), `StoreCorrect`
  (`StoreMatchesAgent`), `KeepsLedger` (`ImplementsLedger`). For the first,
  an open task is listed or an event that lists it is on its way, and the last
  event on its way that sets a reason sets it to the agent's (`ListFollows`,
  `ReasonFollows`); the line being spoken counts as on its way if it ends its
  task. For the second, a loop that waits has saved the list as it is, or has
  handled nothing yet in this call, and then every open task is one of which an
  event was missed (`NoneHandled`, `NoneHandledStep`); the loop saves one thing
  at a time, and a save under way is of this call (`LoopSaves`, `SavedBefore`).
  That the saved list is the agent's is `ViewMatchesAgent` again. The third maps every step
  over the in-memory store to a step of `TaskLedger` or a stutter; that a
  handled event never notices a finished task is `TerminalIsLast` again.
* **`ResilientClientProofs`.** `ClientTypeCorrect`, `NothingIsSkipped`,
  `GivesUpCorrect`, `ClosedStaysClosed`, `EveryReconnectionResumes`,
  `ClientIsTransport`. The invariant adds `Positions`: the client is always the
  newest connection and every older one is gone, a coroutine inside the retry
  loop counts exactly the failures of this outage, and a cancelled loop never
  runs again. The refinement theorem maps every step to a step of `Transport`
  or to a stutter.
* **`SpeechProofs`.** `HeardInOrder`, `HighLinesComeFirst`, `LinesAreSaidOnce`,
  `EveryLineAccountedProved`, `StackIsRecentProved`, `SpeechTypeOK`. What is said must be told from what is about to be: a
  held line is later than all the agent has said (`HeldIsLast`), and while it
  is held everything queued is cut, replies aside (`HeldIsNext`). That the
  tracker holds what was cut among what has ended (`PlayInv`) needs that a line
  is said only once: a later cut touches the queue, and were a line of the
  queue among those that have ended, it would change what became of that one
  (`CutLater`). That the stack is what the agent named last is not inductive
  alone, for a call may stop and resume: while no loop runs, what is saved must
  be that (`StackInv`). Its step is an induction over the labels of a text
  (`PushedAllIs`): pushing them one by one onto the end of a sequence gives the
  end of the longer sequence, whether the bound cuts something or not
  (`LastOfAppend`).
* **`VoiceAgentProofs`.** `ChosenModelProved`, `DecisionsAreUnmixedProved`,
  `ModelsAgreeProved`, `PercentilesInOrderProved`, `VoiceAgentTypeOK`. The types
  include that the receive loop listens only to a session that is open or whose
  link is lost, which needs that it is gone once `stop()` has got as far as
  `SessionEnd` (`StoppedLoop`); that a decision is sent is the answer to a turn
  (`OnlyTurnsDecide`, `WhatIsSent`), and a turn presupposes a session that runs
  (`LiveFirst`). Two are stated by theorems only: `ChosenModelWorks` that
  settings without `LLM_PROVIDER` choose a model whose key is there,
  `DecisionsAreUnmixed` that neither approval nor rejection passes with a word
  of the other. `ModelsAgreeProved` is about every answer, of any length: text
  in front of the calls is nothing the router keeps (`ShapesAgree`).
  `PercentilesInOrderProved` needs that the samples are sorted (`TypeInv`),
  which recording keeps because what is not larger than a new sample is the
  front part of sorted ones (`KeptOfSorted`, `RecordedIs`), and that interpolation
  between neighbours grows with the position (`InterpolatedInOrder`).
* **`SequenceLemmas`.** What `FlattenSeq` and `Kept` yield for the empty
  sequence, for one element more and for two parts, and of what type it is. The
  library's induction theorems take an operator as a parameter, which the
  provers at hand do not instantiate; here a predicate is the set of what
  satisfies it, and induction over numbers follows from the least element of a
  set (`NaturalsBySteps`), over sequences from that over their lengths
  (`SequencesBySteps`). The steps of a recursion are a function likewise, and
  `RecursionExists` gives the function that follows them, so that what the
  model defines recursively (`PushedAll`, `FlattenSeq`) is known to satisfy its
  equation.
* **`FixedWindowProofs`.** `WindowTypeCorrect`, `TwiceAtMost`. Since an observer
  looks, the key was not dropped and what was let through is in the counter, or
  it was dropped once and outlives the observer's window (`Windows`).
* **`TokenBucketProofs`.** `BucketTypeCorrect`, `BurstIsBounded`,
  `RefusalIsFair`. The two parts of `Accounting` carry the argument: what was
  admitted in a window has been paid for out of the bucket it found and the
  refill since (`Paid`), and since the last admitted call a bucket has gained
  all that time brought or is full (`Gained`). Products of variables are kept
  out of the solver's way by two lemmas on spans of time.
* **`MockBackendProofs`.** `BackendTypeCorrect`, `WritesAgreed`,
  `CompletedCorrect`, `WishesGranted`. The invariant adds `Places`, what is
  settled about a handler that got as far as a position; for the wishes it adds
  that what was wished for is kept, and that C has taken no wish before its
  window.

Only model-checked: every liveness property (`TerminalEventsAreHandled`,
`StopCompletes`, `OutageEnds`, `HighLinesAreSpoken`, `LockoutEnds`,
`ApprovedScriptsEnd`, `ResumedTasksComplete`), since the provers at hand reason
about neither fairness nor `ENABLED`. Every invariant, action property and
refinement that a passing run checks is stated by a theorem.

## 5. What is not modelled

* Prompts, tool schemas, the wording of acknowledgements and logging: data
  without behaviour over time. `RouterError` is not caught by the controller:
  the turn is lost (`LoseTurn`, `ModelFails`).
* Serialisation of the contract: a conversion without state. An event the
  parser refuses is `HandleUnknown`.
* `router_eval.py` is an offline tool that prints a score; the migrations are
  for another repository; schemas and recorded traces are data for the tests.
* `UndeliveredTracker.drain()` has no caller, and the endpointing settings are
  constants handed to LiveKit.
* LiveKit, Redis, the websocket library and the language models are external:
  the models contain what the code relies on and what it must survive.

## 6. What could come next

1. The composition of `Conversation` with `ResilientClient` in place of the
   abstract network, which `ImplementsTransport` now stands for.
2. A ledger that `Conversation` over Redis implements: one whose saves may land
   late, and of which `EndedIsFinal` would be the part that fails.
3. The user's entry shared by two calls at once, which two jobs with one store
   would allow; `agent.py` does not do this today.
4. Proofs of the liveness properties, should the provers support them.
