---------------------------- MODULE Conversation ----------------------------
(***************************************************************************)
(* The ConversationController of the voice service (conversation.py) over  *)
(* the calls one user places: its coroutines (receive loop, user turns,    *)
(* start, stop), the session store they write, and, as the environment,    *)
(* the transport and the agent behind it.                                  *)
(*                                                                         *)
(* A step is what a coroutine does between two awaits that suspend.  A     *)
(* high-priority line suspends while it cuts short what is being said; a   *)
(* low-priority line does not suspend.  Saving suspends with the Redis     *)
(* store and does not with the in-memory one.  Text, clocks, ids and the   *)
(* entity stack are left out.                                              *)
(***************************************************************************)
EXTENDS Integers, SequencesExt

CONSTANTS
  Tasks,      \* ids of the tasks the agent may open for this user
  Turns,      \* user turns that can be in progress at the same time
  NoTask,     \* Python's None where a task id is expected
  NoEvent,    \* the receive loop is not speaking
  NoSnapshot, \* the store has no entry for the user
  StoreKind,  \* "memory" or "redis": the store the service was built with
  Faults,     \* what can go wrong in this instance, a subset of FaultKinds
  Blocks,     \* waiting reasons the agent uses in this instance
  MaxInbox,   \* bound: events on their way from the agent at one time
  MaxCalls    \* bound: calls the user places

(* "late_save": a save whose coroutine or process is gone is still on its  *)
(* way to Redis when the next call starts; without it such a save arrives, *)
(* or is lost, before.                                                     *)
FaultKinds == {"drop", "crash", "store_error", "late_save", "speak_error",
               "lost_turn", "unknown_event"}

ASSUME StoreAssumption == StoreKind \in {"memory", "redis"}
ASSUME FaultAssumption == Faults \subseteq FaultKinds
ASSUME BoundAssumption == MaxInbox \in Nat \ {0} /\ MaxCalls \in Nat \ {0}
ASSUME BlockAssumption == Blocks \subseteq {"user_confirm", "user_clarify", "external"}
ASSUME NoneAssumption  == NoTask \notin Tasks /\ "idle" \notin Tasks \cup {NoTask}

Reasons == Blocks \cup {"none"}

(* What the agent sends, by what the controller does with it: "low" is Ack *)
(* and a Progress or Speak of low priority, "high" one of high priority,   *)
(* "ask" a Confirmation- or ClarificationRequest, "failure" an Error that  *)
(* is not recoverable, "unknown" a type the contract package lacks.        *)
(* `reason` is what the event says the task waits for, if it does.         *)
Kinds == {"low", "high", "ask", "update", "done", "error", "failure", "unknown"}
Event == [kind : Kinds, task : Tasks, reason : Reasons]

(* What a turn puts on the wire.                                           *)
Message == [type : {"nothing", "user_utterance", "interrupt",
                    "confirmation_response", "session_query"},
            task : Tasks \cup {NoTask}]
Untargeted(type) == [type |-> type, task |-> NoTask]
Nothing == Untargeted("nothing")

SessionSnapshot == [call : 1..MaxCalls, active : Seq(Tasks), ended : BOOLEAN]

ASSUME SnapshotAssumption == NoSnapshot \notin SessionSnapshot

VARIABLES
  phase,      \* where the call stands between start() and stop()
  call,       \* number of the call, standing for _started_at
  task_order, \* _task_order
  waiting,    \* _task_waiting_reason, "none" for None and for no entry
  rx,         \* where _receive_task stands
  rx_event,   \* the event whose line the receive loop is speaking
  turn,       \* per user turn: "idle", or the task the router was told of
  sent,       \* message put on the wire by the last step
  store,      \* the user's entry in the session store
  writes,     \* saves under way to the Redis store
  link,       \* the connection to the agent
  inbox,      \* events received or on their way, oldest first
  status,     \* per task, the agent's side of it
  reason,     \* per task, the waiting reason the agent announced last
  intents,    \* intents the agent has received and opened no task for
  closed,     \* history: tasks the controller dropped on a terminal event
  missed      \* history: tasks of which this call did not see every event

controller == <<task_order, waiting>>
loop       == <<rx, rx_event>>
storage    == <<store, writes>>
network    == <<link, inbox>>
agent      == <<status, reason, intents>>
vars == <<phase, call, controller, loop, turn, sent, storage, network, agent,
          closed, missed>>

ControllerType ==
  /\ phase \in {"none", "connecting", "running", "stopping", "closing",
                "stopped", "failed", "aborted"}
  /\ call \in 0..MaxCalls
  /\ phase # "none" => call > 0
  /\ task_order \in Seq(Tasks)
  /\ waiting \in [Tasks -> Reasons]

LoopType ==
  /\ rx \in {"none", "waiting", "speaking", "saving", "dead"}
  /\ phase \in {"none", "connecting", "failed", "closing", "stopped"} => rx = "none"
  /\ IF rx = "speaking" THEN rx_event \in Event ELSE rx_event = NoEvent

TurnType ==
  /\ turn \in [Turns -> Tasks \cup {NoTask, "idle"}]
  /\ sent \in Message

StoreType ==
  /\ store \in SessionSnapshot \cup {NoSnapshot}
  /\ writes \subseteq [by : {"loop", "stop"}, snap : SessionSnapshot]
  /\ StoreKind = "memory" => writes = {}

NetworkType ==
  /\ link \in {"none", "up", "down", "failed"}
  /\ inbox \in Seq(Event)

AgentType ==
  /\ status \in [Tasks -> {"unopened", "open", "over"}]
  /\ reason \in [Tasks -> Reasons]
  /\ intents \in Nat

TypeOK ==
  /\ ControllerType /\ LoopType /\ TurnType /\ StoreType /\ NetworkType /\ AgentType
  /\ closed \subseteq Tasks /\ missed \subseteq Tasks

NoReasons == [t \in Tasks |-> "none"]
AllIdle   == [u \in Turns |-> "idle"]

Init ==
  /\ phase = "none" /\ call = 0
  /\ task_order = <<>> /\ waiting = NoReasons
  /\ rx = "none" /\ rx_event = NoEvent
  /\ turn = AllIdle /\ sent = Nothing
  /\ store = NoSnapshot /\ writes = {}
  /\ link = "none" /\ inbox = <<>>
  /\ status = [t \in Tasks |-> "unopened"] /\ reason = NoReasons /\ intents = 0
  /\ closed = {} /\ missed = {}

-----------------------------------------------------------------------------
(* The task list.  An operator whose name ends in Faulty is no part of the *)
(* specification: it is a mistake the code could have made in the operator *)
(* after it, and some property of this module catches it.                  *)

(* The id stays where it was as well as becoming the last.                 *)
TouchedFaulty(order, t) == Append(order, t)

(* _touch_task: the task becomes the most recently active one.             *)
Touched(order, t) == Append(RemoveFirst(order, t), t)

(* Only the reason is forgotten, the id stays in the list.                 *)
DroppedFaulty(order, t) == order

(* _drop_task, the list                                                    *)
Dropped(order, t) == RemoveFirst(order, t)

(* setdefault where the code assigns: the first reason is never replaced.  *)
AnnouncedFaulty(wait, t, why) ==
  [wait EXCEPT ![t] = IF wait[t] = "none" THEN why ELSE wait[t]]

(* _task_waiting_reason[task_id] = ..., "none" for pop                     *)
Announced(wait, t, why) == [wait EXCEPT ![t] = why]

(* Done, or an Error that is not recoverable: the task is dropped.         *)
EndsTask(e) == e.kind \in {"done", "failure"}

(* current_task_id: the last task in the order with a waiting reason, else *)
(* the last task.                                                          *)
CurrentTask(order, wait) ==
  LET blocked == {i \in 1..Len(order) : wait[order[i]] # "none"}
  IN  IF blocked # {} THEN order[Max(blocked)]
      ELSE IF order # <<>> THEN Last(order) ELSE NoTask

(* The list is copied when the handler starts, before it drops the task.   *)
SnapshotFaulty(order, ended) ==
  [call |-> call, active |-> task_order, ended |-> ended]

(* The SessionSnapshot _persist_session builds.                            *)
Snapshot(order, ended) == [call |-> call, active |-> order, ended |-> ended]

(* start() touches the saved ids one by one, first to last; no id is saved *)
(* twice, so that each is appended.                                        *)
Restored(snap) == snap.active

-----------------------------------------------------------------------------
(* A call begins.  Controller and transport are new objects; a store that  *)
(* survived the previous call is read if the call resumes, and start()     *)
(* raises when Redis does not give it.                                     *)

Start(resume) ==
  /\ phase \in {"none", "stopped", "failed"} /\ call < MaxCalls
  /\ "late_save" \notin Faults => writes = {}
  /\ call' = call + 1
  /\ \/ /\ phase' = "connecting"
        /\ task_order' = IF resume /\ store # NoSnapshot THEN Restored(store) ELSE <<>>
     \/ /\ resume /\ StoreKind = "redis" /\ "store_error" \in Faults
        /\ phase' = "failed" /\ task_order' = <<>>
  /\ waiting' = NoReasons
  /\ rx' = "none" /\ rx_event' = NoEvent
  /\ turn' = AllIdle /\ sent' = Nothing
  /\ link' = "none" /\ inbox' = <<>>
  /\ missed' = {t \in Tasks : status[t] # "unopened"}
  /\ UNCHANGED <<storage, agent, closed>>

(* connect() returned: the receive task is created and the session begins. *)
Connected ==
  /\ phase = "connecting"
  /\ phase' = "running" /\ link' = "up" /\ rx' = "waiting" /\ sent' = Nothing
  /\ UNCHANGED <<call, controller, rx_event, turn, storage, inbox, agent,
                 closed, missed>>

(* connect() ran out of retries: start() raises.                           *)
ConnectFails ==
  /\ "drop" \in Faults
  /\ phase = "connecting"
  /\ phase' = "failed" /\ link' = "failed" /\ sent' = Nothing
  /\ UNCHANGED <<call, controller, loop, turn, storage, inbox, agent, closed,
                 missed>>

-----------------------------------------------------------------------------
(* The receive loop: an event is handled and the session saved before the  *)
(* next one is read.                                                       *)

(* The save at the end of _handle_agent_event.                             *)
Persist ==
  LET snap == Snapshot(task_order', FALSE)
  IN  /\ rx_event' = NoEvent
      /\ IF StoreKind = "memory"
         THEN rx' = "waiting" /\ store' = snap /\ UNCHANGED writes
         ELSE /\ rx' = "saving" /\ UNCHANGED store
              /\ writes' = writes \cup {[by |-> "loop", snap |-> snap]}

(* A high line first awaits the interruption of what is being said.        *)
AwaitInterrupt(e) == rx' = "speaking" /\ rx_event' = e /\ UNCHANGED storage

(* session.say() raises for a low line: the receive task ends unsaved.     *)
LowLineFails ==
  "speak_error" \in Faults /\ rx' = "dead" /\ UNCHANGED <<rx_event, storage>>

(* Ack, Progress, Speak                                                    *)
HandleNarration(e) ==
  /\ e.kind \in {"low", "high"}
  /\ task_order' = Touched(task_order, e.task)
  /\ IF e.kind = "high" THEN AwaitInterrupt(e) ELSE Persist \/ LowLineFails
  /\ UNCHANGED waiting

(* ConfirmationRequest, ClarificationRequest: the reason is set before the *)
(* question has been spoken.                                               *)
HandleQuestion(e) ==
  /\ e.kind = "ask"
  /\ task_order' = Touched(task_order, e.task)
  /\ waiting' = Announced(waiting, e.task, e.reason)
  /\ AwaitInterrupt(e)

(* TaskUpdate                                                              *)
HandleTaskUpdate(e) ==
  /\ e.kind = "update"
  /\ task_order' = Touched(task_order, e.task)
  /\ waiting' = Announced(waiting, e.task, e.reason)
  /\ Persist

(* Done and Error, up to their line: the task is dropped after it.         *)
HandleEnding(e) ==
  /\ e.kind \in {"done", "error", "failure"}
  /\ AwaitInterrupt(e)
  /\ UNCHANGED controller

(* The event fails to parse inside the iteration: the receive task ends.   *)
HandleUnknown(e) ==
  /\ e.kind = "unknown"
  /\ rx' = "dead"
  /\ UNCHANGED <<controller, rx_event, storage>>

Handle ==
  /\ rx = "waiting" /\ inbox # <<>>
  /\ inbox' = Tail(inbox) /\ sent' = Nothing
  /\ LET e == Head(inbox)
     IN  \/ HandleNarration(e) \/ HandleQuestion(e) \/ HandleTaskUpdate(e)
         \/ HandleEnding(e) \/ HandleUnknown(e)
  /\ UNCHANGED <<phase, call, turn, link, agent, closed, missed>>

(* The high line is out: the rest of the handler.                          *)
FinishSpeaking ==
  /\ rx = "speaking"
  /\ IF EndsTask(rx_event)
     THEN /\ task_order' = Dropped(task_order, rx_event.task)
          /\ waiting' = Announced(waiting, rx_event.task, "none")
          /\ closed' = closed \cup {rx_event.task}
     ELSE UNCHANGED <<controller, closed>>
  /\ Persist
  /\ sent' = Nothing
  /\ UNCHANGED <<phase, call, turn, network, agent, missed>>

(* The interruption or the high line raises: the event is lost and the     *)
(* receive task ends.                                                      *)
SpeakFails ==
  /\ "speak_error" \in Faults
  /\ rx = "speaking"
  /\ rx' = "dead" /\ rx_event' = NoEvent /\ sent' = Nothing
  /\ missed' = missed \cup {rx_event.task}
  /\ UNCHANGED <<phase, call, controller, turn, storage, network, agent, closed>>

-----------------------------------------------------------------------------
(* stop(): save, cancel the receive task, close the connection.  With the  *)
(* in-memory store saving and cancelling are one step; with Redis the loop *)
(* and the turns run on while the save is under way.                       *)

(* The receive task is left to end by itself.                              *)
CancelLoopFaulty == UNCHANGED <<loop, missed>>

(* cancel(): a line that was waiting to be spoken, and what its handler    *)
(* was to do after it, never happen.                                       *)
CancelLoop ==
  /\ rx' = "none" /\ rx_event' = NoEvent
  /\ missed' = missed \cup (IF rx = "speaking" THEN {rx_event.task} ELSE {})

Stop ==
  /\ phase = "running"
  /\ LET snap == Snapshot(task_order, TRUE)
     IN  IF StoreKind = "memory"
         THEN /\ store' = snap /\ UNCHANGED writes
              /\ phase' = "closing" /\ CancelLoop
         ELSE /\ writes' = writes \cup {[by |-> "stop", snap |-> snap]}
              /\ phase' = "stopping" /\ UNCHANGED <<store, loop, missed>>
  /\ sent' = Nothing
  /\ UNCHANGED <<call, controller, turn, network, agent, closed>>

(* The coroutine that began the save is still waiting for it.              *)
Awaited(w) ==
  /\ w.snap.call = call
  /\ IF w.by = "loop" THEN rx = "saving" ELSE phase = "stopping"

(* A save takes effect in Redis and the coroutine that awaits it goes on.  *)
(* Concurrent commands use connections of their own, so that any order is  *)
(* possible, and one whose coroutine was cancelled may still arrive.       *)
SaveLands(w) ==
  /\ store' = w.snap /\ writes' = writes \ {w} /\ sent' = Nothing
  /\ IF Awaited(w) /\ w.by = "stop"
     THEN phase' = "closing" /\ CancelLoop
     ELSE /\ rx' = IF Awaited(w) THEN "waiting" ELSE rx
          /\ UNCHANGED <<phase, rx_event, missed>>
  /\ UNCHANGED <<call, controller, turn, network, agent, closed>>

(* ... or it was cancelled before it left.                                 *)
SaveVanishes(w) ==
  /\ ~ Awaited(w)
  /\ writes' = writes \ {w} /\ sent' = Nothing
  /\ UNCHANGED <<phase, call, controller, loop, turn, store, network, agent,
                 closed, missed>>

(* Redis refuses: the receive task ends, or stop() raises before it        *)
(* cancels and closes anything.                                            *)
SaveFails(w) ==
  /\ "store_error" \in Faults /\ Awaited(w)
  /\ IF w.by = "loop" THEN rx' = "dead" /\ UNCHANGED phase
                      ELSE phase' = "aborted" /\ UNCHANGED rx
  /\ writes' = writes \ {w} /\ sent' = Nothing
  /\ UNCHANGED <<call, controller, rx_event, turn, store, network, agent,
                 closed, missed>>

(* What was received is read first, by a loop that is cancelled.           *)
CloseClientFaulty ==
  /\ phase = "closing" /\ inbox = <<>>
  /\ phase' = "stopped" /\ link' = "none" /\ sent' = Nothing
  /\ UNCHANGED <<call, controller, loop, turn, storage, inbox, agent, closed,
                 missed>>

(* The receive task has ended and client.close() returns; what was left to *)
(* read is never read.                                                     *)
CloseClient ==
  /\ phase = "closing"
  /\ phase' = "stopped" /\ link' = "none" /\ inbox' = <<>> /\ sent' = Nothing
  /\ missed' = missed \cup {inbox[i].task : i \in 1..Len(inbox)}
  /\ UNCHANGED <<call, controller, loop, turn, storage, agent, closed>>

(* The process dies, and an in-memory store with it.                       *)
Crash ==
  /\ "crash" \in Faults
  /\ phase # "none"
  /\ phase' = "none" /\ task_order' = <<>> /\ waiting' = NoReasons
  /\ rx' = "none" /\ rx_event' = NoEvent /\ turn' = AllIdle /\ sent' = Nothing
  /\ store' = IF StoreKind = "memory" THEN NoSnapshot ELSE store
  /\ link' = "none" /\ inbox' = <<>>
  /\ UNCHANGED <<call, writes, agent, closed, missed>>

-----------------------------------------------------------------------------
(* User turns: handle_utterance.  An utterance that the rate limiter       *)
(* refuses changes nothing here.                                           *)

(* The limiter lets it through; the router is asked, and told whether a    *)
(* task is in flight.                                                      *)
Utter(u) ==
  /\ phase \in {"running", "stopping", "aborted"}
  /\ turn[u] = "idle"
  /\ turn' = [turn EXCEPT ![u] = CurrentTask(task_order, waiting)]
  /\ sent' = Nothing
  /\ UNCHANGED <<phase, call, controller, loop, storage, network, agent, closed,
                 missed>>

(* The turn ends.  A send over a dead connection raises and is not retried.*)
EndTurn(u, message) ==
  /\ turn[u] # "idle"
  /\ turn' = [turn EXCEPT ![u] = "idle"]
  /\ sent' = IF link = "up" THEN message ELSE Nothing
  /\ UNCHANGED <<phase, call, controller, loop, storage, network, status,
                 reason, closed, missed>>

(* small_talk, simple_lookup: answered without the agent.                  *)
AnswerLocally(u) == EndTurn(u, Nothing) /\ UNCHANGED intents

(* new_intent                                                              *)
SendIntent(u) ==
  /\ EndTurn(u, Untargeted("user_utterance"))
  /\ intents' = IF link = "up" /\ intents < Cardinality(Tasks)
                THEN intents + 1 ELSE intents

(* The target is the task the router was told of.                          *)
SendReplyFaulty(u, type) ==
  /\ EndTurn(u, IF turn[u] = NoTask THEN Nothing
                ELSE [type |-> type, task |-> turn[u]])
  /\ UNCHANGED intents

(* modify_inflight, confirmation_reply: the target is read again after the *)
(* router answered; without one the utterance is dropped.                  *)
SendReply(u, type) ==
  LET target == CurrentTask(task_order, waiting)
  IN  /\ EndTurn(u, IF target = NoTask THEN Nothing
                    ELSE [type |-> type, task |-> target])
      /\ UNCHANGED intents

(* session_query                                                           *)
SendQuery(u) == EndTurn(u, Untargeted("session_query")) /\ UNCHANGED intents

(* RouterError, an error of the language model, or a barge-in that cancels *)
(* the turn: the utterance goes nowhere.                                   *)
LoseTurn(u) ==
  "lost_turn" \in Faults /\ EndTurn(u, Nothing) /\ UNCHANGED intents

-----------------------------------------------------------------------------
(* The transport as the controller sees it.  A drop loses the last events  *)
(* on their way; those before them are read before the loop reconnects.    *)

LinkDrops ==
  /\ "drop" \in Faults
  /\ link = "up"
  /\ link' = "down" /\ sent' = Nothing
  /\ \E k \in 0..Len(inbox) :
        /\ inbox' = SubSeq(inbox, 1, k)
        /\ missed' = missed \cup {inbox[i].task : i \in (k + 1)..Len(inbox)}
  /\ UNCHANGED <<phase, call, controller, loop, turn, storage, agent, closed>>

Reconnecting == link = "down" /\ rx = "waiting" /\ inbox = <<>>

Reconnected ==
  /\ Reconnecting
  /\ link' = "up" /\ sent' = Nothing
  /\ UNCHANGED <<phase, call, controller, loop, turn, storage, inbox, agent,
                 closed, missed>>

(* Retries exhausted: the iteration ends and with it the receive task.     *)
GivesUp ==
  /\ Reconnecting
  /\ link' = "failed" /\ rx' = "dead" /\ sent' = Nothing
  /\ UNCHANGED <<phase, call, controller, rx_event, turn, storage, inbox, agent,
                 closed, missed>>

-----------------------------------------------------------------------------
(* The agent, external: it works on open tasks whether or not the user is  *)
(* on a call, and what it says while no connection is up is not delivered. *)
(* The last event about a task is its terminal one.                        *)

AgentEmits(e) ==
  /\ IF link = "up"
     THEN /\ Len(inbox) < MaxInbox
          /\ inbox' = Append(inbox, e) /\ UNCHANGED missed
     ELSE missed' = missed \cup {e.task} /\ UNCHANGED inbox
  /\ reason' = [reason EXCEPT ![e.task] = e.reason]
  /\ sent' = Nothing
  /\ UNCHANGED <<phase, call, controller, loop, turn, storage, link, closed>>

AgentOpens(t) ==
  /\ intents > 0 /\ link = "up" /\ status[t] = "unopened"
  /\ status' = [status EXCEPT ![t] = "open"] /\ intents' = intents - 1
  /\ AgentEmits([kind |-> "low", task |-> t, reason |-> "none"])

(* Only a question and a TaskUpdate change what the task waits for.        *)
AgentSays(t, kind, why) ==
  /\ status[t] = "open"
  /\ kind = "unknown" => "unknown_event" \in Faults
  /\ CASE kind = "ask"    -> why \in {"user_confirm", "user_clarify"}
       [] kind = "update" -> TRUE
       [] OTHER           -> why = reason[t]
  /\ AgentEmits([kind |-> kind, task |-> t, reason |-> why])
  /\ UNCHANGED <<status, intents>>

AgentFinishes(t, kind) ==
  /\ status[t] = "open"
  /\ status' = [status EXCEPT ![t] = "over"]
  /\ AgentEmits([kind |-> kind, task |-> t, reason |-> "none"])
  /\ UNCHANGED intents

-----------------------------------------------------------------------------
ControllerNext ==
  \/ \E resume \in BOOLEAN : Start(resume)
  \/ Connected \/ ConnectFails
  \/ Handle \/ FinishSpeaking \/ SpeakFails
  \/ Stop \/ CloseClient \/ Crash
  \/ \E w \in writes : SaveLands(w) \/ SaveVanishes(w) \/ SaveFails(w)

TurnNext ==
  \E u \in Turns :
     \/ Utter(u) \/ AnswerLocally(u) \/ SendIntent(u) \/ SendQuery(u)
     \/ \E type \in {"interrupt", "confirmation_response"} : SendReply(u, type)
     \/ LoseTurn(u)

EnvironmentNext ==
  \/ LinkDrops \/ Reconnected \/ GivesUp
  \/ \E t \in Tasks :
        \/ AgentOpens(t)
        \/ \E kind \in {"low", "high", "ask", "update", "error", "unknown"},
              why \in Reasons : AgentSays(t, kind, why)
        \/ \E kind \in {"done", "failure"} : AgentFinishes(t, kind)

Next == ControllerNext \/ TurnNext \/ EnvironmentNext

(* asyncio resumes every coroutine whose await is over: the loop takes the *)
(* next event and ends the line it is speaking, Redis answers each of its  *)
(* two writers, and closing completes.  Nothing else is promised: users,   *)
(* agent and network act when they like.                                   *)
Fairness ==
  /\ WF_vars(Handle) /\ WF_vars(FinishSpeaking)
  /\ WF_vars(\E w \in writes : w.by = "loop" /\ Awaited(w) /\ SaveLands(w))
  /\ WF_vars(\E w \in writes : w.by = "stop" /\ Awaited(w) /\ SaveLands(w))
  /\ WF_vars(CloseClient)

Spec == Init /\ [][Next]_vars /\ Fairness

-----------------------------------------------------------------------------
(* What must hold.                                                         *)

(* The task list never names a task twice (remove() would leave a copy     *)
(* behind), and a waiting reason is kept only for a listed task (one left  *)
(* behind would outlive _drop_task).                                       *)
OrderedOnce ==
  /\ IsInjective(task_order)
  /\ \A t \in Tasks : waiting[t] # "none" => t \in Range(task_order)

(* With the in-memory store a task dropped on its terminal event is gone   *)
(* for good: no later event, save, stop or resumed call brings it back     *)
(* into the task list or the saved session.                                *)
FinishedForgotten ==
  StoreKind = "memory" =>
    /\ closed \cap Range(task_order) = {}
    /\ store # NoSnapshot => closed \cap Range(store.active) = {}

(* The terminal event of t has arrived and its handler is not through.     *)
TerminalPending(t) ==
  \/ \E i \in 1..Len(inbox) : EndsTask(inbox[i]) /\ inbox[i].task = t
  \/ rx = "speaking" /\ EndsTask(rx_event) /\ rx_event.task = t

(* An interrupt or a confirmation is never addressed to a task that is     *)
(* over, unless the event that says so has not been handled yet or was     *)
(* lost: the router's answer may take as long as it likes, and tasks may   *)
(* come and go meanwhile.                                                  *)
RepliesReachLiveTasks ==
  sent.task # NoTask =>
    \/ status[sent.task] = "open"
    \/ sent.task \in missed
    \/ TerminalPending(sent.task)

(* When the receive loop has caught up, the controller's tasks and waiting *)
(* reasons are those the agent announced, for every task of which no event *)
(* was lost.                                                               *)
ViewMatchesAgent ==
  phase = "running" /\ rx = "waiting" /\ inbox = <<>> =>
    \A t \in Tasks \ missed :
       /\ t \in Range(task_order) <=> status[t] = "open"
       /\ waiting[t] = reason[t]

(* Which tasks a call that resumes after a crash finds: whenever the       *)
(* receive loop has caught up, the stored list names exactly the tasks     *)
(* that are open at the agent, of those of which this call lost no event.  *)
(* What they wait for is not stored, and no part of this: see              *)
(* ResumeKeepsWhoIsWaiting.                                                *)
StoreMatchesAgent ==
  phase = "running" /\ rx = "waiting" /\ inbox = <<>> =>
    \A t \in Tasks \ missed :
       status[t] = "open" <=> store # NoSnapshot /\ t \in Range(store.active)

(* What stop() saves as active is what is active: a task it saves is open  *)
(* or its terminal event has not been received.                            *)
SavesActiveTasksOnly ==
  phase = "closing" =>
    \A t \in Range(store.active) :
       \/ status[t] = "open"
       \/ \E i \in 1..Len(inbox) : EndsTask(inbox[i]) /\ inbox[i].task = t

(* Once stop() has returned, the saved session says that the call ended.   *)
EndedIsFinal ==
  phase = "stopped" =>
    store # NoSnapshot /\ store.call = call /\ store.ended

(* After a stop and a resumption an unqualified reply has the target it    *)
(* had before.                                                             *)
ResumeKeepsWhoIsWaiting ==
  [][phase = "stopped" /\ phase' = "connecting" /\ task_order' # <<>>
     => CurrentTask(task_order', waiting') = CurrentTask(task_order, waiting)]_vars

(* current_task_id is a task that waits for the user if there is one.      *)
CurrentTaskWaitsOnUser ==
  (\E t \in Tasks : waiting[t] \in {"user_confirm", "user_clarify"}) =>
    waiting[CurrentTask(task_order, waiting)] \in {"user_confirm", "user_clarify"}

(* A confirmation_response is the reply to a confirmation_request.         *)
ConfirmationsAnswerRequests ==
  sent.type = "confirmation_response" => waiting[sent.task] = "user_confirm"

(* The receive loop of a running call is alive while the connection is.    *)
KeepsListening == phase = "running" /\ link = "up" => rx # "dead"

(* A terminal event that arrived is acted on: the task leaves the list,    *)
(* unless the call ends, the event is lost, or the receive loop with it.   *)
TerminalEventsAreHandled ==
  \A t \in Tasks :
    phase = "running" /\ TerminalPending(t)
      ~> \/ t \notin Range(task_order) \/ t \in missed
         \/ phase # "running" \/ rx = "dead"

(* stop() returns, whatever the receive loop is doing, or raises because   *)
(* the store failed; it never waits for ever.                              *)
StopCompletes ==
  phase = "stopping" ~> phase \in {"stopped", "none", "aborted"}

(* What the ledger calls saved: the list of the user's entry.              *)
SavedList == IF store = NoSnapshot THEN {} ELSE {store.active}

Ledger == INSTANCE TaskLedger WITH
  listed <- task_order, saved <- SavedList, finished <- closed

(* Over the in-memory store the controller keeps the ledger of tasks,      *)
(* which knows no coroutines: whatever interleaves, it changes by one      *)
(* task at a time, what is saved was the list of that moment, a resumed    *)
(* call begins with what was saved, and what is finished stays out of it.  *)
ImplementsLedger == Ledger!Spec

-----------------------------------------------------------------------------
(* What the invariants above rest on: they are not preserved by every step *)
(* from every state that satisfies them, only together with these.         *)

Snapshots == ({store} \ {NoSnapshot}) \cup {w.snap : w \in writes}

(* A list that a resumed call may start from has no duplicates.            *)
SavedOnce == \A snap \in Snapshots : IsInjective(snap.active)

(* Only tasks the agent opened are listed, saved or spoken of.             *)
OnlyOpened ==
  /\ \A t \in Range(task_order) : status[t] # "unopened"
  /\ \A snap \in Snapshots : \A t \in Range(snap.active) : status[t] # "unopened"
  /\ \A i \in 1..Len(inbox) : status[inbox[i].task] # "unopened"

(* A task that is listed, or about to be, is open, or its terminal event   *)
(* is still to be handled, or something about it was lost.                 *)
Accounted ==
  /\ \A t \in Range(task_order) :
        status[t] = "open" \/ t \in missed \/ TerminalPending(t)
  /\ \A i \in 1..Len(inbox) :
        \/ status[inbox[i].task] = "open"
        \/ inbox[i].task \in missed
        \/ \E j \in i..Len(inbox) :
              EndsTask(inbox[j]) /\ inbox[j].task = inbox[i].task

(* The terminal event of a task is the last one about it.                  *)
TerminalIsLast ==
  /\ \A t \in closed : status[t] = "over"
  /\ \A i \in 1..Len(inbox) :
        /\ inbox[i].task \notin closed
        /\ EndsTask(inbox[i]) =>
             /\ status[inbox[i].task] = "over"
             /\ \A j \in (i + 1)..Len(inbox) : inbox[j].task # inbox[i].task
  /\ rx = "speaking" /\ EndsTask(rx_event) =>
       /\ status[rx_event.task] = "over"
       /\ \A i \in 1..Len(inbox) : inbox[i].task # rx_event.task

Strengthening == SavedOnce /\ OnlyOpened /\ Accounted /\ TerminalIsLast
=============================================================================
