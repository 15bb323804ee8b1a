----------------------------- MODULE MockBackend -----------------------------
(***************************************************************************)
(* The scripted agent backend (app.py, scenarios.py, session.py) for one   *)
(* user: a handler per WebSocket connection, the coroutine beside it that  *)
(* queues what the user's side sends, and the task records all handlers of *)
(* the user share.                                                         *)
(*                                                                         *)
(* A step is what a handler does between two points at which it reads the  *)
(* queue, waits for the clock, acts on something outside or touches a task *)
(* record; sends in between suspend, and fail or vanish once the user is   *)
(* gone.  What a task acts on (meetings to move, subscriptions to cancel)  *)
(* is a number, and a text is the set of numbers it names.  No connection  *)
(* opens two tasks, so that a task is known by the connection that did.    *)
(***************************************************************************)
EXTENDS Integers, SequencesExt

CONSTANTS
  MaxConns,  \* bound: connections the user opens
  MaxItems,  \* what a task acts on: meetings, or subscriptions
  Ten,       \* the item scenario A lets the user keep ("the 10am")
  Broken,    \* the items scenario C fails on ("ClipCloud")
  Says,      \* kinds of message the user's side sends in this instance
  MaxSaid    \* bound: messages it sends on one connection

Conns == 1..MaxConns
Items == 1..MaxItems

ASSUME ConnsAssumption == MaxConns \in Nat \ {0} /\ MaxSaid \in Nat
ASSUME ItemsAssumption == MaxItems \in Nat \ {0} /\ Ten \in Items /\ Broken \subseteq Items

(* The user's side's events: "a", "b" and "c" are a user_utterance of the  *)
(* class new_intent that matches a scenario, "approve" a                   *)
(* confirmation_response that approves, "other" one that does not and any  *)
(* other utterance, "end" session_end.                                     *)
Scenarios == {"a", "b", "c"}
Kinds == Scenarios \cup {"interrupt", "approve", "query", "other", "end"}

ASSUME SaysAssumption == Says \subseteq Kinds

(* `names` is what an interrupt mentions; `asked`, a history, the number   *)
(* of questions that had been asked when an approval was given.            *)
Event == [kind : Kinds, names : SUBSET Items, asked : Nat]

VARIABLES
  pos,      \* per connection, where its handler stands
  script,   \* per connection, the scenario it runs, "none" before and
            \* "resume" for the second half of B
  task,     \* per connection, the task it works on; pending[0] of a resumed
            \* one, 0 when nothing is pending
  queue,    \* per connection, incoming
  reader,   \* per connection, whether reader() still runs
  line,     \* per connection, whether the user is still there
  said,     \* per connection, number of messages sent on it
  kept,     \* per connection, keep_10am and keep
  handled,  \* per connection, items acted on, with or without success
  opened,   \* STORE: tasks in the order of put_task
  status,   \* STORE: TaskRecord.status, "none" for no record
  asked,    \* history: per connection, questions asked
  approved, \* history: tasks whose approval was taken from the queue
  wished,   \* history: per connection, items named where the script listens
            \* for them: the one A understands at its question, any in the
            \* window of C
  written,  \* history: per task, items that were moved or cancelled
  announced \* history: tasks whose done was sent

handlers == <<pos, script, task, kept, handled>>
wires    == <<queue, reader, line, said>>
records  == <<opened, status>>
history  == <<asked, approved, wished, written, announced>>
vars     == <<handlers, wires, records, history>>

TypeOK ==
  /\ pos \in [Conns -> {"new", "first", "query", "opening", "asking", "listening",
                        "window", "working", "finishing", "settling", "returned",
                        "closed"}]
  /\ script \in [Conns -> Scenarios \cup {"none", "resume"}]
  /\ task \in [Conns -> 0..MaxConns]
  /\ queue \in [Conns -> Seq(Event)]
  /\ reader \in [Conns -> BOOLEAN] /\ line \in [Conns -> BOOLEAN]
  /\ said \in [Conns -> 0..MaxSaid]
  /\ kept \in [Conns -> SUBSET Items] /\ handled \in [Conns -> SUBSET Items]
  /\ opened \in Seq(Conns)
  /\ status \in [Conns -> {"none", "running", "blocked", "completed"}]
  /\ asked \in [Conns -> Nat]
  /\ approved \subseteq Conns /\ announced \subseteq Conns
  /\ wished \in [Conns -> SUBSET Items] /\ written \in [Conns -> SUBSET Items]

Init ==
  /\ pos = [c \in Conns |-> "new"] /\ script = [c \in Conns |-> "none"]
  /\ task = [c \in Conns |-> 0]
  /\ queue = [c \in Conns |-> <<>>]
  /\ reader = [c \in Conns |-> FALSE] /\ line = [c \in Conns |-> TRUE]
  /\ said = [c \in Conns |-> 0]
  /\ kept = [c \in Conns |-> {}] /\ handled = [c \in Conns |-> {}]
  /\ opened = <<>> /\ status = [c \in Conns |-> "none"]
  /\ asked = [c \in Conns |-> 0] /\ approved = {} /\ announced = {}
  /\ wished = [c \in Conns |-> {}] /\ written = [c \in Conns |-> {}]

(* The handler of c goes from one position to another.                     *)
At(c, p)   == pos[c] = p
Goes(c, p) == pos' = [pos EXCEPT ![c] = p]

(* ... and takes the next event from its queue.                            *)
Taken(c) == Head(queue[c])
Takes(c) ==
  /\ queue[c] # <<>>
  /\ queue' = [queue EXCEPT ![c] = Tail(@)]
  /\ UNCHANGED <<reader, line, said>>

-----------------------------------------------------------------------------
(* voice_session: a connection begins and ends.                            *)

(* non_terminal_tasks_for(user): the oldest record that is not terminal.   *)
InFlight == {t \in Conns : status[t] \in {"running", "blocked"}}
FirstPending ==
  LET pending == {i \in 1..Len(opened) : opened[i] \in InFlight}
  IN  IF pending = {} THEN 0 ELSE opened[Min(pending)]

(* session_start arrived.  A resumed session looks its tasks up before it  *)
(* waits for its first message.                                            *)
Accept(c, resume) ==
  /\ At(c, "new") /\ \A d \in Conns : d < c => ~ At(d, "new")
  /\ Goes(c, IF resume THEN "query" ELSE "first")
  /\ task' = [task EXCEPT ![c] = IF resume THEN FirstPending ELSE c]
  /\ reader' = [reader EXCEPT ![c] = TRUE]
  /\ UNCHANGED <<script, kept, handled, queue, line, said, records, history>>

(* The first message is something else, or never comes.                    *)
Reject(c) ==
  /\ At(c, "new") /\ \A d \in Conns : d < c => ~ At(d, "new")
  /\ Goes(c, "closed") /\ line' = [line EXCEPT ![c] = FALSE]
  /\ UNCHANGED <<script, task, kept, handled, queue, reader, said, records, history>>

(* A send to a user who is gone raises, and the script ends there.         *)
Raises(c) ==
  /\ pos[c] \in {"opening", "asking", "window", "working", "finishing"}
  /\ ~ line[c]
  /\ Goes(c, "returned")
  /\ UNCHANGED <<script, task, kept, handled, wires, records, history>>

(* The handler returned: reader() is awaited, then the socket is closed.   *)
Close(c) ==
  /\ At(c, "returned") /\ ~ reader[c]
  /\ Goes(c, "closed")
  /\ line' = [line EXCEPT ![c] = FALSE] /\ queue' = [queue EXCEPT ![c] = <<>>]
  /\ UNCHANGED <<script, task, kept, handled, reader, said, records, history>>

-----------------------------------------------------------------------------
(* The user's side, external, and reader().                                *)

Say(c, kind, names) ==
  /\ reader[c] /\ said[c] < MaxSaid
  /\ said' = [said EXCEPT ![c] = @ + 1]
  /\ queue' = [queue EXCEPT ![c] = Append(@,
       [kind |-> kind, names |-> names,
        asked |-> IF kind = "approve" THEN asked[c] ELSE 0])]
  /\ reader' = [reader EXCEPT ![c] = kind # "end"]
  /\ UNCHANGED <<handlers, line, records, history>>

(* The user hangs up without session_end, or the connection breaks.        *)
Disconnect(c) ==
  /\ line[c] /\ ~ At(c, "new")
  /\ line' = [line EXCEPT ![c] = FALSE] /\ reader' = [reader EXCEPT ![c] = FALSE]
  /\ UNCHANGED <<handlers, queue, said, records, history>>

-----------------------------------------------------------------------------
(* _handle_fresh_session, up to the script.                                *)

First(c) ==
  /\ At(c, "first") /\ Takes(c)
  /\ LET kind == Taken(c).kind
     IN  IF kind \in Scenarios
         THEN /\ script' = [script EXCEPT ![c] = kind]
              /\ opened' = Append(opened, c)
              /\ status' = [status EXCEPT ![c] = IF kind = "b" THEN "blocked"
                                                              ELSE "running"]
              /\ Goes(c, "opening")
         ELSE Goes(c, "returned") /\ UNCHANGED <<script, records>>
  /\ UNCHANGED <<task, kept, handled, history>>

(* _handle_resume, up to the script: only B has a second half.             *)
Query(c) ==
  /\ At(c, "query") /\ Takes(c)
  /\ IF Taken(c).kind = "query" /\ task[c] # 0 /\ script[task[c]] = "b"
     THEN script' = [script EXCEPT ![c] = "resume"] /\ Goes(c, "working")
     ELSE Goes(c, "returned") /\ UNCHANGED script
  /\ UNCHANGED <<task, kept, handled, records, history>>

-----------------------------------------------------------------------------
(* run_scenario_a, run_scenario_b_start, run_scenario_c.                   *)

(* ack, planning, progress; the first half of B ends with them.            *)
Open(c) ==
  /\ At(c, "opening")
  /\ Goes(c, IF script[c] = "b" THEN "returned" ELSE "asking")
  /\ UNCHANGED <<script, task, kept, handled, wires, records, history>>

(* confirmation_request, waiting                                           *)
Ask(c) ==
  /\ At(c, "asking")
  /\ Goes(c, "listening") /\ asked' = [asked EXCEPT ![c] = @ + 1]
  /\ UNCHANGED <<script, task, kept, handled, wires, records, approved, wished,
                 written, announced>>

(* The user's answer is any confirmation_response.                         *)
ApprovesFaulty(e) == e.kind \in {"approve", "other"}

(* confirmation_response with the decision to approve                      *)
Approves(e) == e.kind = "approve"

(* What an event names: nothing unless it is an interrupt.                 *)
Named(e) == IF e.kind = "interrupt" THEN e.names ELSE {}

(* Each answer is judged by itself: one that does not mention the 10am     *)
(* again forgets it.                                                       *)
KeepsFaulty(c, e) == Named(e) \cap {Ten}

(* keep_10am, once an answer to A's question is known.                     *)
Keeps(c, e) == kept[c] \cup (Named(e) \cap {Ten})

(* A asks again after everything but an approval, C goes on listening and  *)
(* throws away what it is told before it is approved.                      *)
Listen(c) ==
  /\ At(c, "listening") /\ Takes(c)
  /\ LET e == Taken(c)
     IN  /\ Goes(c, IF Approves(e) THEN IF script[c] = "a" THEN "working" ELSE "window"
                    ELSE IF script[c] = "a" THEN "asking" ELSE "listening")
         /\ kept' = [kept EXCEPT ![c] = IF script[c] = "a" THEN Keeps(c, e) ELSE @]
         /\ approved' = IF e.kind = "approve" THEN approved \cup {task[c]} ELSE approved
         /\ wished' = [wished EXCEPT ![c] = IF script[c] = "a"
                                            THEN @ \cup (Named(e) \cap {Ten}) ELSE @]
  /\ UNCHANGED <<script, task, handled, records, asked, written, announced>>

(* C holds the batch open for an interrupt: wait_for on the queue.         *)
Window(c) ==
  /\ At(c, "window") /\ Takes(c)
  /\ kept' = [kept EXCEPT ![c] = Named(Taken(c))]
  /\ wished' = [wished EXCEPT ![c] = @ \cup Named(Taken(c))]
  /\ Goes(c, "working")
  /\ UNCHANGED <<script, task, handled, records, asked, approved, written, announced>>

(* The queue is waited on without a timeout.                               *)
TimeoutFaulty(c) == FALSE /\ UNCHANGED vars

Timeout(c) ==
  /\ At(c, "window") /\ queue[c] = <<>>
  /\ Goes(c, "working")
  /\ UNCHANGED <<script, task, kept, handled, wires, records, history>>

(* `if item in keep: continue`                                             *)
ToDo(c) == Items \ (kept[c] \cup handled[c])

(* A moves its meetings at once, C cancels one subscription after another, *)
(* B's second half only reads.                                             *)
Work(c) ==
  LET batch == IF script[c] = "c" THEN {Min(ToDo(c))} ELSE ToDo(c)
  IN  /\ At(c, "working")
      /\ IF script[c] = "resume" \/ ToDo(c) = {}
         THEN Goes(c, "finishing") /\ UNCHANGED <<handled, written>>
         ELSE /\ handled' = [handled EXCEPT ![c] = @ \cup batch]
              /\ written' = [written EXCEPT ![task[c]] =
                   @ \cup (IF script[c] = "c" THEN batch \ Broken ELSE batch)]
              /\ UNCHANGED pos
      /\ UNCHANGED <<script, task, kept, wires, records, asked, approved, wished,
                     announced>>

(* completed, done                                                         *)
Finish(c) ==
  /\ At(c, "finishing")
  /\ Goes(c, "settling") /\ announced' = announced \cup {task[c]}
  /\ UNCHANGED <<script, task, kept, handled, wires, records, asked, approved, wished,
                 written>>

(* The task is settled before its script has run.                          *)
SettleFaulty(c) ==
  /\ pos[c] \in {"working", "settling"} /\ status[task[c]] # "completed"
  /\ status' = [status EXCEPT ![task[c]] = "completed"]
  /\ Goes(c, IF At(c, "settling") THEN "returned" ELSE "working")
  /\ UNCHANGED <<script, task, kept, handled, wires, opened, history>>

(* The record looked up is the one the connection would have opened.       *)
SettleOwnFaulty(c) ==
  /\ At(c, "settling")
  /\ status' = [status EXCEPT ![c] = "completed"] /\ Goes(c, "returned")
  /\ UNCHANGED <<script, task, kept, handled, wires, opened, history>>

(* The record takes the outcome that done announced.                       *)
SettleOutcomeFaulty(c) ==
  /\ At(c, "settling")
  /\ status' = [status EXCEPT ![task[c]] = IF script[c] = "c" /\ Broken # {}
                                           THEN "partial" ELSE "completed"]
  /\ Goes(c, "returned")
  /\ UNCHANGED <<script, task, kept, handled, wires, opened, history>>

(* The script returned: the record becomes terminal.                       *)
Settle(c) ==
  /\ At(c, "settling")
  /\ status' = [status EXCEPT ![task[c]] = "completed"] /\ Goes(c, "returned")
  /\ UNCHANGED <<script, task, kept, handled, wires, opened, history>>

-----------------------------------------------------------------------------
Step(c) ==
  \/ First(c) \/ Query(c) \/ Open(c) \/ Ask(c) \/ Listen(c) \/ Window(c)
  \/ Timeout(c) \/ Work(c) \/ Finish(c) \/ Settle(c) \/ Close(c)

UserStep(c) ==
  \/ \E resume \in BOOLEAN : Accept(c, resume)
  \/ Reject(c) \/ Disconnect(c)
  \/ \E kind \in Says \ {"interrupt"} : Say(c, kind, {})
  \/ "interrupt" \in Says /\ \E names \in SUBSET Items : Say(c, "interrupt", names)

Next == \E c \in Conns : Step(c) \/ Raises(c) \/ UserStep(c)

(* asyncio goes on with every handler that can; users promise nothing.     *)
Fairness == \A c \in Conns : WF_vars(Step(c))

Spec == Init /\ [][Next]_vars /\ Fairness

-----------------------------------------------------------------------------
(* What must hold.                                                         *)

(* Nothing is moved or cancelled before the user was asked about it and an *)
(* approval was taken, whatever else he said, and nothing the script takes *)
(* for kept ever is.                                                       *)
WritesAreAgreed ==
  \A c \in Conns : written[c] # {} =>
     /\ asked[c] > 0 /\ c \in approved
     /\ written[c] \cap kept[c] = {}

(* What the user named where the script listens for it, in an answer to    *)
(* any of A's questions or in C's window, is never moved or cancelled,     *)
(* whatever he or another connection says after it.                        *)
WishesAreGranted == \A c \in Conns : written[c] \cap wished[c] = {}

(* A record is terminal only when done was sent for the task: a resumed    *)
(* session never finds nothing pending while a script is still at work.    *)
CompletedAfterDone == \A t \in Conns : status[t] = "completed" => t \in announced

(* A script that was approved runs to its end without the user, who may    *)
(* hang up, say nothing or say too much.                                   *)
ApprovedScriptsEnd ==
  \A c \in Conns : pos[c] \in {"window", "working"} ~> pos[c] \in {"returned", "closed"}

(* A task that a resumed session takes up is completed, whoever else works *)
(* on it, unless the user leaves.                                          *)
ResumedTasksComplete ==
  \A c, t \in Conns :
    script[c] = "resume" /\ task[c] = t ~> ~ line[c] \/ status[t] = "completed"

(* An approval that is taken was given in reply to a question.             *)
ApprovalsAnswerAQuestion ==
  [][\A c \in Conns : At(c, "listening") /\ pos'[c] \in {"working", "window"} =>
       Taken(c).asked > 0]_vars

(* The window for an interrupt closes on one, or when its time is over.    *)
WindowStaysOpen ==
  [][\A c \in Conns : At(c, "window") /\ pos'[c] = "working" /\ queue[c] # <<>> =>
       Taken(c).kind = "interrupt"]_vars

(* The user has one task in flight at most.                                *)
OneTaskInFlight == Cardinality(InFlight) <= 1

(* A resumed session that asks is told how its pending task stands.        *)
ResumeIsAnswered ==
  [][\A c \in Conns :
       At(c, "query") /\ queue[c] # <<>> /\ Taken(c).kind = "query" /\ task[c] # 0
         => pos'[c] # "returned"]_vars

(* The first new_intent of a session opens its task.                       *)
FirstIntentIsTaken ==
  \A c \in Conns : At(c, "returned") /\ task[c] = c /\ script[c] = "none" =>
     \A i \in 1..Len(queue[c]) : queue[c][i].kind \notin Scenarios

(* A session that was ended by the user ends.                              *)
SessionsEnd ==
  \A c \in Conns : (\E i \in 1..Len(queue[c]) : queue[c][i].kind = "end") ~> At(c, "closed")

-----------------------------------------------------------------------------
(* What the invariants rest on: what is settled about a handler that got   *)
(* as far as a position.                                                   *)
Place(c) ==
  /\ pos[c] \in {"first", "opening", "asking", "listening", "window"} => task[c] = c
  /\ pos[c] = "opening" => script[c] \in Scenarios
  /\ pos[c] \in {"asking", "listening"} => script[c] \in {"a", "c"}
  /\ pos[c] \in {"listening", "window"} => asked[c] > 0
  /\ pos[c] = "window" => script[c] = "c" /\ c \in approved
  /\ pos[c] = "working" =>
       \/ script[c] = "resume" /\ task[c] \in Conns
       \/ task[c] = c /\ script[c] \in {"a", "c"} /\ asked[c] > 0 /\ c \in approved
  /\ pos[c] \in {"finishing", "settling"} => task[c] \in Conns
  /\ pos[c] = "settling" => task[c] \in announced
  /\ pos[c] \in {"new", "first", "query"} => kept[c] = {}
  /\ script[c] = "a" => kept[c] \subseteq {Ten}
  /\ pos[c] \in {"new", "first", "query", "opening", "asking", "listening", "window"} =>
       written[c] = {}

Places == \A c \in Conns : Place(c)

(* What was wished for is kept, and C has taken no wish before its window. *)
WishesAreKept ==
  \A c \in Conns :
     /\ wished[c] \subseteq kept[c]
     /\ script[c] = "c" /\ pos[c] \in {"opening", "asking", "listening", "window"} =>
          wished[c] = {}
=============================================================================
