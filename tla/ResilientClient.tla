--------------------------- MODULE ResilientClient ---------------------------
(***************************************************************************)
(* ReconnectingCollectiveOSClient (resilient_client.py) over the websocket *)
(* client it wraps (collectiveos_client.py): connect() with its retries,   *)
(* the iteration that reconnects when the connection drops, and close().   *)
(*                                                                         *)
(* Three coroutines meet here: start(), which awaits connect(); the        *)
(* receive loop, which iterates; stop(), which closes.  A step is what one *)
(* of them does between two awaits.  Lengths of the backoff delays are     *)
(* left out: a sleep ends some time.                                       *)
(***************************************************************************)
EXTENDS Integers, FiniteSets

CONSTANTS
  MaxRetries,     \* max_retries
  MaxConnections, \* bound: connections that are ever established
  MaxEvents       \* bound: events the server sends on one connection

ASSUME RetriesAssumption == MaxRetries \in Nat
ASSUME LimitsAssumption  == MaxConnections \in Nat \ {0} /\ MaxEvents \in Nat

Connections == 1..MaxConnections

VARIABLES
  state,    \* state
  client,   \* _client: a connection, 0 for None
  closing,  \* _closing
  attempt,  \* attempt, of the _connect_with_retry under way or the last one
  resuming, \* resume, its argument
  starter,  \* connect() as called by start()
  loop,     \* the iteration as the receive loop awaits it
  closer,   \* close()
  made,     \* connections established so far
  status,   \* per connection: "free", "open", "dropped", "closed"
  hello,    \* per connection: resume as the SessionStart on it said
  reached,  \* per connection: events that arrived or will
  read,     \* per connection: events the iteration has yielded
  losses    \* history: attempts that failed since the client was connected

wrapper == <<state, client, closing, attempt, resuming, losses>>
tasks   == <<starter, loop, closer>>
sockets == <<made, status, hello>>
events  == <<reached, read>>
vars    == <<wrapper, tasks, sockets, events>>

(* Where a coroutine stands inside _connect_with_retry.                    *)
Retrying == {"opening", "sleeping"}

TypeOK ==
  /\ state \in {"pending", "connecting", "connected", "reconnecting", "failed", "idle"}
  /\ client \in 0..made /\ closing \in BOOLEAN
  /\ attempt \in 0..(MaxRetries + 1) /\ resuming \in BOOLEAN
  /\ starter \in {"none", "returned", "raised"} \cup Retrying
  /\ loop \in {"none", "reading", "ended", "cancelled"} \cup Retrying
  /\ closer \in {"none", "called", "ending", "done"}
  /\ made \in 0..MaxConnections
  /\ status \in [Connections -> {"free", "open", "dropped", "closed"}]
  /\ hello \in [Connections -> BOOLEAN]
  /\ reached \in [Connections -> 0..MaxEvents]
  /\ read \in [Connections -> 0..MaxEvents]
  /\ losses \in Nat

Init ==
  /\ state = "pending" /\ client = 0 /\ closing = FALSE
  /\ attempt = 0 /\ resuming = FALSE
  /\ starter = "none" /\ loop = "none" /\ closer = "none"
  /\ made = 0 /\ status = [c \in Connections |-> "free"]
  /\ hello = [c \in Connections |-> FALSE]
  /\ reached = [c \in Connections |-> 0] /\ read = [c \in Connections |-> 0]
  /\ losses = 0

-----------------------------------------------------------------------------
(* _connect_with_retry, run by connect() or by the iteration.              *)

(* The count of failures is kept from one outage to the next.              *)
BeginRetryFaulty(resume) ==
  state' = "connecting" /\ resuming' = resume /\ UNCHANGED attempt

(* Its first lines; the caller goes on to the position "opening".          *)
BeginRetry(resume) ==
  state' = "connecting" /\ attempt' = 0 /\ resuming' = resume

(* One attempt more than max_retries allows.                               *)
GivesUpAtFaulty(n) == n > MaxRetries + 1

GivesUpAt(n) == n > MaxRetries

(* The attempt succeeded: connection and SessionStart went through.        *)
Attached ==
  /\ made < MaxConnections
  /\ made' = made + 1
  /\ status' = [status EXCEPT ![made + 1] = "open"]
  /\ hello' = [hello EXCEPT ![made + 1] = resuming]
  /\ client' = made + 1 /\ state' = "connected" /\ losses' = 0
  /\ UNCHANGED <<closing, attempt, resuming, events>>

(* The failure is not counted.                                             *)
WillRetryFaulty ==
  /\ ~ GivesUpAt(attempt + 1)
  /\ state' = "reconnecting"
  /\ UNCHANGED <<client, closing, attempt, resuming, sockets, events, losses>>

(* It raised one of _RETRYABLE_ERRORS and another one will be made.        *)
WillRetry ==
  /\ ~ GivesUpAt(attempt + 1)
  /\ attempt' = attempt + 1 /\ losses' = losses + 1 /\ state' = "reconnecting"
  /\ UNCHANGED <<client, closing, resuming, sockets, events>>

(* It raised and was the last one.                                         *)
RaisesFailed ==
  /\ GivesUpAt(attempt + 1)
  /\ attempt' = attempt + 1 /\ losses' = losses + 1 /\ state' = "failed"
  /\ UNCHANGED <<client, closing, resuming, sockets, events>>

(* The sleep between two attempts is over.                                 *)
Retries ==
  /\ state' = "connecting"
  /\ UNCHANGED <<client, closing, attempt, resuming, sockets, events, losses>>

-----------------------------------------------------------------------------
(* connect(), called once by start().                                      *)

Connect(resume) ==
  /\ starter = "none" /\ closer = "none"
  /\ closing' = FALSE /\ BeginRetry(resume) /\ starter' = "opening"
  /\ UNCHANGED <<client, loop, closer, sockets, events, losses>>

ConnectStep ==
  /\ \/ starter = "opening" /\ Attached     /\ starter' = "returned"
     \/ starter = "opening" /\ WillRetry    /\ starter' = "sleeping"
     \/ starter = "opening" /\ RaisesFailed /\ starter' = "raised"
     \/ starter = "sleeping" /\ Retries     /\ starter' = "opening"
  /\ UNCHANGED <<loop, closer>>

-----------------------------------------------------------------------------
(* __aiter__: the receive loop.                                            *)

(* start() creates the receive task when connect() has returned.           *)
Iterate ==
  /\ starter = "returned" /\ loop = "none" /\ closer = "none"
  /\ loop' = "reading"
  /\ UNCHANGED <<wrapper, starter, closer, sockets, events>>

(* An event of the connection the iteration reads from.                    *)
Yield ==
  /\ loop = "reading" /\ read[client] < reached[client]
  /\ read' = [read EXCEPT ![client] = @ + 1]
  /\ UNCHANGED <<wrapper, tasks, sockets, reached>>

(* The connection is seen to be gone as soon as it is.                     *)
SeesCloseFaulty == loop = "reading" /\ status[client] # "open"

(* The inner iterator ends: ConnectionClosed is raised when the connection *)
(* is gone and everything received on it has been read.                    *)
SeesClose ==
  loop = "reading" /\ status[client] # "open" /\ read[client] = reached[client]

Leave ==
  /\ SeesClose /\ closing
  /\ loop' = "ended"
  /\ UNCHANGED <<wrapper, starter, closer, sockets, events>>

(* The session is opened again the way it was opened first.                *)
ReconnectFaulty ==
  /\ SeesClose /\ ~ closing
  /\ BeginRetry(resuming) /\ loop' = "opening"
  /\ UNCHANGED <<client, closing, starter, closer, sockets, events, losses>>

Reconnect ==
  /\ SeesClose /\ ~ closing
  /\ BeginRetry(TRUE) /\ loop' = "opening"
  /\ UNCHANGED <<client, closing, starter, closer, sockets, events, losses>>

ReconnectStep ==
  /\ \/ loop = "opening" /\ Attached     /\ loop' = "reading"
     \/ loop = "opening" /\ WillRetry    /\ loop' = "sleeping"
     \/ loop = "opening" /\ RaisesFailed /\ loop' = "ended"
     \/ loop = "sleeping" /\ Retries     /\ loop' = "opening"
  /\ UNCHANGED <<starter, closer>>

(* ConversationController.stop() cancels the receive task, wherever it is, *)
(* and waits for it before it calls close().                               *)
CancelLoop ==
  /\ closer = "none" /\ loop # "none"
  /\ loop' = "cancelled" /\ closer' = "called"
  /\ UNCHANGED <<wrapper, starter, sockets, events>>

-----------------------------------------------------------------------------
(* close(): SessionEnd, then the closing handshake of the connection that  *)
(* was current when close() was called.  The controller cancels its        *)
(* receive task before; the class allows it at any time.                   *)

(* Before there is a connection: connect(), if it is under way, goes on.   *)
CloseUnconnected ==
  /\ client = 0
  /\ closing' = TRUE /\ state' = "idle"
  /\ UNCHANGED <<client, attempt, resuming, losses, tasks, sockets, events>>

(* SessionEnd is sent and the connection is left open.                     *)
CloseFaulty ==
  /\ closer \in {"none", "called"} /\ client # 0
  /\ closing' = TRUE /\ closer' = "ending"
  /\ UNCHANGED <<state, client, attempt, resuming, starter, loop, sockets, events,
                 losses>>

Close ==
  /\ closer \in {"none", "called"} /\ client # 0
  /\ closing' = TRUE /\ closer' = "ending"
  /\ status' = IF status[client] = "open"
               THEN [status EXCEPT ![client] = "closed"] ELSE status
  /\ UNCHANGED <<state, client, attempt, resuming, starter, loop, made, hello,
                 events, losses>>

CloseReturns ==
  /\ closer = "ending"
  /\ closer' = "done" /\ state' = "idle"
  /\ UNCHANGED <<client, closing, attempt, resuming, starter, loop, sockets, events,
                 losses>>

-----------------------------------------------------------------------------
(* The server and the network, external.                                   *)

(* The server sends an event on a connection that is open.                 *)
Emit(c) ==
  /\ status[c] = "open" /\ reached[c] < MaxEvents
  /\ reached' = [reached EXCEPT ![c] = @ + 1]
  /\ UNCHANGED <<wrapper, tasks, sockets, read>>

(* The connection breaks and the last events on their way are lost.        *)
Drop(c) ==
  /\ status[c] = "open"
  /\ status' = [status EXCEPT ![c] = "dropped"]
  /\ \E n \in read[c]..reached[c] : reached' = [reached EXCEPT ![c] = n]
  /\ UNCHANGED <<wrapper, tasks, made, hello, read>>

Next ==
  \/ \E resume \in BOOLEAN : Connect(resume)
  \/ ConnectStep
  \/ Iterate \/ Yield \/ Leave \/ Reconnect \/ ReconnectStep \/ CancelLoop
  \/ CloseUnconnected \/ Close \/ CloseReturns
  \/ \E c \in Connections : Emit(c) \/ Drop(c)

(* The event loop runs every coroutine that can go on: an attempt to       *)
(* connect succeeds or fails (the library bounds it with a timeout), a     *)
(* sleep ends, what was received is read, and stop(), once called, goes on *)
(* to close().                                                             *)
Fairness ==
  /\ WF_vars(ConnectStep) /\ WF_vars(ReconnectStep)
  /\ WF_vars(Yield) /\ WF_vars(Leave) /\ WF_vars(Reconnect)
  /\ WF_vars(closer = "called" /\ Close) /\ WF_vars(CloseReturns)

Spec == Init /\ [][Next]_vars /\ Fairness

-----------------------------------------------------------------------------
(* What must hold.                                                         *)

(* A reconnection skips nothing that arrived: when the iteration reads     *)
(* from a connection, or is looking for a new one, all that reached it     *)
(* over the earlier ones has been yielded.                                 *)
NothingSkipped ==
  \A c \in Connections :
    c < client \/ (c = client /\ loop \in Retrying) => read[c] = reached[c]

(* The first connection says what the call asked for; every later one,     *)
(* however many failures came before it, resumes the session.              *)
ReconnectsResume == \A c \in Connections : c \in 2..made => hello[c]

(* The client gives up when MaxRetries + 1 attempts in a row have failed,  *)
(* and not before: the failures of an earlier outage do not count.         *)
GivesUpInTime == state = "failed" => losses = MaxRetries + 1

(* When close() has returned the client is idle, with no connection open   *)
(* and none being made.                                                    *)
Idle ==
  /\ state = "idle"
  /\ \A c \in Connections : status[c] # "open"
  /\ loop \notin Retrying

(* A client that was closed the way stop() does it stays idle.             *)
ClosedForGood == closer = "done" /\ loop = "cancelled" => Idle

(* ... and so does one that is closed while it is iterated over.           *)
ClosedAnyway == closer = "done" => Idle

(* Whatever the network does, an outage ends: the client is connected      *)
(* again, or it has given up, or it was closed.                            *)
OutageEnds ==
  state \in {"connecting", "reconnecting"} ~> state \in {"connected", "failed", "idle"}

(* How the coroutines relate to what they work on: what the properties     *)
(* above rest on.                                                          *)
Positions ==
  /\ client = made
  /\ \A c \in Connections :
        /\ status[c] = "free" <=> c > made
        /\ c < made => status[c] # "open"
        /\ read[c] <= reached[c]
        /\ c > made => reached[c] = 0
  /\ starter = "returned" <=> client > 0
  /\ starter # "returned" => loop = "none" /\ closer = "none"
  /\ loop \in Retrying => status[client] # "open"
  /\ starter = "none" => state \in {"pending", "idle"}
  /\ starter = "raised" => state \in {"failed", "idle"}
  /\ starter \in Retrying => state \in {"connecting", "reconnecting", "idle"}
  /\ state = "failed" => starter = "raised" \/ loop \in {"ended", "cancelled"}
  /\ state = "failed" /\ client > 0 => status[client] # "open"
  /\ starter \in Retrying \/ loop \in Retrying =>
        losses = attempt /\ attempt <= MaxRetries
  /\ starter = "none" \/ (starter = "returned" /\ loop \in {"none", "reading"}) =>
        losses = 0
  /\ closer = "called" => loop = "cancelled"
  /\ loop = "cancelled" => closer # "none"
  /\ loop = "cancelled" /\ closer = "done" => state = "idle"
  /\ loop = "cancelled" /\ closer \in {"ending", "done"} => status[client] # "open"

(* To the controller the client is a transport that loses nothing but what *)
(* was on its way when a connection broke.                                 *)
Link ==
  IF closer \in {"ending", "done"} THEN "closed"
  ELSE IF state = "failed" \/ starter = "raised" THEN "failed"
  ELSE IF client = 0 THEN "none"
  ELSE IF status[client] = "open" THEN "up" ELSE "down"

Pending ==
  IF closer \in {"ending", "done"} \/ client = 0 THEN 0 ELSE reached[client] - read[client]

AsTransport == INSTANCE Transport WITH link <- Link, pending <- Pending

ImplementsTransport == AsTransport!Spec
=============================================================================
