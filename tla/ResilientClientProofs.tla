------------------------ MODULE ResilientClientProofs ------------------------
(* Proofs about ResilientClient, for every number of retries, connections  *)
(* and events.                                                             *)
EXTENDS ResilientClient, TLAPS

IInv == TypeOK /\ Positions /\ NothingSkipped /\ GivesUpInTime

USE RetriesAssumption, LimitsAssumption DEF Connections

(* The invariant at the beginning,                                         *)
LEMMA IInvInit ==
  ASSUME Init
  PROVE  IInv
<1>1. TypeOK
  <2>1. 0 \in 0..(MaxRetries + 1) /\ 0 \in 0..MaxEvents /\ 0 \in 0..MaxConnections
    OBVIOUS
  <2>2. /\ client \in 0..made /\ made \in 0..MaxConnections
        /\ attempt \in 0..(MaxRetries + 1) /\ losses \in Nat
    BY <2>1 DEF Init
  <2>3. /\ status \in [Connections -> {"free", "open", "dropped", "closed"}]
        /\ hello \in [Connections -> BOOLEAN]
        /\ reached \in [Connections -> 0..MaxEvents]
        /\ read \in [Connections -> 0..MaxEvents]
    BY <2>1 DEF Init
  <2>4. /\ state = "pending" /\ closing \in BOOLEAN /\ resuming \in BOOLEAN
        /\ starter = "none" /\ loop = "none" /\ closer = "none"
    BY DEF Init
  <2> QED
    BY <2>2, <2>3, <2>4 DEF TypeOK
<1>2. Positions
  BY DEF Init, Positions, Retrying
<1>3. NothingSkipped /\ GivesUpInTime
  BY DEF Init, NothingSkipped, GivesUpInTime, Retrying
<1> QED
  BY <1>1, <1>2, <1>3 DEF IInv

(* ... and after every step.                                               *)
LEMMA IInvStep ==
  ASSUME IInv, [Next]_vars
  PROVE  IInv'
<1> USE DEF IInv, TypeOK, Positions, NothingSkipped, GivesUpInTime, Retrying
<1>1. ASSUME NEW resume \in BOOLEAN, Connect(resume)
      PROVE  IInv'
  <2>1. /\ state' = "connecting" /\ attempt' = 0 /\ resuming' = resume
        /\ closing' = FALSE /\ starter' = "opening" /\ loop = "none" /\ losses = 0
        /\ UNCHANGED <<client, loop, closer, made, status, hello, reached, read, losses>>
    BY <1>1 DEF Connect, BeginRetry, sockets, events
  <2>2. 0 \in 0..(MaxRetries + 1)
    OBVIOUS
  <2>3. TypeOK'
    BY <2>1, <2>2
  <2>4. Positions'
    BY <1>1, <2>1 DEF Connect
  <2> QED
    BY <2>1, <2>3, <2>4
<1>2. CASE ConnectStep
  <2>1. CASE Attached /\ starter = "opening" /\ starter' = "returned"
    BY <1>2, <2>1 DEF ConnectStep, Attached, events
  <2>2. CASE WillRetry /\ starter = "opening" /\ starter' = "sleeping"
    BY <1>2, <2>2 DEF ConnectStep, WillRetry, GivesUpAt, sockets, events
  <2>3. CASE RaisesFailed /\ starter = "opening" /\ starter' = "raised"
    BY <1>2, <2>3 DEF ConnectStep, RaisesFailed, GivesUpAt, sockets, events
  <2>4. CASE Retries /\ starter = "sleeping" /\ starter' = "opening"
    BY <1>2, <2>4 DEF ConnectStep, Retries, sockets, events
  <2> QED
    BY <1>2, <2>1, <2>2, <2>3, <2>4 DEF ConnectStep
<1>3. CASE Iterate
  BY <1>3 DEF Iterate, wrapper, sockets, events
<1>4. CASE Yield
  BY <1>4 DEF Yield, wrapper, tasks, sockets
<1>5. CASE Leave
  BY <1>5 DEF Leave, SeesClose, wrapper, sockets, events
<1>6. CASE Reconnect
  BY <1>6 DEF Reconnect, SeesClose, BeginRetry, sockets, events
<1>7. CASE ReconnectStep
  <2>1. CASE Attached /\ loop = "opening" /\ loop' = "reading"
    BY <1>7, <2>1 DEF ReconnectStep, Attached, events
  <2>2. CASE WillRetry /\ loop = "opening" /\ loop' = "sleeping"
    BY <1>7, <2>2 DEF ReconnectStep, WillRetry, GivesUpAt, sockets, events
  <2>3. CASE RaisesFailed /\ loop = "opening" /\ loop' = "ended"
    BY <1>7, <2>3 DEF ReconnectStep, RaisesFailed, GivesUpAt, sockets, events
  <2>4. CASE Retries /\ loop = "sleeping" /\ loop' = "opening"
    BY <1>7, <2>4 DEF ReconnectStep, Retries, sockets, events
  <2> QED
    BY <1>7, <2>1, <2>2, <2>3, <2>4 DEF ReconnectStep
<1>8. CASE CancelLoop
  BY <1>8 DEF CancelLoop, wrapper, sockets, events
<1>9. CASE Close
  BY <1>9 DEF Close, events
<1>10. CASE CloseReturns
  BY <1>10 DEF CloseReturns, sockets, events
<1>11. ASSUME NEW c \in Connections, Emit(c)
       PROVE  IInv'
  BY <1>11 DEF Emit, wrapper, tasks, sockets
<1>12. ASSUME NEW c \in Connections, Drop(c)
       PROVE  IInv'
  BY <1>12 DEF Drop, wrapper, tasks
<1>13. CASE CloseUnconnected
  BY <1>13 DEF CloseUnconnected, tasks, sockets, events
<1>14. CASE UNCHANGED vars
  BY <1>14 DEF vars, wrapper, tasks, sockets, events
<1> QED
  BY <1>1, <1>2, <1>3, <1>4, <1>5, <1>6, <1>7, <1>8, <1>9, <1>10, <1>11, <1>12,
     <1>13, <1>14 DEF Next

(* Every variable keeps its type; among others, no outage is met with more *)
(* than MaxRetries + 1 attempts.                                           *)
THEOREM ClientTypeCorrect == Spec => []TypeOK
<1>1. IInv => TypeOK
  BY DEF IInv
<1> QED
  BY IInvInit, IInvStep, <1>1, PTL DEF Spec

(* A reconnection skips nothing that arrived on the broken connection.     *)
THEOREM NothingIsSkipped == Spec => []NothingSkipped
<1>1. IInv => NothingSkipped
  BY DEF IInv
<1> QED
  BY IInvInit, IInvStep, <1>1, PTL DEF Spec

(* The client gives up after MaxRetries + 1 failures in a row: the         *)
(* failures of an earlier outage have been forgotten.                      *)
THEOREM GivesUpCorrect == Spec => []GivesUpInTime
<1>1. IInv => GivesUpInTime
  BY DEF IInv
<1> QED
  BY IInvInit, IInvStep, <1>1, PTL DEF Spec

(* A client whose reader is cancelled before close(), as stop() does it,   *)
(* stays closed: no connection is open and none is being made.             *)
THEOREM ClosedStaysClosed == Spec => []ClosedForGood
<1>1. IInv => ClosedForGood
  <2> SUFFICES ASSUME IInv, closer = "done", loop = "cancelled"
               PROVE  state = "idle" /\ \A c \in Connections : status[c] # "open"
    BY DEF ClosedForGood, Idle, Retrying
  <2>1. state = "idle" /\ status[client] # "open" /\ client = made
    BY DEF IInv, Positions
  <2>2. ASSUME NEW c \in Connections
        PROVE  status[c] # "open"
    <3>1. c < made \/ c = client \/ c > made
      BY <2>1 DEF IInv, TypeOK
    <3> QED
      BY <2>1, <3>1 DEF IInv, Positions
  <2> QED
    BY <2>1, <2>2
<1> QED
  BY IInvInit, IInvStep, <1>1, PTL DEF Spec

(* The iteration always asks for a resumption, and connect() makes the     *)
(* first connection only.                                                  *)
ResumeInv ==
  /\ ReconnectsResume
  /\ loop \in Retrying => resuming

(* Every step keeps that a reconnection has resumed.                       *)
LEMMA ResumeInvStep ==
  ASSUME IInv, ResumeInv, [Next]_vars
  PROVE  ResumeInv'
<1> USE DEF IInv, TypeOK, Positions, ResumeInv, ReconnectsResume, Retrying
<1>1. CASE ConnectStep
  BY <1>1 DEF ConnectStep, Attached, WillRetry, RaisesFailed, Retries, sockets, events
<1>2. CASE ReconnectStep
  <2>1. CASE Attached /\ loop = "opening" /\ loop' = "reading"
    BY <2>1 DEF Attached
  <2>2. CASE ~ Attached
    BY <1>2, <2>2 DEF ReconnectStep, WillRetry, RaisesFailed, Retries, sockets
  <2> QED
    BY <1>2, <2>1, <2>2 DEF ReconnectStep, WillRetry, RaisesFailed, Retries, sockets
<1>3. ASSUME NEW resume \in BOOLEAN, Connect(resume)
      PROVE  ResumeInv'
  BY <1>3 DEF Connect, BeginRetry, sockets
<1>4. CASE Reconnect
  BY <1>4 DEF Reconnect, BeginRetry, sockets
<1>5. CASE ~ (ConnectStep \/ ReconnectStep \/ Reconnect \/ \E r \in BOOLEAN : Connect(r))
  <2>1. /\ UNCHANGED <<made, hello, resuming>>
        /\ loop' \in Retrying => loop \in Retrying
    BY <1>5 DEF Next, Iterate, Yield, Leave, CancelLoop, CloseUnconnected, Close,
                CloseReturns, Emit, Drop, vars, wrapper, tasks, sockets
  <2> QED
    BY <2>1
<1> QED
  BY <1>1, <1>2, <1>3, <1>4, <1>5

(* However the first connection was opened, and however many attempts      *)
(* failed in between, every later one resumes the session.                 *)
THEOREM EveryReconnectionResumes == Spec => []ReconnectsResume
<1>1. Init => ResumeInv
  BY DEF Init, ResumeInv, ReconnectsResume, Retrying
<1>2. ResumeInv => ReconnectsResume
  BY DEF ResumeInv
<1> QED
  BY IInvInit, IInvStep, ResumeInvStep, <1>1, <1>2, PTL DEF Spec

-----------------------------------------------------------------------------
(* The client implements the transport.                                    *)

(* Every step of the client is one of the transport, or none.              *)
LEMMA TransportStep ==
  ASSUME IInv, [Next]_vars
  PROVE  [AsTransport!Next]_<<Link, Pending>>
<1> USE DEF IInv, TypeOK, Positions, NothingSkipped, Retrying, Link, Pending
<1>1. ASSUME NEW resume \in BOOLEAN, Connect(resume)
      PROVE  UNCHANGED <<Link, Pending>>
  BY <1>1 DEF Connect, BeginRetry, sockets, events
<1>2. CASE ConnectStep
  <2>1. CASE Attached /\ starter = "opening" /\ starter' = "returned"
    BY <1>2, <2>1 DEF ConnectStep, Attached, events, AsTransport!Next, AsTransport!Opens
  <2>2. CASE WillRetry /\ starter = "opening" /\ starter' = "sleeping"
    BY <1>2, <2>2 DEF ConnectStep, WillRetry, sockets, events
  <2>3. CASE RaisesFailed /\ starter = "opening"
    BY <1>2, <2>3 DEF ConnectStep, RaisesFailed, sockets, events, AsTransport!Next,
                      AsTransport!NeverOpens
  <2>4. CASE Retries /\ starter = "sleeping" /\ starter' = "opening"
    BY <1>2, <2>4 DEF ConnectStep, Retries, sockets, events
  <2> QED
    BY <1>2, <2>1, <2>2, <2>3, <2>4 DEF ConnectStep
<1>3. CASE Iterate \/ Leave \/ CancelLoop
  BY <1>3 DEF Iterate, Leave, CancelLoop, wrapper, sockets, events
<1>4. CASE Yield
  <2>1. client > 0 /\ client \in Connections /\ state # "failed"
    BY <1>4 DEF Yield
  <2>2. CASE closer \in {"ending", "done"}
    BY <1>4, <2>2 DEF Yield, wrapper, tasks, sockets
  <2>3. CASE closer \notin {"ending", "done"}
    <3>1. Link' = Link /\ Link \in {"up", "down"}
      BY <1>4, <2>1, <2>3 DEF Yield, wrapper, tasks, sockets
    <3>2. Pending > 0 /\ Pending' = Pending - 1
      BY <1>4, <2>1, <2>3 DEF Yield, wrapper, tasks
    <3> QED
      BY <3>1, <3>2 DEF AsTransport!Next, AsTransport!Delivers
  <2> QED
    BY <2>2, <2>3
<1>5. CASE Reconnect
  BY <1>5 DEF Reconnect, SeesClose, BeginRetry, sockets, events
<1>6. CASE ReconnectStep
  <2>1. client > 0 /\ client \in Connections /\ status[client] # "open"
        /\ read[client] = reached[client]
    BY <1>6 DEF ReconnectStep
  <2>2. CASE Attached /\ loop = "opening"
    <3>1. CASE closer \in {"ending", "done"}
      BY <1>6, <2>2, <3>1 DEF ReconnectStep, Attached
    <3>2. CASE closer \notin {"ending", "done"}
      <4>1. Link = "down" /\ Pending = 0
        BY <1>6, <2>1, <2>2, <3>2 DEF ReconnectStep
      <4>2. Link' = "up" /\ Pending' = 0
        BY <1>6, <2>1, <2>2, <3>2 DEF ReconnectStep, Attached, events
      <4> QED
        BY <4>1, <4>2 DEF AsTransport!Next, AsTransport!Restores
    <3> QED
      BY <3>1, <3>2
  <2>3. CASE WillRetry /\ loop = "opening"
    BY <1>6, <2>3 DEF ReconnectStep, WillRetry, sockets, events
  <2>4. CASE RaisesFailed /\ loop = "opening"
    <3>1. CASE closer \in {"ending", "done"}
      BY <1>6, <2>4, <3>1 DEF ReconnectStep, RaisesFailed
    <3>2. CASE closer \notin {"ending", "done"}
      <4>1. Link = "down" /\ Pending = 0
        BY <1>6, <2>1, <2>4, <3>2 DEF ReconnectStep
      <4>2. Link' = "failed" /\ Pending' = 0
        BY <1>6, <2>1, <2>4, <3>2 DEF ReconnectStep, RaisesFailed, sockets, events
      <4> QED
        BY <4>1, <4>2 DEF AsTransport!Next, AsTransport!Abandons
    <3> QED
      BY <3>1, <3>2
  <2>5. CASE Retries /\ loop = "sleeping"
    BY <1>6, <2>5 DEF ReconnectStep, Retries, sockets, events
  <2> QED
    BY <1>6, <2>2, <2>3, <2>4, <2>5 DEF ReconnectStep
<1>7. CASE Close
  <2>1. Link \in {"up", "down", "failed"}
    BY <1>7 DEF Close
  <2>2. Link' = "closed" /\ Pending' = 0
    BY <1>7 DEF Close
  <2> QED
    BY <2>1, <2>2 DEF AsTransport!Next, AsTransport!Closes
<1>8. CASE CloseReturns
  BY <1>8 DEF CloseReturns, sockets, events
<1>9. ASSUME NEW c \in Connections, Emit(c)
      PROVE  [AsTransport!Next]_<<Link, Pending>>
  <2>1. c = client /\ client > 0
    BY <1>9 DEF Emit
  <2>2. CASE closer \in {"ending", "done"}
    BY <1>9, <2>2 DEF Emit, wrapper, tasks, sockets
  <2>3. CASE state = "failed"
    BY <1>9, <2>1, <2>3 DEF Emit, wrapper, tasks, sockets
  <2>4. CASE closer \notin {"ending", "done"} /\ state # "failed"
    <3>1. Link = "up" /\ Link' = "up" /\ Pending' = Pending + 1
      BY <1>9, <2>1, <2>4 DEF Emit, wrapper, tasks, sockets
    <3> QED
      BY <3>1 DEF AsTransport!Next, AsTransport!Emits
  <2> QED
    BY <2>2, <2>3, <2>4
<1>10. ASSUME NEW c \in Connections, Drop(c)
       PROVE  [AsTransport!Next]_<<Link, Pending>>
  <2>1. c = client /\ client > 0
    BY <1>10 DEF Drop
  <2>2. CASE closer \in {"ending", "done"}
    BY <1>10, <2>2 DEF Drop, wrapper, tasks
  <2>3. CASE state = "failed"
    BY <1>10, <2>1, <2>3 DEF Drop, wrapper, tasks
  <2>4. CASE closer \notin {"ending", "done"} /\ state # "failed"
    <3>1. Link = "up" /\ Link' = "down" /\ Pending' \in 0..Pending
      BY <1>10, <2>1, <2>4 DEF Drop, wrapper, tasks
    <3> QED
      BY <3>1 DEF AsTransport!Next, AsTransport!Breaks
  <2> QED
    BY <2>2, <2>3, <2>4
<1>11. CASE CloseUnconnected
  BY <1>11 DEF CloseUnconnected, tasks, sockets, events
<1>12. CASE UNCHANGED vars
  BY <1>12 DEF vars, wrapper, tasks, sockets, events
<1> QED
  BY <1>1, <1>2, <1>3, <1>4, <1>5, <1>6, <1>7, <1>8, <1>9, <1>10, <1>11, <1>12 DEF Next

(* Seen by the controller, the client is a Transport: it loses no event    *)
(* but those on their way when a connection broke, and it repairs or gives *)
(* up a connection only after everything that arrived was delivered.       *)
THEOREM ClientIsTransport == Spec => ImplementsTransport
<1>1. ASSUME Init PROVE AsTransport!Init
  BY <1>1 DEF Init, AsTransport!Init, Link, Pending
<1> QED
  BY <1>1, IInvInit, IInvStep, TransportStep, PTL
     DEF Spec, ImplementsTransport, AsTransport!Spec
=============================================================================
