-------------------------- MODULE CommandPipeline --------------------------
(***************************************************************************)
(* The path of a command through the running agent, and of its answer back *)
(* to the controller.  Three threads share it:                             *)
(*                                                                         *)
(*   server    TcpServer::serverThreadMain: accepts one client at a time   *)
(*             and, through the NetworkManager callbacks, pushes every     *)
(*             command it receives on the inbox;                           *)
(*   render    the game's render thread inside D3D9Hook::HookedEndScene:   *)
(*             pops one command per frame, lets MessageProcessor execute   *)
(*             it and pushes the answer on the outbox;                     *)
(*   outgoing  NetworkManager::outgoingMessageThreadMain: swaps the outbox *)
(*             for an empty queue and sends what it found there.           *)
(*                                                                         *)
(* They meet at two queues, each with its mutex, and at m_currentClient,   *)
(* an unprotected SOCKET that server writes and outgoing reads (an aligned *)
(* word on the 32-bit target: a read returns the old or the new value).    *)
(* The controllers are the environment: they connect, send, stop reading   *)
(* and go away as they like.                                               *)
(*                                                                         *)
(* The module covers the time between the return of startServer() and the  *)
(* call of stopServer(), for clients that connect in that time: m_running  *)
(* is TRUE, the four queue pointers are set and the application context is *)
(* published.                                                              *)
(*                                                                         *)
(* A definition introduced as "Mistake" is a mutation of the one after it. *)
(* No specification uses it; it shows what breaks a property (README).     *)
(***************************************************************************)
EXTENDS Integers, Sequences

CONSTANTS
  Shapes,            \* what a command may look like, see CommandShape
  Handles,           \* the SOCKET values accept() may return
  INVALID_SOCKET,
  Pieces,            \* an event's frame goes out in at most so many send()s
  Unserializable,    \* the types of events that may fail to serialize
  MaxSessions,       \* bound: connections accepted
  MaxCommands        \* bound: commands received

CommandTypes == {"LUA_EXECUTE", "LUA_READ_VARIABLE", "CLICK_TO_MOVE", "UNSPECIFIED"}

EventTypes == {"LUA_VARIABLE_READ", "OPERATION_SUCCEEDED", "OPERATION_FAILED"}

\* All that the code asks about a command: its type, whether the payload of
\* that type is there, whether its text (Lua code or variable name) is not
\* empty, whether player_base_address is not 0, whether it has a position.
CommandShape == [type : CommandTypes, payload : BOOLEAN, text : BOOLEAN,
                 base : BOOLEAN, position : BOOLEAN]

ASSUME ShapesAssumption == Shapes \subseteq CommandShape
ASSUME HandlesAssumption == INVALID_SOCKET \notin Handles
ASSUME PiecesAssumption == Pieces \in Nat \ {0}
ASSUME UnserializableAssumption == Unserializable \subseteq EventTypes
ASSUME BoundsAssumption == MaxSessions \in Nat /\ MaxCommands \in Nat

VARIABLES
  openSocket,        \* the handle of the accepted connection, if one is open
  link,              \* what became of that connection: none, up, closing, broken
  currentClient,     \* NetworkManager::m_currentClient
  srv,               \* where the server thread is
  arriving,          \* the command onMessageReceived() is about to push
  inbox, inboxMutex,
  rnd,               \* where the render thread is
  executing,         \* the command popped from the inbox
  answer,            \* the event enqueueEvent() is about to push
  outbox, outboxMutex,
  out,               \* where the outgoing thread is
  batch,             \* processOutgoingMessages()'s localQueue
  target,            \* sendData()'s clientSocket
  sentPieces,        \* sendData()'s totalSent
  (*************************************************************************)
  (* History, read by no thread.                                           *)
  (*************************************************************************)
  session,           \* connections accepted so far
  seenSession,       \* the session in which outgoing last read m_currentClient
  nReceived,         \* commands received
  nExecuted,         \* commands executed
  silent,            \* the operations that were executed without an answer
  sent,              \* the operations whose answer sendData() reported sent
  lost,              \* the answers dropped, with the session they were meant for
  stream,            \* what was written to each session's connection
  strayed            \* what was written to sockets of the game

netVars == <<openSocket, link, currentClient, session>>
serverVars == <<srv, arriving, nReceived>>
inboxVars == <<inbox, inboxMutex>>
renderVars == <<rnd, executing, answer, nExecuted, silent>>
outboxVars == <<outbox, outboxMutex>>
outgoingVars == <<out, batch, target, sentPieces, seenSession, sent, lost, stream,
                  strayed>>
vars == <<netVars, serverVars, inboxVars, renderVars, outboxVars, outgoingVars>>

\* Operations are numbered in the order in which their commands arrive; an
\* event carries its command's operation_id.
Command == [op : Nat, shape : Shapes]
Event == [op : Nat, type : EventTypes]
Piece == [op : Nat, piece : 1 .. Pieces]

\* Why an answer is dropped.
Causes == {"serialize", "send", "exception"}

NetTypes ==
  /\ openSocket \in Handles \cup {INVALID_SOCKET}
  /\ link \in {"none", "up", "closing", "broken"}
  /\ currentClient \in Handles \cup {INVALID_SOCKET}
  /\ session \in 0 .. MaxSessions

ServerTypes ==
  /\ srv \in {"accept", "connected", "recv", "lockInbox", "push", "close"}
  /\ arriving \in Seq(Command)
  /\ nReceived \in Nat

InboxTypes ==
  /\ inbox \in Seq(Command)
  /\ inboxMutex \in {"free", "server", "render"}

RenderTypes ==
  /\ rnd \in {"idle", "lockInbox", "hooked", "process", "lockOutbox", "push", "original"}
  /\ executing \in Seq(Command)
  /\ answer \in Seq(Event)
  /\ nExecuted \in Nat
  /\ silent \subseteq Nat

OutboxTypes ==
  /\ outbox \in Seq(Event)
  /\ outboxMutex \in {"free", "render", "outgoing"}

OutgoingTypes ==
  /\ out \in {"check", "lockOutbox", "swap", "next", "send", "discard"}
  /\ batch \in Seq(Event)
  /\ target \in Handles \cup {INVALID_SOCKET}
  /\ sentPieces \in 0 .. Pieces - 1
  /\ seenSession \in 0 .. MaxSessions
  /\ sent \subseteq Nat
  /\ lost \subseteq [op : Nat, session : 0 .. MaxSessions, cause : Causes]
  /\ stream \in [1 .. MaxSessions -> Seq(Piece)]
  /\ strayed \subseteq Piece

TypeOK ==
  /\ NetTypes /\ ServerTypes /\ InboxTypes
  /\ RenderTypes /\ OutboxTypes /\ OutgoingTypes

Init ==
  /\ openSocket = INVALID_SOCKET /\ link = "none" /\ currentClient = INVALID_SOCKET
  /\ srv = "accept" /\ arriving = <<>>
  /\ inbox = <<>> /\ inboxMutex = "free"
  /\ rnd = "idle" /\ executing = <<>> /\ answer = <<>>
  /\ outbox = <<>> /\ outboxMutex = "free"
  /\ out = "check" /\ batch = <<>> /\ target = INVALID_SOCKET /\ sentPieces = 0
  /\ session = 0 /\ seenSession = 0 /\ nReceived = 0 /\ nExecuted = 0
  /\ silent = {} /\ sent = {} /\ lost = {}
  /\ stream = [s \in 1 .. MaxSessions |-> <<>>] /\ strayed = {}

-----------------------------------------------------------------------------
(***************************************************************************)
(* The controllers.                                                        *)
(***************************************************************************)

\* The controller closes its end.  Bytes on their way still arrive, and what
\* is sent to it is still accepted.
PeerCloses ==
  /\ link = "up"
  /\ link' = "closing"
  /\ UNCHANGED <<openSocket, currentClient, session, serverVars, inboxVars,
                 renderVars, outboxVars, outgoingVars>>

\* The connection is reset: from now on recv() and send() fail.
ConnectionBreaks ==
  /\ link \in {"up", "closing"}
  /\ link' = "broken"
  /\ UNCHANGED <<openSocket, currentClient, session, serverVars, inboxVars,
                 renderVars, outboxVars, outgoingVars>>

-----------------------------------------------------------------------------
(***************************************************************************)
(* The server thread.                                                      *)
(***************************************************************************)

\* accept() may return any value that is not in use: a closed handle's value
\* comes back.
Accept ==
  /\ srv = "accept"
  /\ session < MaxSessions
  /\ \E h \in Handles : openSocket' = h
  /\ link' = "up"
  /\ session' = session + 1
  /\ srv' = "connected"
  /\ UNCHANGED <<currentClient, arriving, nReceived, inboxVars, renderVars,
                 outboxVars, outgoingVars>>

OnClientConnected ==
  /\ srv = "connected"
  /\ currentClient' = openSocket
  /\ srv' = "recv"
  /\ UNCHANGED <<openSocket, link, session, arriving, nReceived, inboxVars,
                 renderVars, outboxVars, outgoingVars>>

\* recv() returns, and the bytes complete the frame of one command (a recv()
\* that completes several is several of these steps; one whose frame does not
\* parse, or completes none, changes nothing here).
ReceiveCommand ==
  /\ srv = "recv"
  /\ link \in {"up", "closing"}
  /\ nReceived < MaxCommands
  /\ nReceived' = nReceived + 1
  /\ \E s \in Shapes : arriving' = <<[op |-> nReceived + 1, shape |-> s]>>
  /\ srv' = "lockInbox"
  /\ UNCHANGED <<netVars, inboxVars, renderVars, outboxVars, outgoingVars>>

LockInboxServer ==
  /\ srv = "lockInbox"
  /\ inboxMutex = "free"
  /\ inboxMutex' = "server"
  /\ srv' = "push"
  /\ UNCHANGED <<netVars, arriving, nReceived, inbox, renderVars, outboxVars,
                 outgoingVars>>

\* Mistake: the mutex is kept while the thread waits for the next bytes.
PushCommandLocked ==
  /\ srv = "push"
  /\ inbox' = inbox \o arriving
  /\ arriving' = <<>>
  /\ srv' = "recv"
  /\ UNCHANGED <<netVars, nReceived, inboxMutex, renderVars, outboxVars, outgoingVars>>

PushCommand ==
  /\ srv = "push"
  /\ inbox' = inbox \o arriving
  /\ arriving' = <<>>
  /\ inboxMutex' = "free"
  /\ srv' = "recv"
  /\ UNCHANGED <<netVars, nReceived, renderVars, outboxVars, outgoingVars>>

\* recv() returned 0 or failed: handleClient() returns, and serverThreadMain()
\* reports the disconnection before it closes the socket.
OnClientDisconnected ==
  /\ srv = "recv"
  /\ link \in {"closing", "broken"}
  /\ currentClient' = IF currentClient = openSocket THEN INVALID_SOCKET ELSE currentClient
  /\ srv' = "close"
  /\ UNCHANGED <<openSocket, link, session, arriving, nReceived, inboxVars,
                 renderVars, outboxVars, outgoingVars>>

CloseSocket ==
  /\ srv = "close"
  /\ openSocket' = INVALID_SOCKET
  /\ link' = "none"
  /\ srv' = "accept"
  /\ UNCHANGED <<currentClient, session, arriving, nReceived, inboxVars,
                 renderVars, outboxVars, outgoingVars>>

-----------------------------------------------------------------------------
(***************************************************************************)
(* What MessageProcessor and CommandExecutor make of a command: the set of *)
(* events that may come of it, NoEvent for none.  The game's functions are *)
(* external and may return what they like.                                 *)
(***************************************************************************)
NoEvent == "NO_EVENT"

\* CommandExecutor::executeLuaCode: Dostring()'s result, or false for no code.
ExecuteLuaCode(s) == IF s.text THEN BOOLEAN ELSE {FALSE}

\* CommandExecutor::executeClickToMove: the game's result, or false for no player.
ExecuteClickToMove(s) == IF s.base THEN BOOLEAN ELSE {FALSE}

\* EventPublisher::createSuccessEvent and createErrorEvent.
Reply(ok) == IF ok THEN "OPERATION_SUCCEEDED" ELSE "OPERATION_FAILED"

HandleLuaExecute(s) ==
  IF ~ s.payload THEN {NoEvent} ELSE {Reply(ok) : ok \in ExecuteLuaCode(s)}

\* readLuaVariable() always returns a string, the empty one when it fails.
HandleLuaReadVariable(s) ==
  IF ~ s.payload THEN {NoEvent} ELSE {"LUA_VARIABLE_READ"}

HandleClickToMove(s) ==
  IF ~ s.payload \/ ~ s.base \/ ~ s.position
  THEN {NoEvent}
  ELSE {Reply(ok) : ok \in ExecuteClickToMove(s)}

\* Mistake: the LUA_EXECUTE case goes to the handler of the next one.
ProcessCommandMisrouted(s) ==
  IF s.type = "CLICK_TO_MOVE" THEN HandleClickToMove(s) ELSE HandleLuaReadVariable(s)

ProcessCommand(s) ==
  CASE s.type = "LUA_EXECUTE" -> HandleLuaExecute(s)
    [] s.type = "LUA_READ_VARIABLE" -> HandleLuaReadVariable(s)
    [] s.type = "CLICK_TO_MOVE" -> HandleClickToMove(s)
    [] OTHER -> {NoEvent}

-----------------------------------------------------------------------------
(***************************************************************************)
(* The render thread.  The game's frame waits in HookedEndScene() for the  *)
(* inbox mutex, and holds it from then on to the return of the original    *)
(* EndScene().                                                             *)
(***************************************************************************)
EnterEndScene ==
  /\ rnd = "idle"
  /\ rnd' = "lockInbox"
  /\ UNCHANGED <<netVars, serverVars, inboxVars, executing, answer, nExecuted,
                 silent, outboxVars, outgoingVars>>

LockInboxRender ==
  /\ rnd = "lockInbox"
  /\ inboxMutex = "free"
  /\ inboxMutex' = "render"
  /\ rnd' = "hooked"
  /\ UNCHANGED <<netVars, serverVars, inbox, executing, answer, nExecuted, silent,
                 outboxVars, outgoingVars>>

NoCommand ==
  /\ rnd = "hooked"
  /\ inbox = <<>>
  /\ rnd' = "original"
  /\ UNCHANGED <<netVars, serverVars, inboxVars, executing, answer, nExecuted,
                 silent, outboxVars, outgoingVars>>

\* Mistake: front() without pop().
PopCommandKeepsFront ==
  /\ rnd = "hooked"
  /\ inbox # <<>>
  /\ executing' = <<Head(inbox)>>
  /\ rnd' = "process"
  /\ UNCHANGED <<netVars, serverVars, inboxVars, answer, nExecuted, silent,
                 outboxVars, outgoingVars>>

PopCommand ==
  /\ rnd = "hooked"
  /\ inbox # <<>>
  /\ executing' = <<Head(inbox)>>
  /\ inbox' = Tail(inbox)
  /\ rnd' = "process"
  /\ UNCHANGED <<netVars, serverVars, inboxMutex, answer, nExecuted, silent,
                 outboxVars, outgoingVars>>

\* The command is executed and an event is made for it.
AnswerCommand ==
  /\ rnd = "process"
  /\ \E t \in ProcessCommand(executing[1].shape) \ {NoEvent} :
       answer' = <<[op |-> executing[1].op, type |-> t]>>
  /\ executing' = <<>>
  /\ nExecuted' = nExecuted + 1
  /\ rnd' = "lockOutbox"
  /\ UNCHANGED <<netVars, serverVars, inboxVars, silent, outboxVars,
                 outgoingVars>>

\* The handler returns early, or there is no handler, and no event is made.
LeaveUnanswered ==
  /\ rnd = "process"
  /\ NoEvent \in ProcessCommand(executing[1].shape)
  /\ silent' = silent \cup {executing[1].op}
  /\ executing' = <<>>
  /\ nExecuted' = nExecuted + 1
  /\ rnd' = "original"
  /\ UNCHANGED <<netVars, serverVars, inboxVars, answer, outboxVars,
                 outgoingVars>>

\* An exception leaves processCommand() before enqueueEvent(), for want of
\* memory say; HookedEndScene() catches and logs it.
ProcessingThrows ==
  /\ rnd = "process"
  /\ silent' = silent \cup {executing[1].op}
  /\ executing' = <<>>
  /\ nExecuted' = nExecuted + 1
  /\ rnd' = "original"
  /\ UNCHANGED <<netVars, serverVars, inboxVars, answer, outboxVars,
                 outgoingVars>>

LockOutboxRender ==
  /\ rnd = "lockOutbox"
  /\ outboxMutex = "free"
  /\ outboxMutex' = "render"
  /\ rnd' = "push"
  /\ UNCHANGED <<netVars, serverVars, inboxVars, executing, answer, nExecuted,
                 silent, outbox, outgoingVars>>

PushEvent ==
  /\ rnd = "push"
  /\ outbox' = outbox \o answer
  /\ answer' = <<>>
  /\ outboxMutex' = "free"
  /\ rnd' = "original"
  /\ UNCHANGED <<netVars, serverVars, inboxVars, executing, nExecuted, silent,
                 outgoingVars>>

\* Mistake: a return that leaves the inbox mutex locked.
OriginalEndSceneLocked ==
  /\ rnd = "original"
  /\ rnd' = "idle"
  /\ UNCHANGED <<netVars, serverVars, inboxVars, executing, answer, nExecuted, silent,
                 outboxVars, outgoingVars>>

OriginalEndScene ==
  /\ rnd = "original"
  /\ inboxMutex' = "free"
  /\ rnd' = "idle"
  /\ UNCHANGED <<netVars, serverVars, inbox, executing, answer, nExecuted, silent,
                 outboxVars, outgoingVars>>

-----------------------------------------------------------------------------
(***************************************************************************)
(* The outgoing thread.                                                    *)
(***************************************************************************)

\* Mistake: the outbox is taken although nobody is connected.
CheckClientForgotten ==
  /\ out = "check"
  /\ seenSession' = session
  /\ out' = "lockOutbox"
  /\ UNCHANGED <<netVars, serverVars, inboxVars, renderVars, outboxVars, batch,
                 target, sentPieces, sent, lost, stream, strayed>>

\* outgoingMessageThreadMain() and processOutgoingMessages() both test
\* m_currentClient; the second test is the one that counts.
CheckClient ==
  /\ out = "check"
  /\ currentClient # INVALID_SOCKET
  /\ seenSession' = session
  /\ out' = "lockOutbox"
  /\ UNCHANGED <<netVars, serverVars, inboxVars, renderVars, outboxVars, batch,
                 target, sentPieces, sent, lost, stream, strayed>>

LockOutboxOutgoing ==
  /\ out = "lockOutbox"
  /\ outboxMutex = "free"
  /\ outboxMutex' = "outgoing"
  /\ out' = "swap"
  /\ UNCHANGED <<netVars, serverVars, inboxVars, renderVars, outbox, batch,
                 target, sentPieces, seenSession, sent, lost, stream, strayed>>

\* Mistake: the outbox is copied, not swapped.
SwapOutboxCopies ==
  /\ out = "swap"
  /\ batch' = outbox
  /\ outboxMutex' = "free"
  /\ out' = "next"
  /\ UNCHANGED <<netVars, serverVars, inboxVars, renderVars, outbox, target, sentPieces,
                 seenSession, sent, lost, stream, strayed>>

SwapOutbox ==
  /\ out = "swap"
  /\ batch' = outbox
  /\ outbox' = batch
  /\ outboxMutex' = "free"
  /\ out' = "next"
  /\ UNCHANGED <<netVars, serverVars, inboxVars, renderVars, target, sentPieces,
                 seenSession, sent, lost, stream, strayed>>

\* localQueue is empty; the thread sleeps and polls again.
BatchDone ==
  /\ out \in {"next", "discard"}
  /\ batch = <<>>
  /\ out' = "check"
  /\ UNCHANGED <<netVars, serverVars, inboxVars, renderVars, outboxVars, batch,
                 target, sentPieces, seenSession, sent, lost, stream, strayed>>

\* Mistake: what could not be sent goes back to the end of the outbox.
DropRequeues(cause) ==
  /\ outbox' = Append(outbox, Head(batch))
  /\ batch' = Tail(batch)
  /\ UNCHANGED <<netVars, serverVars, inboxVars, renderVars, outboxMutex, target,
                 seenSession, sent, lost, stream, strayed>>

\* Mistake: it stays at the front of localQueue.
DropKeepsFront(cause) ==
  /\ UNCHANGED <<netVars, serverVars, inboxVars, renderVars, outboxVars, target,
                 seenSession, sent, lost, batch, stream, strayed>>

\* The front of localQueue is dropped.
Drop(cause) ==
  /\ lost' = lost \cup {[op |-> Head(batch).op, session |-> seenSession, cause |-> cause]}
  /\ batch' = Tail(batch)
  /\ UNCHANGED <<netVars, serverVars, inboxVars, renderVars, outboxVars, target,
                 seenSession, sent, stream, strayed>>

SerializeFails ==
  /\ out = "next"
  /\ batch # <<>>
  /\ Head(batch).type \in Unserializable
  /\ Drop("serialize")
  /\ UNCHANGED <<out, sentPieces>>

\* sendData() returns false at once: the client left after CheckClient.
NoClient ==
  /\ out = "next"
  /\ batch # <<>>
  /\ currentClient = INVALID_SOCKET
  /\ Drop("send")
  /\ UNCHANGED <<out, sentPieces>>

\* An exception, for want of memory say, leaves processOutgoingMessages();
\* outgoingMessageThreadMain() catches it and goes on.
SendingThrows ==
  /\ out = "next"
  /\ batch # <<>>
  /\ out' = "discard"
  /\ UNCHANGED <<netVars, serverVars, inboxVars, renderVars, outboxVars, batch,
                 target, sentPieces, seenSession, sent, lost, stream, strayed>>

\* localQueue is destroyed on the way out with the events that are left in it.
Discard ==
  /\ out = "discard"
  /\ batch # <<>>
  /\ Drop("exception")
  /\ UNCHANGED <<out, sentPieces>>

StartSend ==
  /\ out = "next"
  /\ batch # <<>>
  /\ currentClient # INVALID_SOCKET
  /\ target' = currentClient
  /\ seenSession' = session
  /\ sentPieces' = 0
  /\ out' = "send"
  /\ UNCHANGED <<netVars, serverVars, inboxVars, renderVars, outboxVars, batch,
                 sent, lost, stream, strayed>>

\* send() writes to whatever socket has the handle now: the connection that is
\* open, or one that the game has opened since the agent closed its own.  A
\* socket of the game may take the bytes, refuse them or not be there.
CanSend == target = openSocket => link \in {"up", "closing"}

Refused == target = openSocket => link = "broken"

\* Bytes that are taken end in the client's stream or in a socket of the game.
Write(pieces) ==
  /\ stream' = IF target = openSocket
               THEN [stream EXCEPT ![session] = @ \o pieces] ELSE stream
  /\ strayed' = IF target = openSocket
                THEN strayed ELSE strayed \cup {pieces[i] : i \in DOMAIN pieces}

\* Mistake: send(data), not send(data + totalSent).
WritePiecesFromStart(k) ==
  Write([i \in 1 .. k |-> [op |-> Head(batch).op, piece |-> i]])

WritePieces(k) ==
  Write([i \in 1 .. k |-> [op |-> Head(batch).op, piece |-> sentPieces + i]])

\* Mistake: the loop of sendData() goes round once too often.
SendSomeTooMuch ==
  /\ out = "send"
  /\ CanSend
  /\ \E k \in 1 .. Pieces - sentPieces :
       /\ WritePieces(k)
       /\ sentPieces' = sentPieces + k
  /\ UNCHANGED <<netVars, serverVars, inboxVars, renderVars, outboxVars, out,
                 batch, target, seenSession, sent, lost>>

\* send() takes a part of the frame, sendData() goes round again.
SendSome ==
  /\ out = "send"
  /\ CanSend
  /\ \E k \in 1 .. Pieces - 1 - sentPieces :
       /\ WritePieces(k)
       /\ sentPieces' = sentPieces + k
  /\ UNCHANGED <<netVars, serverVars, inboxVars, renderVars, outboxVars, out,
                 batch, target, seenSession, sent, lost>>

\* send() takes the rest and the event is popped.
SendRest ==
  /\ out = "send"
  /\ CanSend
  /\ WritePieces(Pieces - sentPieces)
  /\ sent' = sent \cup {Head(batch).op}
  /\ batch' = Tail(batch)
  /\ sentPieces' = 0
  /\ out' = "next"
  /\ UNCHANGED <<netVars, serverVars, inboxVars, renderVars, outboxVars, target,
                 seenSession, lost>>

\* send() fails: the handle is closed, the connection broken or the game's
\* socket not one to write to.  The event is popped all the same.
SendFails ==
  /\ out = "send"
  /\ Refused
  /\ Drop("send")
  /\ sentPieces' = 0
  /\ out' = "next"

-----------------------------------------------------------------------------
Server ==
  \/ Accept \/ OnClientConnected \/ ReceiveCommand \/ LockInboxServer \/ PushCommand
  \/ OnClientDisconnected \/ CloseSocket

Render ==
  \/ EnterEndScene \/ LockInboxRender \/ NoCommand \/ PopCommand \/ AnswerCommand
  \/ LeaveUnanswered \/ ProcessingThrows \/ LockOutboxRender \/ PushEvent
  \/ OriginalEndScene

Outgoing ==
  \/ CheckClient \/ LockOutboxOutgoing \/ SwapOutbox \/ BatchDone \/ SerializeFails
  \/ NoClient \/ SendingThrows \/ Discard \/ StartSend \/ SendSome \/ SendRest
  \/ SendFails

Next == PeerCloses \/ ConnectionBreaks \/ Server \/ Render \/ Outgoing

Spec == Init /\ [][Next]_vars

\* Each thread goes on as long as it can, and gets a mutex that is free again
\* and again: the render thread leaves the inbox mutex between two frames, the
\* outgoing thread the outbox mutex while it sends and sleeps.  Nothing is
\* asked of the controllers: they need not connect, send, read or go away; a
\* send() (SendSome, SendRest, SendFails) may wait for ever for room in the
\* socket's buffer, one of the game included.
Fairness ==
  /\ WF_vars(OnClientConnected \/ PushCommand \/ OnClientDisconnected \/ CloseSocket)
  /\ SF_vars(LockInboxServer)
  /\ SF_vars(LockInboxRender)
  /\ WF_vars(Render)
  /\ SF_vars(LockOutboxRender)
  /\ WF_vars(CheckClient \/ SwapOutbox \/ BatchDone \/ SerializeFails \/ NoClient
             \/ Discard \/ StartSend)
  /\ SF_vars(LockOutboxOutgoing)

FairSpec == Spec /\ Fairness

-----------------------------------------------------------------------------
(***************************************************************************)
(* Safety.                                                                 *)
(***************************************************************************)
Commands == executing \o inbox \o arriving
Events == batch \o outbox \o answer

OpsOf(q) == {q[i].op : i \in DOMAIN q}

LostOps == {l.op : l \in lost}

\* From the socket to the render thread no command is dropped, duplicated or
\* overtaken: those under way are exactly the ones received and not executed,
\* in the order of their arrival, wherever the two threads are.
CommandsConserved ==
  /\ nReceived = nExecuted + Len(Commands)
  /\ \A i \in DOMAIN Commands : Commands[i].op = nExecuted + i

\* Every executed command has one fate: it called for no event, its event was
\* sent, its event was dropped, or its event is still under way; never two.
EveryCommandAccountedFor ==
  /\ 1 .. nExecuted = silent \cup sent \cup LostOps \cup OpsOf(Events)
  /\ silent \cap (sent \cup LostOps \cup OpsOf(Events)) = {}
  /\ sent \cap (LostOps \cup OpsOf(Events)) = {}
  /\ LostOps \cap OpsOf(Events) = {}

\* Answers keep the order of their commands across both queues and the swap,
\* and no event is under way that should have gone before one already gone.
AnswersInOrder ==
  /\ \A i, j \in DOMAIN Events : i < j => Events[i].op < Events[j].op
  /\ \A i \in DOMAIN Events : \A op \in sent \cup LostOps : op < Events[i].op

Departed(s) == s < session \/ link # "up"

\* What becomes of an answer between sendData() and the handle it was given: an
\* answer that send() did not take was meant for a client that is going or gone,
\* and only such a client's answer can end in a socket of the game.  (Answers
\* that do not serialize, or that an exception destroys with localQueue, are
\* lost for a client that stays as well.)
LostOnlyToDepartedClient ==
  /\ \A l \in lost : l.cause = "send" => Departed(l.session)
  /\ out = "send" /\ target # openSocket => Departed(seenSession)

\* A controller loses the framing at most at the edges of its connection:
\* inside a stream every frame is whole and ends before the next begins.
FramesWholeInside ==
  \A s \in DOMAIN stream : \A i \in 1 .. Len(stream[s]) - 1 :
    LET a == stream[s][i]
        b == stream[s][i + 1]
    IN \/ a.op = b.op /\ b.piece = a.piece + 1
       \/ a.op < b.op /\ a.piece = Pieces /\ b.piece = 1

-----------------------------------------------------------------------------
(***************************************************************************)
(* The pipeline implements the command-event bridge.                       *)
(***************************************************************************)
Bridge == INSTANCE CommandEventBridge
            WITH executed <- nExecuted, commands <- Commands, events <- Events

\* With the queues of the three threads joined end to end the agent is the
\* bridge that README.md promises: one command at a time, first come first
\* executed, at most one event each and of the type it calls for.
BridgeSpec == Bridge!Spec

(***************************************************************************)
(* Liveness, under Fairness.                                               *)
(***************************************************************************)

\* Every command that reaches the agent is executed, whatever the clients do
\* later: they may leave, or stay and not read their answers.
CommandsExecuted == \A n \in 1 .. MaxCommands : nReceived >= n ~> nExecuted >= n

\* A frame that the game renders ends although it waits for the inbox mutex, in
\* HookedEndScene(), and for the outbox mutex inside it, and executes commands:
\* no controller can hold the game up.
FrameCompletes == rnd # "idle" ~> rnd = "idle"

\* While a client stays and reads, the outbox and the batch empty.
EventsDrain ==
  /\ <>[](currentClient # INVALID_SOCKET)
  /\ []<>(out # "send")
  => <>[](Events = <<>>)

-----------------------------------------------------------------------------
(***************************************************************************)
(* A claim of the documentation that the code does not live up to.         *)
(***************************************************************************)

\* ProtocolHandler.hpp: "Uses big-endian 4-byte length prefix followed by
\* payload".  What a controller reads on a connection starts with a length
\* prefix.  sendData() finishes a frame on a handle that may be another
\* client's by then, and part of it may have gone to a socket of the game.
StreamsStartWithPrefix ==
  \A s \in DOMAIN stream : stream[s] # <<>> => stream[s][1].piece = 1

============================================================================
