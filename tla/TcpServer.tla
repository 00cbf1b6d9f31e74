----------------------------- MODULE TcpServer -----------------------------
(***************************************************************************)
(* The transport's TCP server: start(), stop() and the server thread, down *)
(* to the socket calls.  One thread, the owner (NetworkManager on behalf   *)
(* of main.cpp), calls start() once and stop() once; the server thread     *)
(* serves one client after the other.  They share m_running, which is      *)
(* atomic, m_clientSocket under its mutex, and m_listenerSocket under      *)
(* nothing (an aligned word: a read returns the old or the new value).     *)
(*                                                                         *)
(* Sockets are kernel objects named by handles, and a closed handle's      *)
(* value comes back for the next socket that anybody in the process opens: *)
(* the agent is a guest in the game's process.  sock says what each handle *)
(* names now.  What the callbacks do is NetworkManager's business; here    *)
(* the data callback takes its time and the others do not.                 *)
(*                                                                         *)
(* A definition introduced as "Mistake" is a mutation of the one after it. *)
(* No specification uses it; it shows what breaks a property (README).     *)
(***************************************************************************)
EXTENDS Integers

CONSTANTS
  Handles,           \* SOCKET values
  INVALID_SOCKET,
  MaxSessions        \* bound: connections accepted

ASSUME HandlesAssumption == INVALID_SOCKET \notin Handles
ASSUME SessionsAssumption == MaxSessions \in Nat

VARIABLES
  running,           \* m_running
  listenerSocket,    \* m_listenerSocket
  clientSocket,      \* m_clientSocket
  sock,              \* what each handle names
  wsa,               \* WSAStartup() calls not undone by WSACleanup()
  own,               \* where the owner is in start() or stop()
  srv,               \* where the server thread is
  accepting,         \* the handle the server thread gave to accept()
  client,            \* serverThreadMain()'s and handleClient()'s clientSocket
  (*************************************************************************)
  (* History.                                                              *)
  (*************************************************************************)
  session,           \* connections accepted
  timedOut,          \* stop() gave up waiting for the server thread
  foreignClosed      \* the agent closed a socket of the game

ownerVars == <<running, listenerSocket, wsa, own, timedOut>>
serverVars == <<srv, accepting, client, session>>
socketVars == <<clientSocket, sock, foreignClosed>>
vars == <<ownerVars, serverVars, socketVars>>

\* A connection is up, half closed by its peer, broken, or shut down by stop().
Connection == {"up", "closing", "broken", "shut"}

SocketOrNone == Handles \cup {INVALID_SOCKET}

StopPoints == {"shutdown", "closeListener", "clearListener", "wait", "closeClient",
               "cleanup", "stopped"}

StartPoints == {"new", "socket", "bind", "run", "createThread", "failed", "started"}

\* The points of serverThreadMain() at which the accepted socket, stored in
\* m_clientSocket, is its own to use.
Handling == {"connected", "loop", "recv", "data", "disconnected", "close"}

TypeOK ==
  /\ running \in BOOLEAN
  /\ listenerSocket \in SocketOrNone
  /\ clientSocket \in SocketOrNone
  /\ sock \in [Handles -> {"free", "bound", "listening", "game"} \cup Connection]
  /\ wsa \in 0 .. 1
  /\ own \in StartPoints \cup StopPoints
  /\ srv \in Handling \cup
            {"none", "check", "accept", "accepting", "store", "clear", "done"}
  /\ accepting \in SocketOrNone
  /\ client \in SocketOrNone
  /\ session \in 0 .. MaxSessions
  /\ timedOut \in BOOLEAN
  /\ foreignClosed \in BOOLEAN

Init ==
  /\ running = FALSE
  /\ listenerSocket = INVALID_SOCKET /\ clientSocket = INVALID_SOCKET
  /\ sock = [h \in Handles |-> "free"]
  /\ wsa = 0
  /\ own = "new"
  /\ srv = "none" /\ accepting = INVALID_SOCKET /\ client = INVALID_SOCKET
  /\ session = 0 /\ timedOut = FALSE /\ foreignClosed = FALSE

-----------------------------------------------------------------------------
(***************************************************************************)
(* Sockets.                                                                *)
(***************************************************************************)
\* socket() or accept() names a new object by a free handle.
Open(h, what) ==
  /\ sock[h] = "free"
  /\ sock' = [sock EXCEPT ![h] = what]

\* closesocket(): whatever the handle names is gone; nothing happens to a
\* handle that names nothing.
Close(h) ==
  /\ sock' = [sock EXCEPT ![h] = "free"]
  /\ foreignClosed' = (foreignClosed \/ sock[h] = "game")

\* The peers and the game.
PeerCloses ==
  /\ \E h \in Handles : sock[h] = "up" /\ sock' = [sock EXCEPT ![h] = "closing"]
  /\ UNCHANGED <<ownerVars, serverVars, clientSocket, foreignClosed>>

ConnectionBreaks ==
  /\ \E h \in Handles :
       sock[h] \in {"up", "closing"} /\ sock' = [sock EXCEPT ![h] = "broken"]
  /\ UNCHANGED <<ownerVars, serverVars, clientSocket, foreignClosed>>

GameOpensSocket ==
  /\ \E h \in Handles : Open(h, "game")
  /\ UNCHANGED <<ownerVars, serverVars, clientSocket, foreignClosed>>

GameClosesSocket ==
  /\ \E h \in Handles : sock[h] = "game" /\ sock' = [sock EXCEPT ![h] = "free"]
  /\ UNCHANGED <<ownerVars, serverVars, clientSocket, foreignClosed>>

-----------------------------------------------------------------------------
(***************************************************************************)
(* start().  Each call that can fail undoes the ones before it.            *)
(***************************************************************************)
WSAStartup ==
  /\ own = "new"
  /\ \/ own' = "failed" /\ UNCHANGED wsa
     \/ own' = "socket" /\ wsa' = wsa + 1
  /\ UNCHANGED <<running, listenerSocket, timedOut, serverVars, socketVars>>

OpenListener ==
  /\ own = "socket"
  /\ \E h \in Handles :
       Open(h, "bound") /\ listenerSocket' = h
  /\ own' = "bind"
  /\ UNCHANGED <<running, wsa, timedOut, serverVars, clientSocket,
                 foreignClosed>>

SocketFails ==
  /\ own = "socket"
  /\ listenerSocket' = INVALID_SOCKET
  /\ wsa' = wsa - 1
  /\ own' = "failed"
  /\ UNCHANGED <<running, timedOut, serverVars, socketVars>>

BindAndListen ==
  /\ own = "bind"
  /\ sock' = [sock EXCEPT ![listenerSocket] = "listening"]
  /\ own' = "run"
  /\ UNCHANGED <<running, listenerSocket, wsa, timedOut, serverVars,
                 clientSocket, foreignClosed>>

\* Mistake: the listener stays open.
BindOrListenFailsLeaks ==
  /\ own = "bind"
  /\ wsa' = wsa - 1
  /\ own' = "failed"
  /\ UNCHANGED <<running, listenerSocket, timedOut, serverVars, socketVars>>

\* bind() or listen() fails; m_listenerSocket keeps the closed handle.
BindOrListenFails ==
  /\ own = "bind"
  /\ Close(listenerSocket)
  /\ wsa' = wsa - 1
  /\ own' = "failed"
  /\ UNCHANGED <<running, listenerSocket, timedOut, serverVars, clientSocket>>

SetRunning ==
  /\ own = "run"
  /\ running' = TRUE
  /\ own' = "createThread"
  /\ UNCHANGED <<listenerSocket, wsa, timedOut, serverVars, socketVars>>

CreateServerThread ==
  /\ own = "createThread"
  /\ srv' = "check"
  /\ own' = "started"
  /\ UNCHANGED <<running, listenerSocket, wsa, accepting, client, session,
                 timedOut, socketVars>>

CreateThreadFails ==
  /\ own = "createThread"
  /\ running' = FALSE
  /\ Close(listenerSocket)
  /\ wsa' = wsa - 1
  /\ own' = "failed"
  /\ UNCHANGED <<listenerSocket, timedOut, serverVars, clientSocket>>

-----------------------------------------------------------------------------
(***************************************************************************)
(* stop().  It returns at once unless m_running is TRUE, so that it does   *)
(* nothing after a start() that failed.                                    *)
(***************************************************************************)
\* Mistake: stop() does not ask whether the server runs.
StopBeginsAnyway ==
  /\ own \in {"started", "failed"}
  /\ running' = FALSE
  /\ own' = "shutdown"
  /\ UNCHANGED <<listenerSocket, wsa, timedOut, serverVars, socketVars>>

\* Mistake: m_running stays TRUE until stop() is over.
StopBeginsRunning ==
  /\ own = "started"
  /\ running
  /\ own' = "shutdown"
  /\ UNCHANGED <<running, listenerSocket, wsa, timedOut, serverVars, socketVars>>

StopBegins ==
  /\ own = "started"
  /\ running
  /\ running' = FALSE
  /\ own' = "shutdown"
  /\ UNCHANGED <<listenerSocket, wsa, timedOut, serverVars, socketVars>>

\* shutdown() makes recv() return; on a socket that is no connection it fails.
\* A socket of the game that has m_clientSocket's stale value is shut down.
ShutdownClient ==
  /\ own = "shutdown"
  /\ sock' = IF clientSocket # INVALID_SOCKET /\ sock[clientSocket] \in Connection
             THEN [sock EXCEPT ![clientSocket] = "shut"]
             ELSE sock
  /\ own' = "closeListener"
  /\ UNCHANGED <<running, listenerSocket, wsa, timedOut, serverVars, clientSocket,
                 foreignClosed>>

\* Mistake: m_listenerSocket is reset and the socket left open.
CloseListenerForgotten ==
  /\ own = "closeListener"
  /\ own' = "clearListener"
  /\ UNCHANGED <<running, listenerSocket, wsa, timedOut, serverVars, socketVars>>

CloseListener ==
  /\ own = "closeListener"
  /\ IF listenerSocket # INVALID_SOCKET
     THEN Close(listenerSocket)
     ELSE UNCHANGED <<sock, foreignClosed>>
  /\ own' = "clearListener"
  /\ UNCHANGED <<running, listenerSocket, wsa, timedOut, serverVars,
                 clientSocket>>

ClearListener ==
  /\ own = "clearListener"
  /\ listenerSocket' = INVALID_SOCKET
  /\ own' = "wait"
  /\ UNCHANGED <<running, wsa, timedOut, serverVars, socketVars>>

WaitForThread ==
  /\ own = "wait"
  /\ srv \in {"none", "done"}
  /\ own' = "closeClient"
  /\ UNCHANGED <<running, listenerSocket, wsa, timedOut, serverVars, socketVars>>

\* Mistake: WaitForSingleObject() with INFINITE.
WaitTimesOutNever == own = "wait" /\ srv = "done" /\ UNCHANGED vars

\* Five seconds pass.  They do so only while the server thread is in the data
\* callback, which waits for the inbox mutex: the render thread may hold it
\* for as long as the game takes to run a command and draw a frame.
WaitTimesOut ==
  /\ own = "wait"
  /\ srv = "data"
  /\ timedOut' = TRUE
  /\ own' = "closeClient"
  /\ UNCHANGED <<running, listenerSocket, wsa, serverVars, socketVars>>

CloseClient ==
  /\ own = "closeClient"
  /\ IF clientSocket # INVALID_SOCKET
     THEN Close(clientSocket)
     ELSE UNCHANGED <<sock, foreignClosed>>
  /\ clientSocket' = INVALID_SOCKET
  /\ own' = "cleanup"
  /\ UNCHANGED <<running, listenerSocket, wsa, timedOut, serverVars>>

WSACleanup ==
  /\ own = "cleanup"
  /\ wsa' = wsa - 1
  /\ own' = "stopped"
  /\ UNCHANGED <<running, listenerSocket, timedOut, serverVars, socketVars>>

-----------------------------------------------------------------------------
(***************************************************************************)
(* The server thread.                                                      *)
(***************************************************************************)
CheckRunning ==
  /\ srv = "check"
  /\ srv' = IF running THEN "accept" ELSE "done"
  /\ UNCHANGED <<ownerVars, accepting, client, session, socketVars>>

\* m_listenerSocket is read here; stop() may close or clear it at any time.
CallAccept ==
  /\ srv = "accept"
  /\ accepting' = listenerSocket
  /\ srv' = "accepting"
  /\ UNCHANGED <<ownerVars, client, session, socketVars>>

Listening(h) == h # INVALID_SOCKET /\ sock[h] = "listening"

AcceptReturns ==
  /\ srv = "accepting"
  /\ Listening(accepting)
  /\ session < MaxSessions
  /\ \E h \in Handles : Open(h, "up") /\ client' = h
  /\ session' = session + 1
  /\ srv' = "store"
  /\ UNCHANGED <<ownerVars, accepting, clientSocket, foreignClosed>>

\* The listener is closed, and the thread ends.
AcceptAborted ==
  /\ srv = "accepting"
  /\ ~ Listening(accepting)
  /\ srv' = "done"
  /\ UNCHANGED <<ownerVars, accepting, client, session, socketVars>>

\* accept() fails although the listener is fine: the client went away while it
\* was queued, or the process is short of sockets.  The thread ends.
AcceptFails ==
  /\ srv = "accepting"
  /\ Listening(accepting)
  /\ srv' = "done"
  /\ UNCHANGED <<ownerVars, accepting, client, session, socketVars>>

StoreClient ==
  /\ srv = "store"
  /\ clientSocket' = client
  /\ srv' = "connected"
  /\ UNCHANGED <<ownerVars, accepting, client, session, sock, foreignClosed>>

ClientConnected ==
  /\ srv = "connected"
  /\ srv' = "loop"
  /\ UNCHANGED <<ownerVars, accepting, client, session, socketVars>>

\* Mistake: while (true).
HandleClientLoopForever ==
  /\ srv = "loop"
  /\ srv' = "recv"
  /\ UNCHANGED <<ownerVars, accepting, client, session, socketVars>>

HandleClientLoop ==
  /\ srv = "loop"
  /\ srv' = IF running THEN "recv" ELSE "disconnected"
  /\ UNCHANGED <<ownerVars, accepting, client, session, socketVars>>

RecvData ==
  /\ srv = "recv"
  /\ sock[client] \in {"up", "closing"}
  /\ srv' = "data"
  /\ UNCHANGED <<ownerVars, accepting, client, session, socketVars>>

\* recv() returns 0 or fails.
RecvEnds ==
  /\ srv = "recv"
  /\ sock[client] # "up"
  /\ srv' = "disconnected"
  /\ UNCHANGED <<ownerVars, accepting, client, session, socketVars>>

DataCallbackReturns ==
  /\ srv = "data"
  /\ srv' = "loop"
  /\ UNCHANGED <<ownerVars, accepting, client, session, socketVars>>

ClientDisconnected ==
  /\ srv = "disconnected"
  /\ srv' = "close"
  /\ UNCHANGED <<ownerVars, accepting, client, session, socketVars>>

CloseClientSocket ==
  /\ srv = "close"
  /\ Close(client)
  /\ srv' = "clear"
  /\ UNCHANGED <<ownerVars, accepting, client, session, clientSocket>>

\* Mistake: m_clientSocket keeps the closed handle.
ClearClientForgotten ==
  /\ srv = "clear"
  /\ srv' = "check"
  /\ UNCHANGED <<ownerVars, accepting, client, session, socketVars>>

ClearClient ==
  /\ srv = "clear"
  /\ clientSocket' = INVALID_SOCKET
  /\ srv' = "check"
  /\ UNCHANGED <<ownerVars, accepting, client, session, sock, foreignClosed>>

-----------------------------------------------------------------------------
Environment == PeerCloses \/ ConnectionBreaks \/ GameOpensSocket \/ GameClosesSocket

Start ==
  \/ WSAStartup \/ OpenListener \/ SocketFails \/ BindAndListen \/ BindOrListenFails
  \/ SetRunning \/ CreateServerThread \/ CreateThreadFails

Stop ==
  \/ ShutdownClient \/ CloseListener \/ ClearListener \/ WaitForThread \/ WaitTimesOut
  \/ CloseClient \/ WSACleanup

\* What the server thread does by itself, and what it waits for.
ServerRuns ==
  \/ CheckRunning \/ CallAccept \/ AcceptAborted \/ StoreClient \/ ClientConnected
  \/ HandleClientLoop \/ RecvEnds \/ ClientDisconnected \/ CloseClientSocket \/ ClearClient

ServerWaits == AcceptReturns \/ AcceptFails \/ RecvData \/ DataCallbackReturns

Next == Environment \/ Start \/ StopBegins \/ Stop \/ ServerRuns \/ ServerWaits

Spec == Init /\ [][Next]_vars

\* The owner finishes the stop() it has begun, timeout included, and the
\* server thread goes on while it does not wait.  Whether a client comes,
\* sends or goes, and whether the data callback ever returns, is open.
FairSpec == Spec /\ WF_vars(Stop) /\ WF_vars(ServerRuns)

-----------------------------------------------------------------------------
(***************************************************************************)
(* Safety.                                                                 *)
(***************************************************************************)
\* The comment of stop(): shutdown() unblocks recv(), closing the listener
\* unblocks accept().  There is no order of the two threads' steps in which
\* the server thread is left in a call that nothing will end, not even when a
\* client is accepted while stop() is on its way.
StopUnblocksThread ==
  own \in {"wait", "closeClient", "cleanup", "stopped"} =>
    /\ srv = "accepting" => ~ Listening(accepting)
    /\ srv = "recv" => sock[client] # "up"

\* recv() is called on the connection that accept() returned, never on a
\* handle that stop() has closed under the server thread after its timeout.
RecvOnConnection == srv = "recv" => sock[client] \in Connection

\* When stop() and the server thread are both over, or start() has failed,
\* no socket of the agent is open and Winsock is released as often as it was
\* started.
NothingLeftOpen ==
  own \in {"stopped", "failed"} /\ srv \in {"none", "done"} =>
    /\ \A h \in Handles : sock[h] \in {"free", "game"}
    /\ wsa = 0

\* The agent closes each of its sockets once and none of the game's, unless
\* stop() gave up waiting.
ForeignClosedOnlyAfterTimeout == foreignClosed => timedOut

(***************************************************************************)
(* Liveness.                                                               *)
(***************************************************************************)
\* stop() returns, whatever the client and the data callback do.
StopReturns == own = "shutdown" ~> own = "stopped"

\* A server thread whose data callback returns ends after stop() has begun.
ThreadEnds == []<>(srv # "data") => (own = "shutdown" ~> srv = "done")

-----------------------------------------------------------------------------
(***************************************************************************)
(* A claim that the code does not live up to.                              *)
(***************************************************************************)
\* stop(): "Now close the client socket after thread has finished".
ClientClosedAfterThread == own = "closeClient" => srv = "done"

============================================================================
