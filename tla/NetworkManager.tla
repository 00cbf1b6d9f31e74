--------------------------- MODULE NetworkManager ---------------------------
(***************************************************************************)
(* startServer() and stopServer() of the NetworkManager on top of          *)
(* TcpServer: the callbacks it lends to the server thread, the outgoing    *)
(* thread it joins, the pointers to the queues it resets, and the          *)
(* destruction of it all by Cleanup().  Every step of the TCP server is an *)
(* action of module TcpServer; the points of a callback (cb) lie inside    *)
(* the point of the server thread that makes the call.                     *)
(*                                                                         *)
(* The render thread appears as somebody who holds the inbox mutex for as  *)
(* long as it likes once the context is published.  Outbox, frames and     *)
(* receive buffer are CommandPipeline's and Framing's.                     *)
(*                                                                         *)
(* fault is the first step without a meaning: the call of an empty         *)
(* std::function, a null pointer, or a destroyed object.  Nothing is said  *)
(* of what comes after.                                                    *)
(*                                                                         *)
(* A definition introduced as "Mistake" is a mutation of the one after it. *)
(* No specification uses it; it shows what breaks a property (README).     *)
(***************************************************************************)
EXTENDS TcpServer

VARIABLES
  nm,                \* where the owner is in startServer() or stopServer()
  netRunning,        \* NetworkManager::m_running
  callbacks,         \* TcpServer's std::functions that are not empty
  cb,                \* where the server thread is in a callback
  currentClient,     \* m_currentClient
  queues,            \* m_inboxQueue, m_inboxMutex etc. are not null
  inboxHeld,         \* the render thread holds the inbox mutex
  out,               \* where the outgoing thread is
  target,            \* sendData()'s clientSocket
  fault

netVars == <<nm, netRunning, callbacks, cb, currentClient, queues, inboxHeld, out, target,
             fault>>
nmVars == <<vars, netVars>>

\* The order in which stopServer() clears the callbacks.
ClearedBefore ==
  [data         |-> {},
   connected    |-> {"data"},
   disconnected |-> {"data", "connected"},
   error        |-> {"data", "connected", "disconnected"}]

Callbacks == DOMAIN ClearedBefore

\* The callback that serverThreadMain() or handleClient() makes at a point.
CallbackAt ==
  [connected |-> "connected", data |-> "data", disconnected |-> "disconnected",
   accepting |-> "error"]

NMTypeOK ==
  /\ TypeOK
  /\ nm \in {"new", "starting", "spawn", "undo", "failed", "up", "clear", "join", "stopping",
             "over", "destroyed"}
  /\ netRunning \in BOOLEAN
  /\ callbacks \subseteq Callbacks
  /\ cb \in {"none", "call", "frame", "deref", "lock"}
  /\ currentClient \in SocketOrNone
  /\ queues \in BOOLEAN
  /\ inboxHeld \in BOOLEAN
  /\ out \in {"none", "test", "client", "send", "sending", "failed", "call", "ended", "joined"}
  /\ target \in SocketOrNone
  /\ out = "sending" => target \in Handles
  /\ fault \in {"none", "empty callback", "null pointer", "destroyed"}

NMInit ==
  /\ Init
  /\ nm = "new" /\ netRunning = FALSE /\ callbacks = {} /\ cb = "none"
  /\ currentClient = INVALID_SOCKET /\ queues = FALSE /\ inboxHeld = FALSE
  /\ out = "none" /\ target = INVALID_SOCKET /\ fault = "none"

Fault(f) == fault' = f /\ UNCHANGED <<vars, nm, netRunning, callbacks, cb, currentClient,
                                      queues, inboxHeld, out, target>>

-----------------------------------------------------------------------------
(***************************************************************************)
(* The owner.                                                              *)
(***************************************************************************)
StartServer ==
  /\ nm = "new"
  /\ queues' = TRUE /\ callbacks' = Callbacks
  /\ nm' = "starting"
  /\ UNCHANGED <<vars, netRunning, cb, currentClient, inboxHeld, out, target, fault>>

\* TcpServer::start(), and the store to m_running when it has succeeded.
StartTcpServer ==
  /\ nm = "starting"
  /\ Start
  /\ UNCHANGED netVars

SetNetRunning ==
  /\ nm = "starting" /\ own = "started"
  /\ netRunning' = TRUE
  /\ nm' = "spawn"
  /\ UNCHANGED <<vars, callbacks, cb, currentClient, queues, inboxHeld, out, target, fault>>

StartFails ==
  /\ nm = "starting" /\ own = "failed"
  /\ nm' = "failed"
  /\ UNCHANGED <<vars, netRunning, callbacks, cb, currentClient, queues, inboxHeld, out,
                 target, fault>>

SpawnOutgoing ==
  /\ nm = "spawn"
  /\ out' = "test"
  /\ nm' = "up"
  /\ UNCHANGED <<vars, netRunning, callbacks, cb, currentClient, queues, inboxHeld, target,
                 fault>>

\* Mistake: the TCP server goes on without the outgoing thread.
SpawnFailsStays ==
  /\ nm = "spawn"
  /\ netRunning' = FALSE
  /\ nm' = "failed"
  /\ UNCHANGED <<vars, callbacks, cb, currentClient, queues, inboxHeld, out, target, fault>>

SpawnFails ==
  /\ nm = "spawn"
  /\ netRunning' = FALSE
  /\ nm' = "undo"
  /\ UNCHANGED <<vars, callbacks, cb, currentClient, queues, inboxHeld, out, target, fault>>

\* Mistake: m_running stays TRUE.
StopServerRunning ==
  /\ nm = "up"
  /\ nm' = "clear"
  /\ UNCHANGED <<vars, netRunning, callbacks, cb, currentClient, queues, inboxHeld, out,
                 target, fault>>

StopServer ==
  /\ nm = "up"
  /\ netRunning' = FALSE
  /\ nm' = "clear"
  /\ UNCHANGED <<vars, callbacks, cb, currentClient, queues, inboxHeld, out, target, fault>>

ClearCallback ==
  /\ nm = "clear"
  /\ \E c \in callbacks :
       /\ callbacks \cap ClearedBefore[c] = {}
       /\ callbacks' = callbacks \ {c}
  /\ nm' = IF callbacks' = {} THEN "join" ELSE "clear"
  /\ UNCHANGED <<vars, netRunning, cb, currentClient, queues, inboxHeld, out, target, fault>>

Join ==
  /\ nm = "join"
  /\ out = "ended"
  /\ out' = "joined"
  /\ nm' = "stopping"
  /\ UNCHANGED <<vars, netRunning, callbacks, cb, currentClient, queues, inboxHeld, target,
                 fault>>

\* TcpServer::stop().  Its wait of five seconds is over before the server thread only
\* when that thread waits for the inbox mutex of a published context, which the render
\* thread has held: nothing else in the server thread takes long.
StopTcpServer ==
  /\ nm \in {"stopping", "undo"}
  /\ \/ StopBegins
     \/ Stop /\ (own = "wait" /\ srv = "data" => cb = "lock" /\ nm = "stopping")
  /\ UNCHANGED netVars

UndoEnds ==
  /\ nm = "undo" /\ own = "stopped"
  /\ nm' = "failed"
  /\ UNCHANGED <<vars, netRunning, callbacks, cb, currentClient, queues, inboxHeld, out,
                 target, fault>>

\* Mistake: the pointers are reset before the TCP server is stopped.
ResetStateEarly ==
  /\ nm = "stopping"
  /\ currentClient' = INVALID_SOCKET /\ queues' = FALSE
  /\ nm' = IF own = "stopped" THEN "over" ELSE "stopping"
  /\ UNCHANGED <<vars, netRunning, callbacks, cb, inboxHeld, out, target, fault>>

ResetState ==
  /\ nm = "stopping" /\ own = "stopped"
  /\ currentClient' = INVALID_SOCKET /\ queues' = FALSE
  /\ nm' = "over"
  /\ UNCHANGED <<vars, netRunning, callbacks, cb, inboxHeld, out, target, fault>>

\* g_appContext.reset() in Cleanup().
Destroy ==
  /\ nm = "over"
  /\ nm' = "destroyed"
  /\ UNCHANGED <<vars, netRunning, callbacks, cb, currentClient, queues, inboxHeld, out,
                 target, fault>>

-----------------------------------------------------------------------------
(***************************************************************************)
(* The server thread: TcpServer's steps, and the callbacks.                *)
(***************************************************************************)
TcpServerStep ==
  /\ nm # "destroyed" /\ cb = "none"
  /\ \/ CheckRunning \/ CallAccept \/ AcceptReturns \/ AcceptAborted \/ StoreClient
     \/ HandleClientLoop \/ RecvData \/ RecvEnds \/ CloseClientSocket \/ ClearClient
  /\ UNCHANGED netVars

\* The step of TcpServer that a callback lies in comes to its end.
CallbackOver == ClientConnected \/ DataCallbackReturns \/ ClientDisconnected \/ AcceptFails

\* if (m_...Callback).  An accept() that fails calls back while the server runs.
TestCallback ==
  /\ nm # "destroyed" /\ cb = "none"
  /\ srv \in DOMAIN CallbackAt
  /\ \/ /\ CallbackAt[srv] \in callbacks
        /\ srv = "accepting" => running /\ Listening(accepting)
        /\ cb' = "call"
        /\ UNCHANGED vars
     \/ /\ CallbackAt[srv] \notin callbacks \/ (srv = "accepting" /\ ~ running)
        /\ CallbackOver
        /\ UNCHANGED cb
  /\ UNCHANGED <<nm, netRunning, callbacks, currentClient, queues, inboxHeld, out, target,
                 fault>>

CanCall == nm # "destroyed" /\ cb = "call" /\ CallbackAt[srv] \in callbacks

CallEmpty ==
  /\ nm # "destroyed" /\ cb = "call"
  /\ CallbackAt[srv] \notin callbacks
  /\ Fault("empty callback")

\* Mistake: the old client is forgotten only when there is a new one.
OnClientDisconnectedKeeps ==
  /\ CanCall /\ srv = "disconnected"
  /\ cb' = "none"
  /\ ClientDisconnected
  /\ UNCHANGED <<nm, netRunning, callbacks, currentClient, queues, inboxHeld, out, target,
                 fault>>

OnClientDisconnected ==
  /\ CanCall /\ srv = "disconnected"
  /\ currentClient' = IF currentClient = client THEN INVALID_SOCKET ELSE currentClient
  /\ cb' = "none"
  /\ ClientDisconnected
  /\ UNCHANGED <<nm, netRunning, callbacks, queues, inboxHeld, out, target, fault>>

OnClientConnected ==
  /\ CanCall /\ srv = "connected"
  /\ currentClient' = client
  /\ cb' = "none"
  /\ ClientConnected
  /\ UNCHANGED <<nm, netRunning, callbacks, queues, inboxHeld, out, target, fault>>

OnNetworkError ==
  /\ CanCall /\ srv = "accepting"
  /\ cb' = "none"
  /\ srv' = "done"
  /\ UNCHANGED <<ownerVars, accepting, client, session, socketVars, nm, netRunning, callbacks,
                 currentClient, queues, inboxHeld, out, target, fault>>

\* onDataReceived() returns at once when the manager does not run.
OnDataReceived ==
  /\ CanCall /\ srv = "data"
  /\ \/ netRunning /\ cb' = "frame" /\ UNCHANGED vars
     \/ ~ netRunning /\ cb' = "none" /\ DataCallbackReturns
  /\ UNCHANGED <<nm, netRunning, callbacks, currentClient, queues, inboxHeld, out, target,
                 fault>>

\* Its loop: no complete frame is left, or onMessageReceived() goes past its tests.
NextFrame ==
  /\ nm # "destroyed" /\ cb = "frame"
  /\ \/ cb' = "none" /\ DataCallbackReturns
     \/ netRunning /\ queues /\ cb' = "deref" /\ UNCHANGED vars
  /\ UNCHANGED <<nm, netRunning, callbacks, currentClient, queues, inboxHeld, out, target,
                 fault>>

\* lock_guard(*m_inboxMutex).
UseInboxMutex ==
  /\ nm # "destroyed" /\ cb = "deref"
  /\ queues
  /\ cb' = "lock"
  /\ UNCHANGED <<vars, nm, netRunning, callbacks, currentClient, queues, inboxHeld, out,
                 target, fault>>

\* The mutex is free; m_inboxQueue->push().
PushCommand ==
  /\ nm # "destroyed" /\ cb = "lock"
  /\ ~ inboxHeld
  /\ queues
  /\ cb' = "frame"
  /\ UNCHANGED <<vars, nm, netRunning, callbacks, currentClient, queues, inboxHeld, out,
                 target, fault>>

UseNullPointer ==
  /\ nm # "destroyed"
  /\ ~ queues
  /\ cb = "deref" \/ (cb = "lock" /\ ~ inboxHeld)
  /\ Fault("null pointer")

UseDestroyed ==
  /\ nm = "destroyed"
  /\ srv \notin {"none", "done"}
  /\ Fault("destroyed")

-----------------------------------------------------------------------------
(***************************************************************************)
(* The outgoing thread.                                                    *)
(***************************************************************************)
OutGoto(p) ==
  /\ out' = p
  /\ UNCHANGED <<vars, nm, netRunning, callbacks, cb, currentClient, queues, inboxHeld, target,
                 fault>>

\* while (m_running).
TestNetRunning == out = "test" /\ OutGoto(IF netRunning THEN "client" ELSE "ended")

\* A client, and something in the outbox for it.
ProcessOutgoing ==
  /\ out = "client"
  /\ \/ OutGoto("test")
     \/ netRunning /\ currentClient # INVALID_SOCKET /\ OutGoto("send")

\* sendData(m_currentClient, ...), or the batch has come to its end.
SendData ==
  /\ out = "send"
  /\ target' = currentClient
  /\ out' \in (IF currentClient = INVALID_SOCKET THEN {"send"} ELSE {"sending"}) \cup {"test"}
  /\ UNCHANGED <<vars, nm, netRunning, callbacks, cb, currentClient, queues, inboxHeld, fault>>

\* Whoever has the handle takes the bytes.
SendReturns ==
  /\ out = "sending"
  /\ sock[target] \in Connection \cup {"game"}
  /\ OutGoto("send")

SendFails ==
  /\ out = "sending"
  /\ sock[target] \notin {"up", "closing"}
  /\ OutGoto("failed")

TestErrorCallback ==
  /\ out = "failed"
  /\ OutGoto(IF "error" \in callbacks THEN "call" ELSE "send")

CallErrorCallback ==
  /\ out = "call"
  /\ \/ "error" \in callbacks /\ OutGoto("send")
     \/ "error" \notin callbacks /\ Fault("empty callback")

-----------------------------------------------------------------------------
\* HookedEndScene() takes and releases the inbox mutex.
RenderThread ==
  /\ nm \in {"up", "clear", "join", "stopping", "over"}
  /\ inboxHeld' = ~ inboxHeld
  /\ UNCHANGED <<vars, nm, netRunning, callbacks, cb, currentClient, queues, out, target,
                 fault>>

Outside == Environment /\ UNCHANGED netVars

Owner ==
  \/ StartTcpServer \/ SetNetRunning \/ StartFails \/ SpawnOutgoing \/ SpawnFails
  \/ ClearCallback \/ Join \/ StopTcpServer \/ UndoEnds \/ ResetState

ServerThread ==
  \/ TcpServerStep \/ TestCallback \/ CallEmpty \/ OnClientDisconnected \/ OnClientConnected
  \/ OnNetworkError \/ OnDataReceived \/ NextFrame \/ UseInboxMutex \/ PushCommand
  \/ UseNullPointer \/ UseDestroyed

OutgoingThread ==
  \/ TestNetRunning \/ ProcessOutgoing \/ SendData \/ SendReturns \/ SendFails
  \/ TestErrorCallback \/ CallErrorCallback

NMNext ==
  /\ fault = "none"
  /\ \/ StartServer \/ StopServer \/ Destroy \/ Owner
     \/ ServerThread \/ OutgoingThread
     \/ RenderThread \/ Outside

NMSpec == NMInit /\ [][NMNext]_nmVars

\* What the threads do without waiting for a client, a frame or the reader of send().
ServerGoesOn ==
  /\ srv = "accepting" => ~ Listening(accepting)
  /\ srv = "recv" => sock[client] # "up"
  /\ ServerThread

OutgoingGoesOn ==
  \/ TestNetRunning \/ ProcessOutgoing \/ SendData \/ SendFails
  \/ TestErrorCallback \/ CallErrorCallback

\* The owner and both threads go on, and a batch of events ends.
NMFairSpec ==
  /\ NMSpec
  /\ WF_nmVars(fault = "none" /\ Owner)
  /\ WF_nmVars(fault = "none" /\ ServerGoesOn)
  /\ WF_nmVars(fault = "none" /\ OutgoingGoesOn)
  /\ SF_nmVars(fault = "none" /\ SendData /\ out' = "test")

-----------------------------------------------------------------------------
(***************************************************************************)
(* Safety.                                                                 *)
(***************************************************************************)
\* When startServer() has failed, or stopServer() is over, the outgoing thread is gone,
\* and so is the server thread unless the wait for it was given up; then the sockets
\* and Winsock are given back as well (NothingLeftOpen).
QuietAfterStop ==
  nm \in {"failed", "over", "destroyed"} =>
    /\ out \in {"none", "joined"}
    /\ timedOut \/ srv \in {"none", "done"}
    /\ own \in {"failed", "stopped"}

\* The pointers to the queues are reset, and the object is destroyed, with the server
\* thread past its tests of them only when stop() has given up its wait.
ResetOnlyUnderTimeout == fault \in {"null pointer", "destroyed"} => timedOut

\* m_currentClient, which the outgoing thread reads without a lock, is the connection
\* that the server thread serves and has not closed, or none, until stopServer() clears
\* the callback that keeps it so.
CurrentClientServed ==
  "disconnected" \in callbacks /\ currentClient # INVALID_SOCKET =>
    /\ currentClient = client
    /\ srv \in Handling \ {"close"}

(***************************************************************************)
(* Liveness.                                                               *)
(***************************************************************************)
\* stopServer() returns if the outgoing thread is not in send() for ever: it is joined
\* before TcpServer::stop() shuts the client down, so that a controller that does not
\* read holds up the unload.  (Or the run ends in a fault on the way.)
StopServerReturns ==
  []<>(out # "sending") =>
    (nm = "clear" ~> nm \in {"over", "destroyed"} \/ fault # "none")

(***************************************************************************)
(* A claim that the code does not live up to.                              *)
(***************************************************************************)
\* stopServer(): "Clear callbacks first to prevent use-after-free when TcpServer thread
\* shuts down".  Clearing a std::function under a thread that has tested it and not
\* called it yet is what the comment wants to prevent.
ClearedCallbackUnused == fault # "empty callback"

============================================================================
