------------------------ MODULE NetworkManagerProofs ------------------------
(***************************************************************************)
(* Proofs about NetworkManager, for any set of handles and any number of   *)
(* sessions.  A step of the network manager is a step of TcpServer or none *)
(* of its business, so that TcpServer's invariant (Inv) holds here too;    *)
(* NMInv adds where the owner, the outgoing thread and the callbacks are   *)
(* relative to it.                                                         *)
(***************************************************************************)
EXTENDS NetworkManager, TcpServerProofs

\* start() and stop() of the TCP server within startServer() and stopServer().
NestingInv ==
  /\ nm = "new" => own = "new"
  /\ nm = "starting" => own \in StartPoints
  /\ nm \in {"spawn", "up", "clear", "join"} => own = "started"
  /\ nm \in {"undo", "stopping"} => own \in {"started"} \cup StopPoints
  /\ nm = "failed" => own \in {"failed", "stopped"}
  /\ nm \in {"over", "destroyed"} => own = "stopped"

\* The outgoing thread exists from startServer()'s last step to stopServer()'s join.
OutgoingInv ==
  /\ nm \in {"new", "starting", "spawn", "undo", "failed"} => out = "none"
  /\ nm \in {"stopping", "over", "destroyed"} => out = "joined"

\* A callback lies inside the server thread's call of it.
CallbackInv ==
  /\ cb = "call" => srv \in DOMAIN CallbackAt
  /\ cb \in {"frame", "deref", "lock"} => srv = "data"

QueuesInv == ~ queues => nm \in {"new", "over", "destroyed"}

ClientServedInv ==
  /\ CurrentClientServed
  /\ nm = "new" => currentClient = INVALID_SOCKET

NMInv ==
  /\ NestingInv /\ OutgoingInv /\ CallbackInv /\ QueuesInv /\ ClientServedInv
  /\ ResetOnlyUnderTimeout

-----------------------------------------------------------------------------
(***************************************************************************)
(* The TCP server inside the network manager.                              *)
(***************************************************************************)
\* What the owner's steps in TcpServer leave alone, and where they lead.
LEMMA StartFrame ==
  ASSUME Inv, Start
  PROVE  /\ own \in StartPoints \ {"failed", "started"}
         /\ own' \in StartPoints
         /\ client' = client
         /\ srv = "none" /\ srv' \in {"none", "check"}
<1>1. /\ own \in StartPoints \ {"failed", "started"}
      /\ own' \in StartPoints
  BY DEF Start, StartPoints, WSAStartup, OpenListener, SocketFails, BindAndListen,
     BindOrListenFails, SetRunning, CreateServerThread, CreateThreadFails
<1>2. srv = "none"
  BY <1>1 DEF Inv, OwnerInv, StartPoints
<1>3. client' = client /\ (srv' = srv \/ srv' = "check")
  BY DEF Start, serverVars, WSAStartup, OpenListener, SocketFails, BindAndListen,
     BindOrListenFails, SetRunning, CreateServerThread, CreateThreadFails
<1> QED
  BY <1>1, <1>2, <1>3

LEMMA StopFrame ==
  ASSUME StopBegins \/ Stop
  PROVE  own' \in StopPoints /\ UNCHANGED serverVars
BY DEF StopBegins, Stop, StopPoints, ShutdownClient, CloseListener, ClearListener,
   WaitForThread, WaitTimesOut, CloseClient, WSACleanup

LEMMA EnvironmentFrame ==
  ASSUME Environment
  PROVE  UNCHANGED <<ownerVars, serverVars>>
BY DEF Environment, PeerCloses, ConnectionBreaks, GameOpensSocket, GameClosesSocket

\* Every step of the network manager is one of TcpServer, or none.
LEMMA StepIsTcpServers ==
  ASSUME Inv, [NMNext]_nmVars
  PROVE  [Next]_vars
<1>1. CASE Owner
  BY <1>1 DEF Owner, StartTcpServer, SetNetRunning, StartFails, SpawnOutgoing, SpawnFails,
     ClearCallback, Join, StopTcpServer, UndoEnds, ResetState, Next
<1>2. CASE ServerThread
  <2>1. CASE TcpServerStep
    BY <2>1 DEF TcpServerStep, Next, ServerRuns, ServerWaits
  <2>2. CASE OnNetworkError
    <3>1. AcceptAborted \/ AcceptFails
      BY <2>2 DEF OnNetworkError, AcceptAborted, AcceptFails, CanCall
    <3> QED
      BY <3>1 DEF Next, ServerRuns, ServerWaits
  <2>3. CASE TestCallback \/ OnClientDisconnected \/ OnClientConnected \/ OnDataReceived
               \/ NextFrame
    BY <2>3 DEF TestCallback, CallbackOver, OnClientDisconnected, OnClientConnected,
       OnDataReceived, NextFrame, Next, ServerRuns, ServerWaits
  <2>4. CASE CallEmpty \/ UseInboxMutex \/ PushCommand \/ UseNullPointer \/ UseDestroyed
    BY <2>4 DEF CallEmpty, UseInboxMutex, PushCommand, UseNullPointer, UseDestroyed, Fault
  <2> QED
    BY <1>2, <2>1, <2>2, <2>3, <2>4 DEF ServerThread
<1>3. CASE OutgoingThread
  BY <1>3 DEF OutgoingThread, TestNetRunning, ProcessOutgoing, SendData, SendReturns, SendFails,
     TestErrorCallback, CallErrorCallback, OutGoto, Fault
<1>4. CASE StartServer \/ StopServer \/ Destroy \/ RenderThread \/ Outside
  BY <1>4 DEF StartServer, StopServer, Destroy, RenderThread, Outside, Next
<1>5. CASE UNCHANGED nmVars
  BY <1>5 DEF nmVars
<1> QED
  BY <1>1, <1>2, <1>3, <1>4, <1>5 DEF NMNext

\* The network manager uses the TCP server as TcpServer has it used: start() once,
\* stop() at most once, after a start() that succeeded.
THEOREM UsesTcpServer == NMSpec => Spec
<1>1. NMInit => Init
  BY DEF NMInit
<1>2. Init => Inv
  BY InitInv
<1>3. Inv /\ [NMNext]_nmVars => Inv' /\ [Next]_vars
  BY NextInv, StepIsTcpServers
<1> QED
  BY <1>1, <1>2, <1>3, PTL DEF NMSpec, Spec

-----------------------------------------------------------------------------
(***************************************************************************)
(* The invariant of the network manager is inductive.                      *)
(***************************************************************************)
\* Before startServer().
LEMMA NMInitInv == NMInit => Inv /\ NMInv
<1> SUFFICES ASSUME NMInit PROVE Inv /\ NMInv
  OBVIOUS
<1>1. Inv
  BY InitInv DEF NMInit
<1>2. NMInv
  BY DEF NMInit, Init, NMInv, NestingInv, OutgoingInv, CallbackInv, QueuesInv, ClientServedInv,
     CurrentClientServed, ResetOnlyUnderTimeout
<1> QED
  BY <1>1, <1>2

\* startServer() and stopServer().
LEMMA NMOwnerStep ==
  ASSUME Inv, Inv', NMInv, StartServer \/ StopServer \/ Destroy \/ Owner, fault = "none"
  PROVE  NMInv'
<1> USE DEF NMInv, NestingInv, OutgoingInv, CallbackInv, QueuesInv, ClientServedInv,
      CurrentClientServed, ResetOnlyUnderTimeout, vars, ownerVars, serverVars
<1>1. CASE StartServer
  BY <1>1 DEF StartServer, Inv, OwnerInv, StartPoints
<1>2. CASE StopServer \/ Destroy
  BY <1>2 DEF StopServer, Destroy
<1>3. CASE StartTcpServer
  <2>1. /\ own' \in StartPoints /\ nm' = nm /\ nm = "starting"
        /\ srv = "none" /\ srv' \in {"none", "check"}
        /\ UNCHANGED netVars
    BY <1>3, StartFrame DEF StartTcpServer, netVars
  <2>2. NestingInv' /\ OutgoingInv' /\ QueuesInv' /\ ResetOnlyUnderTimeout'
    BY <2>1 DEF netVars
  <2>3. CallbackInv' /\ ClientServedInv'
    BY <2>1 DEF netVars, Handling, CallbackAt
  <2> QED
    BY <2>2, <2>3
<1>4. CASE SetNetRunning \/ StartFails \/ SpawnOutgoing \/ SpawnFails
  BY <1>4 DEF SetNetRunning, StartFails, SpawnOutgoing, SpawnFails
<1>5. CASE ClearCallback \/ Join
  BY <1>5 DEF ClearCallback, Join
<1>6. CASE StopTcpServer
  <2>1. own' \in StopPoints /\ UNCHANGED serverVars /\ UNCHANGED netVars
    BY <1>6, StopFrame DEF StopTcpServer
  <2>2. nm \in {"stopping", "undo"}
    BY <1>6 DEF StopTcpServer
  <2> QED
    BY <2>1, <2>2 DEF netVars
<1>7. CASE UndoEnds \/ ResetState
  BY <1>7 DEF UndoEnds, ResetState
<1> QED
  BY <1>1, <1>2, <1>3, <1>4, <1>5, <1>6, <1>7 DEF Owner

\* The server thread: m_currentClient is set and cleared where its connection begins and
\* ends, and a thread that is still at work when stop() is over has outlived the wait.
LEMMA NMServerStep ==
  ASSUME Inv, Inv', NMInv, ServerThread, fault = "none"
  PROVE  NMInv'
<1> USE DEF NMInv, NestingInv, OutgoingInv, CallbackInv, QueuesInv, ClientServedInv,
      CurrentClientServed, ResetOnlyUnderTimeout, vars, ownerVars, serverVars, Handling
<1>1. CASE TcpServerStep
  BY <1>1 DEF TcpServerStep, netVars, CheckRunning, CallAccept, AcceptReturns, AcceptAborted,
     StoreClient, HandleClientLoop, RecvData, RecvEnds, CloseClientSocket, ClearClient
<1>2. CASE TestCallback
  BY <1>2 DEF TestCallback, CallbackOver, CallbackAt, ClientConnected, DataCallbackReturns,
     ClientDisconnected, AcceptFails
<1>3. CASE CallEmpty
  BY <1>3 DEF CallEmpty, Fault
<1>4. CASE OnClientDisconnected
  BY <1>4 DEF OnClientDisconnected, ClientDisconnected, CanCall, CallbackAt
<1>5. CASE OnClientConnected
  <2>1. cb' = "none" /\ srv' = "loop" /\ currentClient' = client' /\ own' = own
    BY <1>5 DEF OnClientConnected, ClientConnected
  <2>2. UNCHANGED <<nm, callbacks, queues, out, fault>>
    BY <1>5 DEF OnClientConnected
  <2>3. nm # "new"
    BY <1>5 DEF OnClientConnected, Inv, OwnerInv
  <2> QED
    BY <2>1, <2>2, <2>3
<1>6. CASE OnNetworkError
  BY <1>6 DEF OnNetworkError, CanCall, CallbackAt
<1>7. CASE OnDataReceived \/ NextFrame
  <2>1. CASE OnDataReceived
    BY <2>1 DEF OnDataReceived, DataCallbackReturns, CanCall, CallbackAt
  <2>2. CASE NextFrame
    BY <2>2 DEF NextFrame, DataCallbackReturns, CallbackAt
  <2> QED
    BY <1>7, <2>1, <2>2
<1>8. CASE UseInboxMutex \/ PushCommand
  BY <1>8 DEF UseInboxMutex, PushCommand
<1>9. CASE UseNullPointer
  <2>1. own = "stopped" /\ srv = "data"
    BY <1>9 DEF UseNullPointer, Inv, OwnerInv
  <2>2. timedOut
    BY <2>1 DEF Inv, OwnerInv
  <2> QED
    BY <1>9, <2>2 DEF UseNullPointer, Fault
<1>10. CASE UseDestroyed
  <2>1. timedOut
    BY <1>10 DEF UseDestroyed, Inv, OwnerInv
  <2> QED
    BY <1>10, <2>1 DEF UseDestroyed, Fault
<1> QED
  BY <1>1, <1>2, <1>3, <1>4, <1>5, <1>6, <1>7, <1>8, <1>9, <1>10 DEF ServerThread

\* The outgoing thread only reads what the others write.
LEMMA NMOutgoingStep ==
  ASSUME Inv, Inv', NMInv, OutgoingThread, fault = "none"
  PROVE  NMInv'
BY DEF NMInv, NestingInv, OutgoingInv, CallbackInv, QueuesInv, ClientServedInv,
   CurrentClientServed, ResetOnlyUnderTimeout, vars, ownerVars, serverVars,
   OutgoingThread, TestNetRunning, ProcessOutgoing, SendData, SendReturns, SendFails,
   TestErrorCallback, CallErrorCallback, OutGoto, Fault

LEMMA NMStepInv == Inv /\ NMInv /\ [NMNext]_nmVars => Inv' /\ NMInv'
<1> SUFFICES ASSUME Inv, NMInv, [NMNext]_nmVars PROVE Inv' /\ NMInv'
  OBVIOUS
<1>1. Inv'
  BY NextInv, StepIsTcpServers
<1>2. CASE RenderThread \/ Outside
  <2>1. UNCHANGED <<own, srv, client, timedOut>>
    BY <1>2, EnvironmentFrame DEF RenderThread, Outside, vars, ownerVars, serverVars
  <2>2. UNCHANGED <<nm, callbacks, cb, currentClient, queues, out, fault>>
    BY <1>2 DEF RenderThread, Outside, netVars
  <2> QED
    BY <1>1, <2>1, <2>2 DEF NMInv, NestingInv, OutgoingInv, CallbackInv, QueuesInv,
       ClientServedInv, CurrentClientServed, ResetOnlyUnderTimeout
<1>3. CASE UNCHANGED nmVars
  BY <1>1, <1>3 DEF nmVars, netVars, vars, ownerVars, serverVars, NMInv, NestingInv,
     OutgoingInv, CallbackInv, QueuesInv, ClientServedInv, CurrentClientServed,
     ResetOnlyUnderTimeout
<1> QED
  BY <1>1, <1>2, <1>3, NMOwnerStep, NMServerStep, NMOutgoingStep DEF NMNext

LEMMA NMInvariance == NMSpec => [](Inv /\ NMInv)
BY NMInitInv, NMStepInv, PTL DEF NMSpec

-----------------------------------------------------------------------------
(***************************************************************************)
(* What follows from it.                                                   *)
(***************************************************************************)
\* After stopServer(), or a startServer() that failed, the outgoing thread is joined and
\* the server thread is over unless stop() has timed out.
THEOREM Quiet == NMSpec => []QuietAfterStop
<1>1. Inv /\ NMInv => QuietAfterStop
  BY DEF Inv, OwnerInv, NMInv, NestingInv, OutgoingInv, QuietAfterStop
<1> QED
  BY <1>1, NMInvariance, PTL

\* A reset pointer or a destroyed manager is met by the server thread after a timeout only.
THEOREM ResetSafe == NMSpec => []ResetOnlyUnderTimeout
<1>1. NMInv => ResetOnlyUnderTimeout
  BY DEF NMInv
<1> QED
  BY <1>1, NMInvariance, PTL

\* m_currentClient is the connection being served, or none, until the callbacks go.
THEOREM ClientServed == NMSpec => []CurrentClientServed
<1>1. NMInv => CurrentClientServed
  BY DEF NMInv, ClientServedInv
<1> QED
  BY <1>1, NMInvariance, PTL

\* The flags that a step leaves behind are flags.
NMFlags == netRunning \in BOOLEAN /\ queues \in BOOLEAN /\ inboxHeld \in BOOLEAN

LEMMA NMFlagsStep == ASSUME NMFlags, [NMNext]_nmVars PROVE NMFlags'
<1> USE DEF NMFlags, netVars
<1>1. CASE Owner
  BY <1>1, Zenon DEF Owner, StartTcpServer, SetNetRunning, StartFails, SpawnOutgoing, SpawnFails,
     ClearCallback, Join, StopTcpServer, UndoEnds, ResetState
<1>2. CASE ServerThread
  BY <1>2, Zenon DEF ServerThread, TcpServerStep, TestCallback, CallEmpty, OnClientDisconnected,
     OnClientConnected, OnNetworkError, OnDataReceived, NextFrame, UseInboxMutex, PushCommand,
     UseNullPointer, UseDestroyed, Fault
<1>3. CASE OutgoingThread
  BY <1>3, Zenon DEF OutgoingThread, TestNetRunning, ProcessOutgoing, SendData, SendReturns,
     SendFails, TestErrorCallback, CallErrorCallback, OutGoto, Fault
<1>4. CASE StartServer \/ StopServer \/ Destroy \/ RenderThread \/ Outside
  BY <1>4, Zenon DEF StartServer, StopServer, Destroy, RenderThread, Outside
<1>5. CASE UNCHANGED nmVars
  BY <1>5, Zenon DEF nmVars
<1> QED
  BY <1>1, <1>2, <1>3, <1>4, <1>5 DEF NMNext

\* The network manager's variables have the types that NMTypeOK states: sendData() in
\* particular never gets to send() without a client.
THEOREM NMTypeCorrect == NMSpec => []NMTypeOK
<1>1. NMInit => NMTypeOK
  <2> SUFFICES ASSUME NMInit PROVE NMTypeOK
    OBVIOUS
  <2>1. TypeOK
    BY InitInv DEF NMInit, Inv
  <2>2. netRunning \in BOOLEAN /\ queues \in BOOLEAN /\ inboxHeld \in BOOLEAN
    BY Zenon DEF NMInit
  <2> QED
    BY <2>1, <2>2 DEF NMInit, NMTypeOK, Callbacks, ClearedBefore, SocketOrNone
<1>2. ASSUME NMTypeOK, TypeOK', [NMNext]_nmVars
      PROVE  NMTypeOK'
  <2>0. NMFlags'
    BY <1>2, NMFlagsStep DEF NMTypeOK, NMFlags
  <2> USE <1>2, <2>0 DEF NMTypeOK, NMFlags
  <2>1. ASSUME UNCHANGED <<nm, callbacks, cb, currentClient, out, target, fault>>
        PROVE  NMTypeOK'
    <3>1. /\ TypeOK' /\ NMFlags'
          /\ nm' = nm /\ callbacks' = callbacks /\ cb' = cb /\ currentClient' = currentClient
          /\ out' = out /\ target' = target /\ fault' = fault
      BY ONLY TypeOK', NMFlags', <2>1
    <3> QED
      BY ONLY NMTypeOK, <3>1, Zenon DEF NMTypeOK, NMFlags
  <2>2. CASE Owner \/ StartServer \/ StopServer \/ Destroy
    <3>1. CASE StartTcpServer \/ StopTcpServer
      BY <2>1, <3>1 DEF StartTcpServer, StopTcpServer, netVars
    <3>2. CASE ClearCallback
      <4>1. callbacks' \subseteq Callbacks /\ nm' \in {"join", "clear"}
        BY <3>2 DEF ClearCallback
      <4> QED
        BY <3>2, <4>1 DEF ClearCallback
    <3>3. CASE StartServer \/ StopServer \/ Destroy
      BY <3>3 DEF StartServer, StopServer, Destroy
    <3>4. CASE SetNetRunning \/ StartFails \/ SpawnOutgoing \/ SpawnFails
      BY <3>4 DEF SetNetRunning, StartFails, SpawnOutgoing, SpawnFails
    <3>5. CASE Join \/ UndoEnds \/ ResetState
      BY <3>5 DEF Join, UndoEnds, ResetState, SocketOrNone
    <3> QED
      BY <2>2, <3>1, <3>2, <3>3, <3>4, <3>5 DEF Owner
  <2>3. CASE ServerThread
    <3>1. CASE OnClientConnected
      BY <3>1 DEF OnClientConnected, TypeOK
    <3>2. CASE OnClientDisconnected
      BY <3>2 DEF OnClientDisconnected, SocketOrNone
    <3>3. CASE TcpServerStep \/ TestCallback \/ OnNetworkError \/ OnDataReceived
      <4>1. CASE TcpServerStep
        BY <2>1, <4>1 DEF TcpServerStep, netVars
      <4>2. ASSUME TestCallback \/ OnNetworkError \/ OnDataReceived
            PROVE  /\ cb' \in {"none", "call", "frame", "deref", "lock"}
                   /\ UNCHANGED <<nm, callbacks, currentClient, out, target, fault>>
        BY <4>2 DEF TestCallback, OnNetworkError, OnDataReceived
      <4> QED
        BY <3>3, <4>1, <4>2
    <3>4. CASE NextFrame \/ UseInboxMutex \/ PushCommand
      BY <3>4 DEF NextFrame, UseInboxMutex, PushCommand
    <3>5. CASE CallEmpty \/ UseNullPointer \/ UseDestroyed
      BY <3>5 DEF CallEmpty, UseNullPointer, UseDestroyed, Fault
    <3> QED
      BY <2>3, <3>1, <3>2, <3>3, <3>4, <3>5 DEF ServerThread
  <2>4. CASE OutgoingThread
    <3>1. CASE SendData
      BY <3>1 DEF SendData, SocketOrNone
    <3>2. CASE TestNetRunning \/ ProcessOutgoing \/ SendReturns \/ SendFails
      <4>1. /\ out' \in {"test", "client", "send", "failed", "ended"}
            /\ UNCHANGED <<nm, callbacks, cb, currentClient, target, fault>>
        BY <3>2 DEF TestNetRunning, ProcessOutgoing, SendReturns, SendFails, OutGoto
      <4> QED
        BY <4>1
    <3>3. CASE TestErrorCallback \/ CallErrorCallback
      BY <3>3 DEF TestErrorCallback, CallErrorCallback, OutGoto, Fault
    <3> QED
      BY <2>4, <3>1, <3>2, <3>3 DEF OutgoingThread
  <2>5. CASE RenderThread
    <3>1. inboxHeld' \in BOOLEAN
      BY <2>5, Zenon DEF RenderThread
    <3> QED
      BY <2>5, <3>1 DEF RenderThread
  <2>6. CASE Outside \/ UNCHANGED nmVars
    BY <2>1, <2>6 DEF Outside, nmVars, netVars
  <2> QED
    BY <2>2, <2>3, <2>4, <2>5, <2>6 DEF NMNext
<1>3. Inv => TypeOK
  BY DEF Inv
<1> QED
  BY <1>1, <1>2, <1>3, NMInvariance, PTL DEF NMSpec

-----------------------------------------------------------------------------
(***************************************************************************)
(* What TcpServer promises, inside the network manager.                    *)
(***************************************************************************)
\* With callbacks that the owner may clear at any time, and a data callback that ends
\* whenever the inbox mutex is free, the server thread is left in no call that nothing
\* ends and calls recv() on its connection only, the game keeps its sockets unless stop()
\* gave up, and stop() and the thread go straight to their ends.
THEOREM ServerInside ==
  NMSpec => /\ [](StopUnblocksThread /\ RecvOnConnection /\ ForeignClosedOnlyAfterTimeout)
            /\ [][StopAdvances]_vars
BY UsesTcpServer, StopUnblocks, RecvOnItsConnection, ForeignUntouched, StopEnds, PTL

\* A startServer() that has failed, at whatever step, and a stopServer() that was not given
\* up have given everything back: both threads are over, no socket of the agent is open,
\* and Winsock is released.
GivenBack ==
  nm \in {"failed", "over", "destroyed"} /\ ~ timedOut =>
    /\ out \in {"none", "joined"}
    /\ srv \in {"none", "done"}
    /\ \A h \in Handles : sock[h] \in {"free", "game"}
    /\ wsa = 0

\* Threads and sockets together.
THEOREM EverythingGivenBack == NMSpec => []GivenBack
<1>1. QuietAfterStop /\ NothingLeftOpen => GivenBack
  BY DEF QuietAfterStop, NothingLeftOpen, GivenBack
<1>2. NMSpec => []NothingLeftOpen
  BY UsesTcpServer, AllClosed
<1> QED
  BY <1>1, <1>2, Quiet, PTL

-----------------------------------------------------------------------------
(***************************************************************************)
(* When a cleared callback is called.                                      *)
(***************************************************************************)
\* The callbacks are there from startServer() to stopServer(), "error" to the last, and a
\* wait is given up for a thread inside its callback only.
WindowInv ==
  /\ nm \in {"starting", "spawn", "undo", "failed", "up"} => callbacks = Callbacks
  /\ nm = "clear" => "error" \in callbacks
  /\ nm \in {"new", "join", "stopping", "over", "destroyed"} => callbacks = {}
  /\ timedOut => nm \in {"stopping", "over", "destroyed"} /\ cb # "call"

\* An empty std::function is called while stopServer() is on its way and by a thread that
\* had found it full: by the server thread, before stop() gave up its wait, or by the
\* outgoing thread, before it was joined.
EmptyOnlyBesideClear ==
  fault = "empty callback" =>
    \/ cb = "call" /\ nm \in {"clear", "join", "stopping"} /\ ~ timedOut
    \/ out = "call" /\ nm = "join"

\* What stays as it is when the owner does not move.
LEMMA WindowFrame ==
  ASSUME WindowInv, EmptyOnlyBesideClear, UNCHANGED <<nm, callbacks, timedOut, fault>>,
         fault = "none", timedOut => cb' # "call"
  PROVE  WindowInv' /\ EmptyOnlyBesideClear'
BY DEF WindowInv, EmptyOnlyBesideClear

\* startServer() and stopServer().
LEMMA WindowOwner ==
  ASSUME Inv, NMInv, NMTypeOK, WindowInv, EmptyOnlyBesideClear, fault = "none",
         StartServer \/ StopServer \/ Destroy \/ Owner
  PROVE  WindowInv' /\ EmptyOnlyBesideClear'
<1>1. CASE StartServer \/ StopServer \/ Destroy
  <2>1. UNCHANGED <<timedOut, fault, cb>>
    BY <1>1 DEF StartServer, StopServer, Destroy, vars, ownerVars
  <2>2. \/ nm = "new" /\ nm' = "starting" /\ callbacks' = Callbacks
        \/ nm = "up" /\ nm' = "clear" /\ callbacks' = callbacks
        \/ nm = "over" /\ nm' = "destroyed" /\ callbacks' = callbacks
    BY <1>1 DEF StartServer, StopServer, Destroy
  <2>3. "error" \in Callbacks
    BY DEF Callbacks, ClearedBefore
  <2> QED
    BY <2>1, <2>2, <2>3 DEF WindowInv, EmptyOnlyBesideClear
<1>2. CASE ClearCallback
  <2>1. UNCHANGED <<timedOut, fault, cb>> /\ nm = "clear"
    BY <1>2 DEF ClearCallback, vars, ownerVars
  <2>2. PICK c \in callbacks :
          callbacks \cap ClearedBefore[c] = {} /\ callbacks' = callbacks \ {c}
    BY <1>2 DEF ClearCallback
  <2>3. nm' = IF callbacks' = {} THEN "join" ELSE "clear"
    BY <1>2 DEF ClearCallback
  <2>4. CASE callbacks' = {}
    BY <2>1, <2>3, <2>4 DEF WindowInv, EmptyOnlyBesideClear
  <2>5. CASE callbacks' # {}
    <3>1. "error" \in callbacks'
      <4> SUFFICES ASSUME c = "error" PROVE FALSE
        BY <2>1, <2>2 DEF WindowInv
      <4>1. PICK d : d \in callbacks /\ d # "error"
        BY <2>2, <2>5
      <4>2. d \in Callbacks
        BY <4>1 DEF NMTypeOK
      <4> QED
        BY <2>2, <4>1, <4>2 DEF ClearedBefore, Callbacks
    <3> QED
      BY <2>1, <2>3, <2>5, <3>1 DEF WindowInv, EmptyOnlyBesideClear
  <2> QED
    BY <2>4, <2>5
<1>3. CASE StartTcpServer
  <2>1. timedOut' = timedOut
    BY <1>3 DEF StartTcpServer, Start, WSAStartup, OpenListener, SocketFails, BindAndListen,
       BindOrListenFails, SetRunning, CreateServerThread, CreateThreadFails
  <2>2. UNCHANGED <<nm, callbacks, fault, cb>>
    BY <1>3 DEF StartTcpServer, netVars
  <2> QED
    BY <2>1, <2>2, WindowFrame DEF WindowInv
<1>4. CASE StopTcpServer
  <2>1. UNCHANGED <<nm, callbacks, fault, cb>>
    BY <1>4 DEF StopTcpServer, netVars
  <2>2. CASE timedOut' = timedOut
    BY <2>1, <2>2, WindowFrame DEF WindowInv
  <2>3. CASE timedOut' # timedOut
    <3>1. own = "wait" /\ srv = "data"
      BY <1>4, <2>3 DEF StopTcpServer, StopBegins, Stop, ShutdownClient, CloseListener,
         ClearListener, WaitForThread, WaitTimesOut, CloseClient, WSACleanup
    <3>2. cb = "lock" /\ nm = "stopping"
      BY <1>4, <3>1 DEF StopTcpServer, StopBegins
    <3> QED
      BY <2>1, <3>2 DEF WindowInv, EmptyOnlyBesideClear
  <2> QED
    BY <2>2, <2>3
<1>5. CASE SetNetRunning \/ StartFails \/ SpawnOutgoing \/ SpawnFails
  <2>1. /\ nm \in {"starting", "spawn"} /\ nm' \in {"spawn", "failed", "up", "undo"}
        /\ UNCHANGED <<callbacks, timedOut, fault, cb>>
    BY <1>5 DEF SetNetRunning, StartFails, SpawnOutgoing, SpawnFails, vars, ownerVars
  <2> QED
    BY <2>1 DEF WindowInv, EmptyOnlyBesideClear
<1>6. CASE Join \/ UndoEnds \/ ResetState
  <2>1. /\ \/ nm = "join" /\ nm' = "stopping"
           \/ nm = "undo" /\ nm' = "failed"
           \/ nm = "stopping" /\ nm' = "over"
        /\ UNCHANGED <<callbacks, timedOut, fault, cb>>
    BY <1>6 DEF Join, UndoEnds, ResetState, vars, ownerVars
  <2> QED
    BY <2>1 DEF WindowInv, EmptyOnlyBesideClear
<1> QED
  BY <1>1, <1>2, <1>3, <1>4, <1>5, <1>6 DEF Owner

\* The server thread.  After a timeout it finds every callback empty when it tests it.
LEMMA WindowServer ==
  ASSUME Inv, NMInv, NMTypeOK, WindowInv, EmptyOnlyBesideClear, fault = "none", ServerThread
  PROVE  WindowInv' /\ EmptyOnlyBesideClear'
<1>1. UNCHANGED <<nm, callbacks, timedOut>>
  BY DEF ServerThread, TcpServerStep, TestCallback, CallEmpty, OnClientDisconnected,
     OnClientConnected, OnNetworkError, OnDataReceived, NextFrame, UseInboxMutex, PushCommand,
     UseNullPointer, UseDestroyed, Fault, netVars, vars, ownerVars, CallbackOver,
     CheckRunning, CallAccept, AcceptReturns, AcceptAborted, StoreClient, HandleClientLoop,
     RecvData, RecvEnds, CloseClientSocket, ClearClient, ClientConnected, DataCallbackReturns,
     ClientDisconnected, AcceptFails
<1>2. CASE CallEmpty
  <2>1. /\ nm # "destroyed" /\ cb = "call" /\ CallbackAt[srv] \notin callbacks
        /\ fault' = "empty callback" /\ cb' = "call" /\ ~ timedOut
    BY <1>2 DEF CallEmpty, Fault, WindowInv
  <2>2. srv \in DOMAIN CallbackAt
    BY <2>1 DEF NMInv, CallbackInv
  <2>3. CallbackAt[srv] \in Callbacks
    BY <2>2 DEF CallbackAt, Callbacks, ClearedBefore
  <2>4. own # "new" /\ own # "stopped"
    BY <2>1, <2>2 DEF Inv, OwnerInv, CallbackAt
  <2>5. nm \in {"clear", "join", "stopping"}
    <3>1. nm \notin {"starting", "spawn", "undo", "failed", "up"}
      BY <2>1, <2>3 DEF WindowInv
    <3>2. nm # "new" /\ nm # "over"
      BY <2>4 DEF NMInv, NestingInv
    <3> QED
      BY <2>1, <3>1, <3>2 DEF NMTypeOK
  <2> QED
    BY <1>1, <2>1, <2>5 DEF WindowInv, EmptyOnlyBesideClear
<1>3. CASE TestCallback
  <2>1. fault' = fault /\ (cb' = "call" => CallbackAt[srv] \in callbacks \/ cb = "call")
    BY <1>3 DEF TestCallback
  <2>2. timedOut => cb' # "call"
    BY <2>1 DEF WindowInv
  <2> QED
    BY <1>1, <2>1, <2>2, WindowFrame
<1>4. CASE TcpServerStep \/ OnClientDisconnected \/ OnClientConnected \/ OnNetworkError
             \/ OnDataReceived \/ NextFrame \/ UseInboxMutex \/ PushCommand
  <2>1. fault' = fault /\ cb' # "call"
    BY <1>4 DEF TcpServerStep, OnClientDisconnected, OnClientConnected, OnNetworkError,
       OnDataReceived, NextFrame, UseInboxMutex, PushCommand, netVars
  <2> QED
    BY <1>1, <2>1, WindowFrame
<1>5. CASE UseNullPointer \/ UseDestroyed
  <2>1. fault' # "empty callback" /\ cb' = cb
    BY <1>5 DEF UseNullPointer, UseDestroyed, Fault
  <2> QED
    BY <1>1, <2>1 DEF WindowInv, EmptyOnlyBesideClear
<1> QED
  BY <1>2, <1>3, <1>4, <1>5 DEF ServerThread

\* The outgoing thread, which has one callback, the last to be cleared.
LEMMA WindowOutgoing ==
  ASSUME Inv, NMInv, NMTypeOK, WindowInv, EmptyOnlyBesideClear, fault = "none", OutgoingThread
  PROVE  WindowInv' /\ EmptyOnlyBesideClear'
<1>1. UNCHANGED <<nm, callbacks, timedOut, cb>>
  BY DEF OutgoingThread, TestNetRunning, ProcessOutgoing, SendData, SendReturns, SendFails,
     TestErrorCallback, CallErrorCallback, OutGoto, Fault, vars, ownerVars
<1>2. CASE fault' = fault
  BY <1>1, <1>2, WindowFrame DEF WindowInv
<1>3. CASE fault' # fault
  <2>1. out = "call" /\ out' = out /\ "error" \notin callbacks
    BY <1>3 DEF OutgoingThread, TestNetRunning, ProcessOutgoing, SendData, SendReturns,
       SendFails, TestErrorCallback, CallErrorCallback, OutGoto, Fault
  <2>2. nm = "join"
    <3>1. nm \notin {"starting", "spawn", "undo", "failed", "up", "clear"}
      BY <2>1 DEF WindowInv, Callbacks, ClearedBefore
    <3>2. nm \notin {"new", "stopping", "over", "destroyed"}
      BY <2>1 DEF NMInv, OutgoingInv
    <3> QED
      BY <3>1, <3>2 DEF NMTypeOK
  <2> QED
    BY <1>1, <2>1, <2>2 DEF WindowInv, EmptyOnlyBesideClear
<1> QED
  BY <1>2, <1>3

LEMMA WindowStep ==
  Inv /\ NMInv /\ NMTypeOK /\ WindowInv /\ EmptyOnlyBesideClear /\ [NMNext]_nmVars
    => WindowInv' /\ EmptyOnlyBesideClear'
<1> SUFFICES ASSUME Inv, NMInv, NMTypeOK, WindowInv, EmptyOnlyBesideClear, [NMNext]_nmVars
             PROVE  WindowInv' /\ EmptyOnlyBesideClear'
  OBVIOUS
<1>1. CASE fault = "none" /\ (RenderThread \/ Outside)
  <2>1. UNCHANGED <<nm, callbacks, timedOut, fault, cb>>
    BY <1>1, EnvironmentFrame DEF RenderThread, Outside, netVars, vars, ownerVars
  <2> QED
    BY <1>1, <2>1, WindowFrame DEF WindowInv
<1>2. CASE UNCHANGED nmVars
  BY <1>2 DEF nmVars, netVars, vars, ownerVars, WindowInv, EmptyOnlyBesideClear
<1> QED
  BY <1>1, <1>2, WindowOwner, WindowServer, WindowOutgoing DEF NMNext

\* ClearedCallbackUnused, which the comment of stopServer() claims, fails in this one way.
THEOREM EmptyBesideClear == NMSpec => []EmptyOnlyBesideClear
<1>1. NMInit => WindowInv /\ EmptyOnlyBesideClear
  BY DEF NMInit, Init, WindowInv, EmptyOnlyBesideClear
<1> QED
  BY <1>1, WindowStep, NMInvariance, NMTypeCorrect, PTL DEF NMSpec

============================================================================
