-------------------------- MODULE TcpServerProofs --------------------------
(***************************************************************************)
(* Proofs about TcpServer, for any set of handles and any number of        *)
(* sessions.  The invariant says, for each point of the two threads, what  *)
(* every handle of the agent names and who may still use it.               *)
(***************************************************************************)
EXTENDS TcpServer, TLAPS

\* Where the owner has a listener, and where it is past closing it.
HasListener == {"bind", "run", "createThread", "started", "shutdown", "closeListener"}

Stopping == {"closeListener", "clearListener", "wait", "closeClient", "cleanup", "stopped"}

\* Where the server thread has a connection to close.
HasClient == Handling \cup {"store"}

\* m_running and the thread's existence follow from the owner's place.
OwnerInv ==
  /\ running <=> (own \in {"createThread", "started"})
  /\ srv = "none" <=> (own \in {"new", "socket", "bind", "run", "createThread", "failed"})
  /\ wsa = IF own \in {"new", "failed", "stopped"} THEN 0 ELSE 1
  /\ timedOut => own \in {"closeClient", "cleanup", "stopped"}
  /\ own \in {"closeClient", "cleanup", "stopped"} =>
       \/ srv = "done"
       \/ timedOut /\ srv \in {"data", "loop", "disconnected", "close", "clear",
                            "check"}

\* One socket is bound or listening: m_listenerSocket, until stop() closes it.
ListenerInv ==
  /\ own = "bind" => listenerSocket \in Handles /\ sock[listenerSocket] = "bound"
  /\ own \in HasListener \ {"bind"} =>
       listenerSocket \in Handles /\ sock[listenerSocket] = "listening"
  /\ \A h \in Handles :
       sock[h] \in {"bound", "listening"} => own \in HasListener /\ h = listenerSocket

\* One socket is a connection: the server thread's.  It is one as long as the
\* thread has it, unless stop() timed out and closed it.
ConnectionInv ==
  /\ srv \in HasClient =>
       /\ client \in Handles
       /\ sock[client] \in Connection \/ timedOut
  /\ srv = "recv" => ~ timedOut
  /\ \A h \in Handles : sock[h] \in Connection => srv \in HasClient /\ h = client

\* What m_clientSocket holds at each point of the server thread.
ClientInv ==
  /\ srv \in Handling \cup {"clear"} =>
       \/ clientSocket = client
       \/ timedOut /\ clientSocket = INVALID_SOCKET
  /\ srv \notin Handling \cup {"clear"} => clientSocket = INVALID_SOCKET

\* No recv() waits for a peer once stop() is past its shutdown().
UnblockedInv == own \in Stopping /\ srv = "recv" => sock[client] # "up"

Inv ==
  /\ TypeOK /\ OwnerInv /\ ListenerInv /\ ConnectionInv /\ ClientInv /\ UnblockedInv
  /\ ForeignClosedOnlyAfterTimeout

-----------------------------------------------------------------------------
(***************************************************************************)
(* The invariant is inductive.                                             *)
(***************************************************************************)

\* Before start() nothing is open.
LEMMA InitInv == Init => Inv
<1> SUFFICES ASSUME Init PROVE Inv
  OBVIOUS
<1> USE HandlesAssumption, SessionsAssumption DEF Init, Inv
<1>1. TypeOK
  <2>1. sock \in [Handles -> {"free", "bound", "listening", "game"} \cup Connection]
    OBVIOUS
  <2>2. wsa \in 0 .. 1 /\ session \in 0 .. MaxSessions
    OBVIOUS
  <2> QED
    BY <2>1, <2>2 DEF TypeOK, SocketOrNone, StartPoints
<1>2. OwnerInv /\ ListenerInv /\ ConnectionInv /\ ClientInv /\ UnblockedInv
  BY DEF OwnerInv, ListenerInv, ConnectionInv, ClientInv, UnblockedInv, Handling,
     HasListener, HasClient, Connection, Stopping
<1>3. ForeignClosedOnlyAfterTimeout
  BY DEF ForeignClosedOnlyAfterTimeout
<1> QED
  BY <1>1, <1>2, <1>3

\* The peers and the game.
LEMMA EnvironmentStep ==
  ASSUME Inv, Environment
  PROVE  Inv'
<1> USE HandlesAssumption, SessionsAssumption
<1> USE DEF Inv, TypeOK, OwnerInv, ListenerInv, ConnectionInv, ClientInv, UnblockedInv,
      ForeignClosedOnlyAfterTimeout, ownerVars, serverVars, socketVars,
      SocketOrNone, Handling, HasListener, HasClient, Connection, Stopping,
      StartPoints, StopPoints
<1>1. CASE PeerCloses
  BY <1>1 DEF PeerCloses
<1>2. CASE ConnectionBreaks
  BY <1>2 DEF ConnectionBreaks
<1>3. CASE GameOpensSocket
  BY <1>3 DEF GameOpensSocket, Open
<1>4. CASE GameClosesSocket
  BY <1>4 DEF GameClosesSocket
<1> QED
  BY <1>1, <1>2, <1>3, <1>4
     DEF Environment, Start, Stop, ServerRuns, ServerWaits

\* start() and stop().
LEMMA OwnerStep ==
  ASSUME Inv, Start \/ StopBegins \/ Stop
  PROVE  Inv'
<1> USE HandlesAssumption, SessionsAssumption
<1> USE DEF Inv, TypeOK, OwnerInv, ListenerInv, ConnectionInv, ClientInv, UnblockedInv,
      ForeignClosedOnlyAfterTimeout, ownerVars, serverVars, socketVars,
      SocketOrNone, Handling, HasListener, HasClient, Connection, Stopping,
      StartPoints, StopPoints
<1>1. CASE WSAStartup
  BY <1>1 DEF WSAStartup
<1>2. CASE OpenListener
  BY <1>2 DEF OpenListener, Open
<1>3. CASE SocketFails
  BY <1>3 DEF SocketFails
<1>4. CASE BindAndListen
  BY <1>4 DEF BindAndListen
<1>5. CASE BindOrListenFails
  BY <1>5 DEF BindOrListenFails, Close
<1>6. CASE SetRunning
  BY <1>6 DEF SetRunning
<1>7. CASE CreateServerThread
  BY <1>7 DEF CreateServerThread
<1>8. CASE CreateThreadFails
  <2>1. wsa' = 0
    BY <1>8 DEF CreateThreadFails
  <2>2. foreignClosed' = foreignClosed
    BY <1>8 DEF CreateThreadFails, Close
  <2>3. TypeOK' /\ ForeignClosedOnlyAfterTimeout'
    <3>1. sock' \in [Handles -> {"free", "bound", "listening", "game"} \cup Connection]
      BY <1>8 DEF CreateThreadFails, Close
    <3>2. running' \in BOOLEAN /\ own' \in StartPoints
      BY <1>8 DEF CreateThreadFails
    <3> QED
      BY <1>8, <2>1, <2>2, <3>1, <3>2 DEF CreateThreadFails
  <2>4. OwnerInv'
    BY <1>8, <2>1 DEF CreateThreadFails
  <2>5. ListenerInv'
    BY <1>8 DEF CreateThreadFails, Close
  <2>6. ConnectionInv' /\ ClientInv' /\ UnblockedInv'
    BY <1>8 DEF CreateThreadFails, Close
  <2> QED
    BY <2>3, <2>4, <2>5, <2>6
<1>9. CASE StopBegins
  <2>1. TypeOK' /\ ForeignClosedOnlyAfterTimeout'
    BY <1>9 DEF StopBegins
  <2>2. OwnerInv'
    BY <1>9 DEF StopBegins
  <2>3. ListenerInv' /\ ConnectionInv' /\ ClientInv' /\ UnblockedInv'
    BY <1>9 DEF StopBegins
  <2> QED
    BY <2>1, <2>2, <2>3
<1>10. CASE ShutdownClient
  BY <1>10 DEF ShutdownClient
<1>11. CASE CloseListener
  BY <1>11 DEF CloseListener, Close
<1>12. CASE ClearListener
  BY <1>12 DEF ClearListener
<1>13. CASE WaitForThread
  BY <1>13 DEF WaitForThread
<1>14. CASE WaitTimesOut
  BY <1>14 DEF WaitTimesOut
<1>15. CASE CloseClient
  BY <1>15 DEF CloseClient, Close
<1>16. CASE WSACleanup
  BY <1>16 DEF WSACleanup
<1> QED
  BY <1>1, <1>2, <1>3, <1>4, <1>5, <1>6, <1>7, <1>8, <1>9,
     <1>10, <1>11, <1>12, <1>13, <1>14, <1>15, <1>16
     DEF Environment, Start, Stop, ServerRuns, ServerWaits

\* The server thread.
LEMMA ServerStep ==
  ASSUME Inv, ServerRuns \/ ServerWaits
  PROVE  Inv'
<1> USE HandlesAssumption, SessionsAssumption
<1> USE DEF Inv, TypeOK, OwnerInv, ListenerInv, ConnectionInv, ClientInv, UnblockedInv,
      ForeignClosedOnlyAfterTimeout, ownerVars, serverVars, socketVars,
      SocketOrNone, Handling, HasListener, HasClient, Connection, Stopping,
      StartPoints, StopPoints
<1>1. CASE CheckRunning
  BY <1>1 DEF CheckRunning
<1>2. CASE CallAccept
  BY <1>2 DEF CallAccept
<1>3. CASE AcceptReturns
  BY <1>3 DEF AcceptReturns, Open, Listening
<1>4. CASE AcceptAborted
  BY <1>4 DEF AcceptAborted, Listening
<1>5. CASE AcceptFails
  BY <1>5 DEF AcceptFails, Listening
<1>6. CASE StoreClient
  BY <1>6 DEF StoreClient
<1>7. CASE ClientConnected
  BY <1>7 DEF ClientConnected
<1>8. CASE HandleClientLoop
  BY <1>8 DEF HandleClientLoop
<1>9. CASE RecvData
  BY <1>9 DEF RecvData
<1>10. CASE RecvEnds
  BY <1>10 DEF RecvEnds
<1>11. CASE DataCallbackReturns
  BY <1>11 DEF DataCallbackReturns
<1>12. CASE ClientDisconnected
  BY <1>12 DEF ClientDisconnected
<1>13. CASE CloseClientSocket
  BY <1>13 DEF CloseClientSocket, Close
<1>14. CASE ClearClient
  BY <1>14 DEF ClearClient
<1> QED
  BY <1>1, <1>2, <1>3, <1>4, <1>5, <1>6, <1>7, <1>8, <1>9,
     <1>10, <1>11, <1>12, <1>13, <1>14
     DEF Environment, Start, Stop, ServerRuns, ServerWaits

LEMMA NextInv == Inv /\ [Next]_vars => Inv'
<1> SUFFICES ASSUME Inv, [Next]_vars PROVE Inv'
  OBVIOUS
<1>1. CASE Next
  BY <1>1, EnvironmentStep, OwnerStep, ServerStep DEF Next
<1>2. CASE UNCHANGED vars
  BY <1>2 DEF vars, ownerVars, serverVars, socketVars, Inv, TypeOK,
     OwnerInv, ListenerInv, ConnectionInv, ClientInv, UnblockedInv,
     ForeignClosedOnlyAfterTimeout
<1> QED
  BY <1>1, <1>2

\* The invariant holds in every reachable state of the server.
THEOREM InvCorrect == Spec => []Inv
BY InitInv, NextInv, PTL DEF Spec

-----------------------------------------------------------------------------
(***************************************************************************)
(* What follows from it.                                                   *)
(***************************************************************************)

\* The variables of the server have the types that TypeOK states.
THEOREM TypeCorrect == Spec => []TypeOK
<1>1. Inv => TypeOK
  BY DEF Inv
<1> QED
  BY InvCorrect, <1>1, PTL

\* stop()'s comments promise that shutdown() unblocks recv() and the closed
\* listener unblocks accept(): in whatever order the two threads take their
\* steps, the server thread is in no call that nothing will end.
THEOREM StopUnblocks == Spec => []StopUnblocksThread
<1>1. Inv => StopUnblocksThread
  BY DEF Inv, OwnerInv, ListenerInv, UnblockedInv, StopUnblocksThread, Listening, TypeOK,
     SocketOrNone, HasListener, Stopping
<1> QED
  BY InvCorrect, <1>1, PTL

\* The server thread never calls recv() on a handle that stop() has closed.
THEOREM RecvOnItsConnection == Spec => []RecvOnConnection
<1>1. Inv => RecvOnConnection
  BY DEF Inv, ConnectionInv, RecvOnConnection, HasClient, Handling
<1> QED
  BY InvCorrect, <1>1, PTL

\* No socket and no Winsock reference outlives both threads' last steps.
THEOREM AllClosed == Spec => []NothingLeftOpen
<1>1. Inv => NothingLeftOpen
  BY DEF Inv, TypeOK, OwnerInv, ListenerInv, ConnectionInv, NothingLeftOpen, HasListener,
     HasClient, Handling, Connection
<1> QED
  BY InvCorrect, <1>1, PTL

\* The agent closes none of the game's sockets unless stop() timed out.
THEOREM ForeignUntouched == Spec => []ForeignClosedOnlyAfterTimeout
<1>1. Inv => ForeignClosedOnlyAfterTimeout
  BY DEF Inv
<1> QED
  BY InvCorrect, <1>1, PTL

-----------------------------------------------------------------------------
(***************************************************************************)
(* How stop() comes to its end.                                            *)
(***************************************************************************)
\* The owner's steps from each point of stop() to its return.
OwnerSteps ==
  [shutdown |-> 6, closeListener |-> 5, clearListener |-> 4, wait |-> 3, closeClient |-> 2,
   cleanup |-> 1, stopped |-> 0]

\* The server thread's steps to its end once m_running is FALSE, at most.  A client that
\* is still accepted, and data that is still received, are on the way.
ThreadSteps ==
  [accept |-> 9, accepting |-> 8, store |-> 7, recv |-> 7, connected |-> 6, data |-> 6,
   loop |-> 5, disconnected |-> 4, close |-> 3, clear |-> 2, check |-> 1, done |-> 0]

StepsLeft == OwnerSteps[own] + ThreadSteps[srv]

\* After stop() has cleared m_running each step of the owner and of the server thread
\* brings the two nearer to their ends: neither of them goes round a loop again, whatever
\* clients come, send and leave meanwhile.
StopAdvances ==
  own \in StopPoints =>
    /\ StepsLeft \in 0 .. 15
    /\ Environment \/ StepsLeft' < StepsLeft

\* What is left of stop() and of the thread is finite and shrinks.
THEOREM StopEnds == Spec => [][StopAdvances]_vars
<1>1. ASSUME Inv, Next, own \in StopPoints
      PROVE  /\ StepsLeft \in 0 .. 15
             /\ Environment \/ StepsLeft' < StepsLeft
  <2>1. /\ ~ running
        /\ srv \in DOMAIN ThreadSteps
    BY <1>1 DEF Inv, TypeOK, OwnerInv, StopPoints, Handling, ThreadSteps
  <2>2. StepsLeft \in 0 .. 15
    BY <1>1, <2>1 DEF StopPoints, StepsLeft, OwnerSteps, ThreadSteps
  <2>3. CASE Stop
    BY <1>1, <2>1, <2>3 DEF Stop, ShutdownClient, CloseListener, ClearListener, WaitForThread,
       WaitTimesOut, CloseClient, WSACleanup, serverVars, StepsLeft, OwnerSteps, ThreadSteps
  <2>4. CASE ServerRuns \/ ServerWaits
    <3>1. own' = own
      BY <2>4 DEF ServerRuns, ServerWaits, CheckRunning, CallAccept, AcceptAborted, StoreClient,
         ClientConnected, HandleClientLoop, RecvEnds, ClientDisconnected, CloseClientSocket,
         ClearClient, AcceptReturns, AcceptFails, RecvData, DataCallbackReturns, ownerVars
    <3>2. ThreadSteps[srv'] < ThreadSteps[srv] /\ srv' \in DOMAIN ThreadSteps
      BY <2>1, <2>4 DEF ServerRuns, ServerWaits, CheckRunning, CallAccept, AcceptAborted,
         StoreClient, ClientConnected, HandleClientLoop, RecvEnds, ClientDisconnected,
         CloseClientSocket, ClearClient, AcceptReturns, AcceptFails, RecvData,
         DataCallbackReturns, ThreadSteps
    <3> QED
      BY <1>1, <2>1, <3>1, <3>2 DEF StepsLeft, OwnerSteps, ThreadSteps, StopPoints
  <2>5. ~ (Start \/ StopBegins)
    BY <1>1 DEF Start, StopBegins, StopPoints, WSAStartup, OpenListener, SocketFails,
       BindAndListen, BindOrListenFails, SetRunning, CreateServerThread, CreateThreadFails
  <2> QED
    BY <1>1, <2>2, <2>3, <2>4, <2>5 DEF Next
<1>2. Inv /\ [Next]_vars => [StopAdvances]_vars
  BY <1>1 DEF StopAdvances
<1> QED
  BY InvCorrect, <1>2, PTL DEF Spec

\* stop() closes the client's socket "after thread has finished", or else it has timed out,
\* and then the thread is in the data callback or behind it.  It does not come back to
\* accept() or recv(), on handles that may be the game's by now.
ClosedUnderThread ==
  own \in {"closeClient", "cleanup", "stopped"} =>
    \/ srv = "done"
    \/ timedOut /\ srv \in {"data", "loop", "disconnected", "close", "clear", "check"}

\* That is all that is wrong with ClientClosedAfterThread.
THEOREM ClosedUnderTimeout == Spec => []ClosedUnderThread
<1>1. Inv => ClosedUnderThread
  BY DEF Inv, OwnerInv, ClosedUnderThread
<1> QED
  BY InvCorrect, <1>1, PTL

=============================================================================
