------------------------ MODULE AgentLifecycleProofs ------------------------
(***************************************************************************)
(* Theorems about AgentLifecycle: its type correctness and its safety      *)
(* properties, for any number of polls.                                    *)
(***************************************************************************)
EXTENDS AgentLifecycle, TLAPS

Cleaners == {"cleanup", "exit"}

\* CleanupThread's loops stop at their bounds.
PollsInv ==
  /\ pc["cleanup"] = "await" => polls < ContextPolls
  /\ pc["cleanup"] = "ready" => polls < ReadyPolls

\* Who may be where: DllMain's thread exists when the process ends, and only a
\* Cleanup() shuts down and destroys beside MainThread.
PlacesInv ==
  /\ process = "running" => pc["exit"] = "idle"
  /\ \A t \in Cleaners :
       pc[t] \in ShutdownPoints \cup {"destroy", "unload"} => cleanupCalled

\* A Cleanup() after the start finds the context published or never created,
\* and MainThread never comes back to publish it.
OrderlyInv ==
  /\ ~ cleanupCalled /\ published => appContext
  /\ orderly =>
       /\ cleanupCalled
       /\ ~ published
       /\ pc["main"] \in Started \cup ShutdownPoints \cup {"caught"}

\* The network half: before startServer() has got so far there is nothing to
\* stop.
StartInv ==
  /\ pc["main"] \in {"create"} \cup (InitializePoints \ {"thread"}) => ~ netRunning
  /\ pc["main"] \in {"create"} \cup InitializePoints => outgoing = "none"
  /\ ~ cleanupCalled =>
       /\ pc["main"] \in {"hooks", "listen", "serve", "thread"} => initialized
       /\ pc["main"] = "thread" => netRunning

\* Without a Cleanup() that overtakes the start, who is past the test of
\* m_running finds it FALSE, and an outgoing thread that was told to end has
\* somebody who joins it.
StopInv ==
  ~ cleanupCalled \/ orderly =>
    /\ netRunning => initialized
    /\ \A t \in Cleaners \cup {"main"} :
         pc[t] \in {"join", "unhook", "finish", "destroy"} => ~ netRunning
    /\ Joinable /\ ~ netRunning => \E t \in Cleaners \cup {"main"} : pc[t] = "join"

Inv ==
  /\ TypeOK
  /\ PollsInv
  /\ PlacesInv
  /\ OrderlyInv
  /\ StartInv
  /\ StopInv
  /\ TerminatesOnlyOutOfOrder

-----------------------------------------------------------------------------
(***************************************************************************)
(* The invariant holds initially and after a step of each thread.          *)
(***************************************************************************)
\* Nothing has been called, hooked or published when the threads are created.
LEMMA InitInv == Init => Inv
<1> SUFFICES ASSUME Init PROVE Inv
  OBVIOUS
<1> USE PollsAssumption DEF Init, Threads, Cleaners, Joinable,
      ShutdownPoints, InitializePoints, FramePoints, MemberPoints, MainPoints, CleanupPoints, RenderPoints, ExitPoints, Started
<1>1. TypeOK
  <2>1. /\ appContext \in BOOLEAN /\ published \in BOOLEAN
        /\ initialized \in BOOLEAN /\ ctxRunning \in BOOLEAN /\ netRunning \in BOOLEAN
        /\ hooked \in BOOLEAN /\ cleanupCalled \in BOOLEAN /\ orderly \in BOOLEAN
        /\ keyWasPressed \in BOOLEAN /\ loaded \in BOOLEAN
    OBVIOUS
  <2>2. QED
    BY <2>1 DEF TypeOK
<1>2. PollsInv /\ PlacesInv /\ OrderlyInv /\ StartInv /\ StopInv
  BY DEF PollsInv, PlacesInv, OrderlyInv, StartInv, StopInv
<1>3. TerminatesOnlyOutOfOrder
  BY DEF TerminatesOnlyOutOfOrder
<1>4. QED
  BY <1>1, <1>2, <1>3 DEF Inv

\* MainThread's start: it alone sets netRunning and outgoing, before any
\* Cleanup() that is not overtaking it.
LEMMA MainStep ==
  ASSUME Inv,
         \/ CreateContext \/ Initialize \/ InstallHooks \/ StartTcpServer \/ SetNetRunning
         \/ StartOutgoing \/ StartOutgoingFails \/ Unwind \/ Publish \/ Poll
         \/ TestRunning \/ MainReturns \/ MainThrows \/ MainCatches
  PROVE  Inv'
<1> USE PollsAssumption DEF Inv, TypeOK, PollsInv, PlacesInv, OrderlyInv, StartInv, StopInv,
      TerminatesOnlyOutOfOrder,
      Threads, Cleaners, Joinable, IsRunning, At, Goto, Runs,
      contextVars, networkVars, keyVars, processVars, cleanupVars,
      ShutdownPoints, InitializePoints, FramePoints, MemberPoints, MainPoints,
      CleanupPoints, RenderPoints, ExitPoints, Started
<1>1. CASE CreateContext
  BY <1>1 DEF CreateContext
<1>2. CASE Initialize
  BY <1>2 DEF Initialize
<1>3. CASE InstallHooks
  <2> USE <1>3 DEF InstallHooks
  <2>1. TypeOK'
    <3>1. hooked' \in BOOLEAN
      OBVIOUS
    <3>2. QED
      BY <3>1
  <2>2. (PollsInv /\ PlacesInv /\ OrderlyInv)'
    OBVIOUS
  <2>3. (StartInv /\ StopInv /\ TerminatesOnlyOutOfOrder)'
    OBVIOUS
  <2>4. QED
    BY ONLY <2>1, <2>2, <2>3 DEF Inv
<1>4. CASE StartTcpServer
  BY <1>4 DEF StartTcpServer
<1>5. CASE SetNetRunning
  BY <1>5 DEF SetNetRunning
<1>6. CASE StartOutgoing
  BY <1>6 DEF StartOutgoing
<1>7. CASE StartOutgoingFails
  <2> USE <1>7 DEF StartOutgoingFails
  <2>1. TypeOK'
    <3>1. netRunning' \in BOOLEAN
      OBVIOUS
    <3>2. QED
      BY <3>1
  <2>2. (PollsInv /\ PlacesInv /\ OrderlyInv)'
    OBVIOUS
  <2>3. (StartInv /\ StopInv /\ TerminatesOnlyOutOfOrder)'
    OBVIOUS
  <2>4. QED
    BY ONLY <2>1, <2>2, <2>3 DEF Inv
<1>8. CASE Unwind
  <2> USE <1>8 DEF Unwind
  <2>1. TypeOK'
    <3>1. initialized' \in BOOLEAN /\ ctxRunning' \in BOOLEAN
      OBVIOUS
    <3>2. QED
      BY <3>1
  <2>2. (PollsInv /\ PlacesInv /\ OrderlyInv)'
    OBVIOUS
  <2>3. (StartInv /\ StopInv /\ TerminatesOnlyOutOfOrder)'
    OBVIOUS
  <2>4. QED
    BY ONLY <2>1, <2>2, <2>3 DEF Inv
<1>9. CASE Publish
  BY <1>9 DEF Publish
<1>10. CASE Poll
  BY <1>10 DEF Poll
<1>11. CASE TestRunning
  BY <1>11 DEF TestRunning
<1>12. CASE MainReturns
  BY <1>12 DEF MainReturns
<1>13. CASE MainThrows
  BY <1>13 DEF MainThrows
<1>14. CASE MainCatches
  BY <1>14 DEF MainCatches
<1>15. QED
  BY <1>1, <1>2, <1>3, <1>4, <1>5, <1>6, <1>7, <1>8, <1>9, <1>10, <1>11, <1>12, <1>13, <1>14

\* CleanupThread outside Cleanup(): its polls, the key, and the unloading.
LEMMA CleanupStep ==
  ASSUME Inv,
         \/ AwaitContext \/ RecheckContext \/ AwaitReady \/ KeyLoop \/ SampleKey
         \/ StopContext \/ FreeLibrary
  PROVE  Inv'
<1> USE PollsAssumption DEF Inv, TypeOK, PollsInv, PlacesInv, OrderlyInv, StartInv, StopInv,
      TerminatesOnlyOutOfOrder,
      Threads, Cleaners, Joinable, IsRunning, At, Goto, Runs,
      contextVars, networkVars, keyVars, processVars, cleanupVars,
      ShutdownPoints, InitializePoints, FramePoints, MemberPoints, MainPoints,
      CleanupPoints, RenderPoints, ExitPoints, Started
<1>1. CASE AwaitContext
  BY <1>1 DEF AwaitContext
<1>2. CASE RecheckContext
  BY <1>2 DEF RecheckContext
<1>3. CASE AwaitReady
  BY <1>3 DEF AwaitReady
<1>4. CASE KeyLoop
  BY <1>4 DEF KeyLoop
<1>5. CASE SampleKey
  BY <1>5 DEF SampleKey
<1>6. CASE StopContext
  <2> USE <1>6 DEF StopContext
  <2>1. TypeOK'
    <3>1. ctxRunning' \in BOOLEAN
      OBVIOUS
    <3>2. QED
      BY <3>1
  <2>2. (PollsInv /\ PlacesInv /\ OrderlyInv)'
    OBVIOUS
  <2>3. (StartInv /\ StopInv /\ TerminatesOnlyOutOfOrder)'
    OBVIOUS
  <2>4. QED
    BY ONLY <2>1, <2>2, <2>3 DEF Inv
<1>7. CASE FreeLibrary
  <2> USE <1>7 DEF FreeLibrary, Removal
  <2>1. TypeOK'
    <3>1. hooked' \in BOOLEAN /\ loaded' \in BOOLEAN
      OBVIOUS
    <3>2. QED
      BY <3>1
  <2>2. (PollsInv /\ PlacesInv /\ OrderlyInv)'
    OBVIOUS
  <2>3. (StartInv /\ StopInv /\ TerminatesOnlyOutOfOrder)'
    OBVIOUS
  <2>4. QED
    BY ONLY <2>1, <2>2, <2>3 DEF Inv
<1>8. QED
  BY <1>1, <1>2, <1>3, <1>4, <1>5, <1>6, <1>7

\* shutdown() and Cleanup() by any thread: the test of m_running, the join and the
\* destruction keep StopInv.
LEMMA ShutdownStep ==
  ASSUME Inv, NEW t \in Cleaners \cup {"main"},
         \/ Shutdown(t) \/ StopServer(t) \/ ClearRunning(t) \/ JoinOutgoing(t)
         \/ Unhook(t) \/ Finish(t) \/ Cleanup(t) \/ DestroyContext(t)
  PROVE  Inv'
<1> USE PollsAssumption DEF Inv, TypeOK, PollsInv, PlacesInv, OrderlyInv, StartInv, StopInv,
      TerminatesOnlyOutOfOrder,
      Threads, Cleaners, Joinable, IsRunning, At, Goto, Runs,
      contextVars, networkVars, keyVars, processVars, cleanupVars,
      ShutdownPoints, InitializePoints, FramePoints, MemberPoints, MainPoints,
      CleanupPoints, RenderPoints, ExitPoints, Started
<1>1. CASE Shutdown(t)
  <2> USE <1>1 DEF Shutdown, AfterShutdown
  <2>1. TypeOK'
    <3>1. ctxRunning' \in BOOLEAN
      OBVIOUS
    <3>2. QED
      BY <3>1
  <2>2. (PollsInv /\ PlacesInv /\ OrderlyInv)'
    OBVIOUS
  <2>3. (StartInv /\ StopInv /\ TerminatesOnlyOutOfOrder)'
    OBVIOUS
  <2>4. QED
    BY ONLY <2>1, <2>2, <2>3 DEF Inv
<1>2. CASE StopServer(t)
  BY <1>2 DEF StopServer
<1>3. CASE ClearRunning(t)
  <2> USE <1>3 DEF ClearRunning
  <2>1. TypeOK'
    <3>1. netRunning' \in BOOLEAN
      OBVIOUS
    <3>2. QED
      BY <3>1
  <2>2. (PollsInv /\ PlacesInv /\ OrderlyInv)'
    OBVIOUS
  <2>3. (StartInv /\ StopInv /\ TerminatesOnlyOutOfOrder)'
    OBVIOUS
  <2>4. QED
    BY ONLY <2>1, <2>2, <2>3 DEF Inv
<1>4. CASE JoinOutgoing(t)
  BY <1>4 DEF JoinOutgoing
<1>5. CASE Unhook(t)
  <2> USE <1>5 DEF Unhook, Removal
  <2>1. TypeOK'
    <3>1. hooked' \in BOOLEAN
      OBVIOUS
    <3>2. QED
      BY <3>1
  <2>2. (PollsInv /\ PlacesInv /\ OrderlyInv)'
    OBVIOUS
  <2>3. (StartInv /\ StopInv /\ TerminatesOnlyOutOfOrder)'
    OBVIOUS
  <2>4. QED
    BY ONLY <2>1, <2>2, <2>3 DEF Inv
<1>6. CASE Finish(t)
  <2> USE <1>6 DEF Finish, AfterShutdown
  <2>1. TypeOK'
    <3>1. initialized' \in BOOLEAN
      OBVIOUS
    <3>2. QED
      BY <3>1
  <2>2. (PollsInv /\ PlacesInv /\ OrderlyInv)'
    OBVIOUS
  <2>3. (StartInv /\ StopInv /\ TerminatesOnlyOutOfOrder)'
    OBVIOUS
  <2>4. QED
    BY ONLY <2>1, <2>2, <2>3 DEF Inv
<1>7. CASE Cleanup(t)
  <2> USE <1>7 DEF Cleanup
  <2>1. TypeOK'
    <3>1. cleanupCalled' \in BOOLEAN
      OBVIOUS
    <3>2. orderly' \in BOOLEAN /\ published' \in BOOLEAN
      BY ONLY Cleanup(t), Zenon DEF Cleanup
    <3>3. UNCHANGED <<appContext, context, initialized, ctxRunning, networkVars, hooked,
                      keyVars, processVars>>
      OBVIOUS
    <3>4. /\ pc' \in [Threads -> MainPoints \cup CleanupPoints \cup RenderPoints \cup ExitPoints]
          /\ pc'["main"] \in MainPoints
          /\ pc'["cleanup"] \in CleanupPoints
          /\ pc'["render"] \in RenderPoints
          /\ pc'["exit"] \in ExitPoints
      <4>1. pc[t] = "cleanup" /\ pc' \in {[pc EXCEPT ![t] = p] : p \in {"shutdown", "unload"}}
        OBVIOUS
      <4>2. QED
        BY ONLY TypeOK, <4>1, t \in Cleaners \cup {"main"}
        DEF TypeOK, Cleaners, Threads, ShutdownPoints, InitializePoints, MainPoints,
            CleanupPoints, ExitPoints
    <3>5. QED
      BY ONLY TypeOK, <3>1, <3>2, <3>3, <3>4 DEF TypeOK, networkVars, keyVars, processVars
  <2>2. PollsInv'
    OBVIOUS
  <2>3. PlacesInv'
    OBVIOUS
  <2>4. OrderlyInv'
    OBVIOUS
  <2>5. StartInv'
    OBVIOUS
  <2>6. StopInv'
    <3>1. ~ cleanupCalled' \/ orderly' => ~ cleanupCalled \/ orderly
      OBVIOUS
    <3>2. pc[t] = "cleanup" /\ pc' \in {[pc EXCEPT ![t] = p] : p \in {"shutdown", "unload"}}
      OBVIOUS
    <3>3. UNCHANGED <<netRunning, outgoing, initialized>>
      OBVIOUS
    <3>4. QED
      BY ONLY TypeOK, StopInv, <3>1, <3>2, <3>3, t \in Cleaners \cup {"main"}
      DEF TypeOK, StopInv, Joinable, Cleaners, Threads
  <2>7. TerminatesOnlyOutOfOrder'
    OBVIOUS
  <2>8. QED
    BY ONLY <2>1, <2>2, <2>3, <2>4, <2>5, <2>6, <2>7 DEF Inv
<1>8. CASE DestroyContext(t)
  <2> USE <1>8 DEF DestroyContext
  <2>1. TypeOK'
    <3>1. appContext' \in BOOLEAN /\ context' \in {"none", "alive", "destroyed"}
      OBVIOUS
    <3>2. fault' \in {"none", "joinable thread"}
      OBVIOUS
    <3>3. pc[t] = "destroy" /\ pc' = [pc EXCEPT ![t] = "unload"]
      OBVIOUS
    <3>4. UNCHANGED <<published, initialized, ctxRunning, networkVars, hooked, keyVars,
                      loaded, process, cleanupVars>>
      OBVIOUS
    <3>5. /\ pc' \in [Threads -> MainPoints \cup CleanupPoints \cup RenderPoints \cup ExitPoints]
          /\ pc'["main"] \in MainPoints
          /\ pc'["cleanup"] \in CleanupPoints
          /\ pc'["render"] \in RenderPoints
          /\ pc'["exit"] \in ExitPoints
      BY ONLY TypeOK, <3>3, t \in Cleaners \cup {"main"}
      DEF TypeOK, Cleaners, Threads, ShutdownPoints, InitializePoints, MainPoints,
          CleanupPoints, ExitPoints
    <3>6. fault' \in {"none"} \cup Faults
      BY <3>2 DEF Faults
    <3>7. QED
      BY ONLY TypeOK, <3>1, <3>4, <3>5, <3>6
      DEF TypeOK, networkVars, keyVars, cleanupVars
  <2>2. PollsInv'
    OBVIOUS
  <2>3. PlacesInv'
    OBVIOUS
  <2>4. OrderlyInv'
    OBVIOUS
  <2>5. StartInv'
    OBVIOUS
  <2>6. StopInv'
    <3>1. pc[t] = "destroy" /\ pc' = [pc EXCEPT ![t] = "unload"]
      OBVIOUS
    <3>2. UNCHANGED <<netRunning, outgoing, initialized, cleanupCalled, orderly>>
      OBVIOUS
    <3>3. QED
      BY ONLY TypeOK, StopInv, <3>1, <3>2, t \in Cleaners \cup {"main"}
      DEF TypeOK, StopInv, Joinable, Cleaners, Threads
  <2>7. TerminatesOnlyOutOfOrder'
    <3>1. CASE ~ orderly \/ ~ Joinable
      BY ONLY <1>8, <3>1 DEF DestroyContext, cleanupVars, TerminatesOnlyOutOfOrder
    <3>2. CASE orderly /\ Joinable
      <4>1. pc[t] = "destroy" /\ Runs(t) /\ process' = process
        BY ONLY <1>8 DEF DestroyContext, At
      <4>2. ~ netRunning
        BY ONLY Inv, <3>2, <4>1, t \in Cleaners \cup {"main"} DEF Inv, StopInv
      <4>3. PICK u \in Cleaners \cup {"main"} : pc[u] = "join"
        BY ONLY Inv, <3>2, <4>2 DEF Inv, StopInv
      <4>4. pc'[u] = "join" /\ u # t
        BY ONLY Inv, <1>8, <4>1, <4>3 DEF DestroyContext, Goto, Inv, TypeOK, Threads, Cleaners
      <4>5. u = "main" \/ (u = "cleanup" /\ process = "exiting")
        BY ONLY Inv, <1>8, <4>1, <4>3, <4>4, t \in Cleaners \cup {"main"}
        DEF DestroyContext, Inv, PlacesInv, Runs, Cleaners
      <4> QED
        BY ONLY <4>1, <4>4, <4>5 DEF TerminatesOnlyOutOfOrder
    <3> QED
      BY ONLY <3>1, <3>2
  <2>8. QED
    BY ONLY <2>1, <2>2, <2>3, <2>4, <2>5, <2>6, <2>7 DEF Inv
<1>9. QED
  BY <1>1, <1>2, <1>3, <1>4, <1>5, <1>6, <1>7, <1>8

\* The render thread changes nothing but its own place.
LEMMA RenderStep ==
  ASSUME Inv, EnterHook \/ GetContext \/ LockInbox \/ CallOriginal \/ UnlockInbox
  PROVE  Inv'
<1> USE PollsAssumption DEF Inv, TypeOK, PollsInv, PlacesInv, OrderlyInv, StartInv, StopInv,
      TerminatesOnlyOutOfOrder,
      Threads, Cleaners, Joinable, IsRunning, At, Goto, Runs,
      contextVars, networkVars, keyVars, processVars, cleanupVars,
      ShutdownPoints, InitializePoints, FramePoints, MemberPoints, MainPoints,
      CleanupPoints, RenderPoints, ExitPoints, Started
<1>1. CASE EnterHook
  BY <1>1 DEF EnterHook
<1>2. CASE GetContext
  BY <1>2 DEF GetContext
<1>3. CASE LockInbox
  BY <1>3 DEF LockInbox
<1>4. CASE CallOriginal
  <2>1. pc' \in {[pc EXCEPT !["render"] = p] : p \in {"unlock", "game"}}
    BY <1>4 DEF CallOriginal
  <2>2. UNCHANGED <<contextVars, networkVars, hooked, keyVars, processVars, cleanupVars>>
    BY <1>4 DEF CallOriginal
  <2>3. TypeOK'
    BY ONLY TypeOK, <2>1, <2>2
    DEF TypeOK, Threads, RenderPoints, FramePoints, contextVars, networkVars, keyVars,
        processVars, cleanupVars
  <2>4. /\ UNCHANGED <<appContext, published, initialized, netRunning, outgoing, polls,
                       process, fault, cleanupCalled, orderly>>
        /\ \A u \in Cleaners \cup {"main"} : pc'[u] = pc[u]
    BY ONLY TypeOK, <2>1, <2>2
    DEF TypeOK, Threads, Cleaners, contextVars, networkVars, keyVars, processVars, cleanupVars
  <2>7. PollsInv' /\ PlacesInv' /\ OrderlyInv'
    BY ONLY PollsInv, PlacesInv, OrderlyInv, <2>4
    DEF PollsInv, PlacesInv, OrderlyInv, Cleaners
  <2>8. StartInv' /\ StopInv'
    BY ONLY StartInv, StopInv, <2>4
    DEF StartInv, StopInv, Joinable, Cleaners
  <2>5. TerminatesOnlyOutOfOrder'
    <3>1. TerminatesOnlyOutOfOrder
      BY ONLY Inv DEF Inv
    <3> QED
      BY ONLY <2>4, <3>1 DEF TerminatesOnlyOutOfOrder, Cleaners
  <2>6. QED
    BY ONLY <2>3, <2>5, <2>7, <2>8 DEF Inv
<1>5. CASE UnlockInbox
  BY <1>5 DEF UnlockInbox
<1>6. QED
  BY <1>1, <1>2, <1>3, <1>4, <1>5

\* The outgoing thread, the user, and the end of the process.
LEMMA OtherStep ==
  ASSUME Inv, OutgoingEnds \/ KeyChanges \/ ProcessExits \/ ProcessEnds
  PROVE  Inv'
<1> USE PollsAssumption DEF Inv, TypeOK, PollsInv, PlacesInv, OrderlyInv, StartInv, StopInv,
      TerminatesOnlyOutOfOrder,
      Threads, Cleaners, Joinable, IsRunning, At, Goto, Runs,
      contextVars, networkVars, keyVars, processVars, cleanupVars,
      ShutdownPoints, InitializePoints, FramePoints, MemberPoints, MainPoints,
      CleanupPoints, RenderPoints, ExitPoints, Started
<1>1. CASE OutgoingEnds
  BY <1>1 DEF OutgoingEnds
<1>2. CASE KeyChanges
  BY <1>2 DEF KeyChanges
<1>3. CASE ProcessExits
  BY <1>3 DEF ProcessExits
<1>4. CASE ProcessEnds
  <2> USE <1>4 DEF ProcessEnds, Removal
  <2>1. TypeOK'
    <3>1. hooked' \in BOOLEAN
      OBVIOUS
    <3>2. QED
      BY <3>1
  <2>2. (PollsInv /\ PlacesInv /\ OrderlyInv)'
    OBVIOUS
  <2>3. (StartInv /\ StopInv /\ TerminatesOnlyOutOfOrder)'
    OBVIOUS
  <2>4. QED
    BY ONLY <2>1, <2>2, <2>3 DEF Inv
<1>5. QED
  BY <1>1, <1>2, <1>3, <1>4

\* The types survive a fault.
LEMMA FaultTypes ==
  ASSUME TypeOK, fault' \in Faults,
         UNCHANGED <<pc, contextVars, networkVars, hooked, keyVars, loaded, process,
                     cleanupVars>>
  PROVE  TypeOK'
  BY DEF TypeOK, contextVars, networkVars, keyVars, cleanupVars

\* A step without meaning changes nothing but fault.
LEMMA FaultStep ==
  ASSUME Inv, NEW f \in Faults \ {"joinable thread"}, Fault(f)
  PROVE  Inv'
<1>1. fault' \in {"none"} \cup Faults /\ fault' # "joinable thread"
  BY DEF Fault
<1>2. UNCHANGED <<pc, appContext, context, published, initialized, ctxRunning, netRunning,
                  outgoing, hooked, key, keyWasPressed, polls, loaded, process,
                  cleanupCalled, orderly>>
  BY DEF Fault, contextVars, networkVars, keyVars, cleanupVars
<1>3. TypeOK'
  BY FaultTypes DEF Inv, Fault
<1>4. (PollsInv /\ PlacesInv /\ OrderlyInv /\ StartInv /\ StopInv)'
  BY <1>2 DEF Inv, PollsInv, PlacesInv, OrderlyInv, StartInv, StopInv, Joinable
<1>5. TerminatesOnlyOutOfOrder'
  BY <1>1, <1>2 DEF Inv, TerminatesOnlyOutOfOrder
<1>6. QED
  BY <1>3, <1>4, <1>5 DEF Inv

\* Every step keeps the invariant.
LEMMA NextInv == Inv /\ [Next]_vars => Inv'
<1> SUFFICES ASSUME Inv, [Next]_vars PROVE Inv'
  OBVIOUS
<1>1. CASE MainThread
  <2>1. CASE PollsNull
    BY <2>1, FaultStep DEF PollsNull, Faults
  <2>2. QED
    BY <1>1, <2>1, MainStep DEF MainThread
<1>2. CASE CleanupThread
  BY <1>2, CleanupStep DEF CleanupThread
<1>3. CASE CleanupBy("cleanup") \/ CleanupBy("exit") \/ ContextShutdown("main")
  BY <1>3, ShutdownStep DEF CleanupBy, ContextShutdown, Cleaners
<1>4. CASE RenderThread
  <2>1. CASE CallsFreedTrampoline
    BY <2>1, FaultStep DEF CallsFreedTrampoline, Faults
  <2>2. QED
    BY <1>4, <2>1, RenderStep DEF RenderThread
<1>5. CASE AnyThread
  BY <1>5, FaultStep
  DEF AnyThread, JoinsTwice, UsesDestroyedContext, RunsUnmappedCode, Faults
<1>6. CASE OutgoingEnds \/ KeyChanges \/ ProcessExits \/ ProcessEnds
  BY <1>6, OtherStep
<1>7. CASE UNCHANGED vars
  <2> USE <1>7 DEF vars, contextVars, networkVars, keyVars, processVars, cleanupVars
  <2>1. TypeOK'
    BY DEF Inv, TypeOK
  <2>2. (PollsInv /\ PlacesInv /\ OrderlyInv /\ StartInv /\ StopInv)'
    BY DEF Inv, PollsInv, PlacesInv, OrderlyInv, StartInv, StopInv, Joinable
  <2>3. TerminatesOnlyOutOfOrder'
    BY DEF Inv, TerminatesOnlyOutOfOrder
  <2>4. QED
    BY <2>1, <2>2, <2>3 DEF Inv
<1>8. QED
  BY <1>1, <1>2, <1>3, <1>4, <1>5, <1>6, <1>7 DEF Next

-----------------------------------------------------------------------------
\* The invariant holds in every reachable state.
THEOREM InvCorrect == Spec => []Inv
  BY InitInv, NextInv, PTL DEF Spec

\* The variables of the lifecycle have their types; the polls stay in their bounds.
THEOREM TypeCorrect == Spec => []TypeOK
<1>1. Inv => TypeOK
  BY DEF Inv
<1>2. QED
  BY <1>1, InvCorrect, PTL

\* A Cleanup() after the start destroys no context that is still published
\* (UnpublishedWhenDestroyed).
THEOREM UnpublishedBeforeDestroy == Spec => []UnpublishedWhenDestroyed
<1>1. Inv => UnpublishedWhenDestroyed
  BY DEF Inv, OrderlyInv, UnpublishedWhenDestroyed
<1>2. QED
  BY <1>1, InvCorrect, PTL

\* std::terminate() only meets a Cleanup() that overtakes the start, and joins that
\* something stopped or another thread had begun (TerminatesOnlyOutOfOrder).
THEOREM OutgoingJoined == Spec => []TerminatesOnlyOutOfOrder
<1>1. Inv => TerminatesOnlyOutOfOrder
  BY DEF Inv
<1>2. QED
  BY <1>1, InvCorrect, PTL

-----------------------------------------------------------------------------
(***************************************************************************)
(* What Cleanup() waits for, and what it destroys.                         *)
(***************************************************************************)
\* Whoever joins the outgoing thread has told it to end, and nobody revokes that: a start
\* that Cleanup() has overtaken sets m_running before stopServer() can see it, or never.
JoinsOnlyTold == \A t \in Threads : pc[t] = "join" => ~ netRunning

\* stopServer() finds nothing to stop before MainThread has set m_running.
ToldInv ==
  /\ JoinsOnlyTold
  /\ pc["main"] \in {"create"} \cup (InitializePoints \ {"thread", "unwind"}) =>
       \A t \in Threads : pc[t] \notin {"clearRunning", "join"}

\* g_appContext owns the context, and one Cleanup() after the other uses it.
OwnedInv ==
  /\ appContext => context = "alive"
  /\ context # "alive" =>
       \A t \in Cleaners : Runs(t) => pc[t] \notin ShutdownPoints \cup {"destroy"}

AccessInv == ToldInv /\ OwnedInv /\ AccessedFromBefore

LEMMA AccessInit == Init => AccessInv
BY DEF Init, AccessInv, ToldInv, JoinsOnlyTold, OwnedInv, AccessedFromBefore, Threads,
   Cleaners, Runs, ShutdownPoints, InitializePoints

\* Where MainThread has not set m_running yet.
Early == {"create", "initialize", "hooks", "listen", "serve"}

LEMMA EarlyIs == Early = {"create"} \cup (InitializePoints \ {"thread", "unwind"})
BY DEF Early, InitializePoints

\* A thread goes on; the context, the process and, but for its end, m_running stay.
LEMMA AccessMoves ==
  ASSUME TypeOK, AccessInv, fault = "none", UNCHANGED <<fault, context, process>>,
         appContext' => appContext, netRunning' => netRunning,
         NEW t \in Threads, NEW p, pc' = [pc EXCEPT ![t] = p],
         p = "join" => ~ netRunning',
         p \in {"clearRunning", "join"} => pc["main"] \notin Early \/ t = "main",
         t = "main" => p \notin Early \/ pc["main"] \in Early,
         t \in Cleaners /\ p \in ShutdownPoints \cup {"destroy"} => context = "alive"
  PROVE  AccessInv'
<1>1. /\ \A u \in Threads : pc'[u] = IF u = t THEN p ELSE pc[u]
      /\ \A u \in Cleaners : pc'[u] = IF u = t THEN p ELSE pc[u]
      /\ "main" \in Threads
  BY DEF TypeOK, Threads, Cleaners
<1>2. JoinsOnlyTold'
  BY <1>1 DEF AccessInv, ToldInv, JoinsOnlyTold
<1>3. (pc["main"] \in Early => \A u \in Threads : pc[u] \notin {"clearRunning", "join"})'
  <2> SUFFICES ASSUME pc'["main"] \in Early, NEW u \in Threads
               PROVE  pc'[u] \notin {"clearRunning", "join"}
    OBVIOUS
  <2>1. pc["main"] \in Early
    BY <1>1
  <2>2. pc[u] \notin {"clearRunning", "join"}
    BY <2>1, EarlyIs DEF AccessInv, ToldInv
  <2>3. CASE u # t
    BY <1>1, <2>2, <2>3
  <2>4. CASE u = t
    BY <1>1, <2>1, <2>4 DEF Early
  <2> QED
    BY <2>3, <2>4
<1>4. OwnedInv'
  BY <1>1 DEF AccessInv, OwnedInv, Runs
<1> QED
  BY <1>2, <1>3, <1>4, EarlyIs DEF AccessInv, ToldInv, AccessedFromBefore

\* MainThread.
LEMMA AccessMain ==
  ASSUME Inv, AccessInv,
         \/ CreateContext \/ Initialize \/ InstallHooks \/ StartTcpServer \/ SetNetRunning
         \/ StartOutgoing \/ StartOutgoingFails \/ Unwind \/ Publish \/ Poll
         \/ TestRunning \/ MainReturns \/ MainThrows \/ MainCatches
  PROVE  AccessInv'
<1>1. /\ TypeOK /\ "main" \in Threads /\ "main" \notin Cleaners
  BY DEF Inv, Threads, Cleaners
<1>2. CASE CreateContext
  <2>1. /\ pc' = [pc EXCEPT !["main"] = "initialize"] /\ pc["main"] = "create"
        /\ appContext' /\ context' = "alive" /\ fault = "none"
        /\ UNCHANGED <<netRunning, fault, process>>
    BY <1>2 DEF CreateContext, At, Runs, Goto, networkVars, processVars
  <2>2. \A u \in Threads : pc'[u] = IF u = "main" THEN "initialize" ELSE pc[u]
    BY <1>1, <2>1 DEF TypeOK
  <2>3. ToldInv'
    BY <1>1, <2>1, <2>2 DEF AccessInv, ToldInv, JoinsOnlyTold, InitializePoints
  <2> QED
    BY <2>1, <2>3 DEF AccessInv, OwnedInv, AccessedFromBefore
<1>3. CASE SetNetRunning
  <2>1. /\ pc' = [pc EXCEPT !["main"] = "thread"] /\ pc["main"] = "serve"
        /\ fault = "none" /\ UNCHANGED <<appContext, context, fault, process>>
    BY <1>3 DEF SetNetRunning, At, Runs, Goto, contextVars, processVars
  <2>2. \A u \in Threads : pc'[u] = IF u = "main" THEN "thread" ELSE pc[u]
    BY <1>1, <2>1 DEF TypeOK
  <2>3. \A u \in Threads : pc[u] # "join"
    BY <2>1, EarlyIs DEF AccessInv, ToldInv, Early
  <2>4. ToldInv'
    BY <1>1, <2>2, <2>3 DEF ToldInv, JoinsOnlyTold, InitializePoints
  <2>5. OwnedInv'
    BY <2>1, <2>2 DEF AccessInv, OwnedInv, Cleaners, Threads, Runs
  <2> QED
    BY <2>1, <2>4, <2>5 DEF AccessInv, AccessedFromBefore
<1>4. ASSUME \/ Initialize \/ InstallHooks \/ StartTcpServer \/ StartOutgoing
             \/ StartOutgoingFails \/ Unwind \/ Publish \/ Poll \/ TestRunning
             \/ MainReturns \/ MainThrows \/ MainCatches
      PROVE  AccessInv'
  <2> DEFINE Next5 == {"hooks", "listen", "serve", "unwind", "publish", "poll", "isRunning",
                       "leave", "caught", "shutdown", "ended"}
  <2>1. /\ fault = "none" /\ UNCHANGED <<fault, appContext, context, process>>
        /\ netRunning' => netRunning
    BY <1>4 DEF Initialize, InstallHooks, StartTcpServer, StartOutgoing, StartOutgoingFails,
       Unwind, Publish, Poll, TestRunning, MainReturns, MainThrows, MainCatches, At, Runs,
       contextVars, networkVars, processVars
  <2>2. PICK p \in Next5 : /\ pc' = [pc EXCEPT !["main"] = p]
                           /\ p \notin Early \/ pc["main"] \in Early
    BY <1>4 DEF Initialize, InstallHooks, StartTcpServer, StartOutgoing, StartOutgoingFails,
       Unwind, Publish, Poll, TestRunning, MainReturns, MainThrows, MainCatches, At, Goto, Early
  <2>3. p \notin {"clearRunning", "join"}
    OBVIOUS
  <2> HIDE DEF Next5
  <2> QED
    BY <1>1, <2>1, <2>2, <2>3, AccessMoves
<1> QED
  BY <1>2, <1>3, <1>4

\* shutdown() by any thread, and Cleanup() around it.
LEMMA AccessShutdown ==
  ASSUME Inv, AccessInv, NEW t \in Cleaners \cup {"main"},
         ContextShutdown(t) \/ (t \in Cleaners /\ (Cleanup(t) \/ DestroyContext(t)))
  PROVE  AccessInv'
<1>1. /\ TypeOK /\ t \in Threads /\ "main" \in Threads
  BY DEF Inv, Threads, Cleaners
<1>2. CASE t \in Cleaners /\ DestroyContext(t)
  <2>1. /\ pc' = [pc EXCEPT ![t] = "unload"]
        /\ ~ appContext' /\ context' = "destroyed"
        /\ fault' \in {"none", "joinable thread"} /\ Runs(t)
        /\ UNCHANGED <<netRunning, process>>
    BY <1>2 DEF DestroyContext, At, Goto, networkVars
  <2>2. \A u \in Threads : pc'[u] = IF u = t THEN "unload" ELSE pc[u]
    BY <1>1, <2>1 DEF TypeOK
  <2>3. ToldInv'
    <3>1. t # "main"
      BY <1>2 DEF Cleaners
    <3>2. JoinsOnlyTold'
      <4> SUFFICES ASSUME NEW u \in Threads, pc'[u] = "join" PROVE ~ netRunning
        BY <2>1 DEF JoinsOnlyTold
      <4>1. pc[u] = "join"
        BY <2>2
      <4> QED
        BY <4>1 DEF AccessInv, ToldInv, JoinsOnlyTold
    <3>3. pc'["main"] = pc["main"]
      BY <1>1, <2>2, <3>1
    <3> QED
      BY <2>2, <3>2, <3>3 DEF AccessInv, ToldInv
  <2>4. OwnedInv'
    <3> SUFFICES ASSUME NEW u \in Cleaners, Runs(u)'
                 PROVE  pc'[u] \notin ShutdownPoints \cup {"destroy"}
      BY <2>1 DEF OwnedInv
    <3>1. u = t
      BY <1>2, <2>1 DEF Runs, Cleaners
    <3> QED
      BY <1>1, <2>2, <3>1 DEF ShutdownPoints
  <2> QED
    BY <2>1, <2>3, <2>4 DEF AccessInv, AccessedFromBefore
<1>3. ASSUME ContextShutdown(t) \/ (t \in Cleaners /\ Cleanup(t))
      PROVE  AccessInv'
  <2>1. /\ fault = "none" /\ UNCHANGED <<fault, appContext, context, process>>
        /\ netRunning' => netRunning /\ Runs(t)
    BY <1>3 DEF ContextShutdown, Cleanup, Shutdown, StopServer, ClearRunning, JoinOutgoing,
       Unhook, Finish, At, Runs, contextVars, networkVars, processVars
  <2> DEFINE Leads(p) == /\ pc' = [pc EXCEPT ![t] = p]
                         /\ p \in ShutdownPoints \cup {"destroy", "unload", "ended"}
                         /\ p = "join" => ~ netRunning' /\ pc[t] = "clearRunning"
                         /\ p = "clearRunning" => netRunning
                         /\ p \in ShutdownPoints \cup {"destroy"} => context = "alive"
  <2>2. PICK p : Leads(p)
    <3>1. CASE Cleanup(t)
      <4>1. CASE appContext
        <5>1. Leads("shutdown")
          BY <3>1, <4>1 DEF Cleanup, At, Goto, ShutdownPoints, AccessInv, OwnedInv
        <5> QED
          BY <5>1
      <4>2. CASE ~ appContext
        <5>1. Leads("unload")
          BY <3>1, <4>2 DEF Cleanup, At, Goto, ShutdownPoints
        <5> QED
          BY <5>1
      <4> QED
        BY <4>1, <4>2
    <3>2. ASSUME ContextShutdown(t) PROVE \E p : Leads(p)
      <4>1. context = "alive" /\ AfterShutdown(t) \in {"ended", "destroy"}
        BY <3>2 DEF ContextShutdown, Shutdown, StopServer, ClearRunning, JoinOutgoing, Unhook,
           Finish, At, AfterShutdown, MemberPoints, ShutdownPoints
      <4>2. \/ Leads("stopServer") \/ Leads("clearRunning") \/ Leads("join")
            \/ Leads("unhook") \/ Leads("finish") \/ Leads(AfterShutdown(t))
        <5>1. CASE Shutdown(t) \/ Finish(t)
          BY <4>1, <5>1 DEF Shutdown, Finish, At, Goto, ShutdownPoints
        <5>2. CASE StopServer(t)
          BY <4>1, <5>2 DEF StopServer, At, Goto, ShutdownPoints
        <5>3. CASE ClearRunning(t)
          BY <4>1, <5>3 DEF ClearRunning, At, Goto, ShutdownPoints
        <5>4. CASE JoinOutgoing(t) \/ Unhook(t)
          BY <4>1, <5>4 DEF JoinOutgoing, Unhook, At, Goto, ShutdownPoints
        <5> QED
          BY <3>2, <5>1, <5>2, <5>3, <5>4 DEF ContextShutdown
      <4> HIDE DEF Leads
      <4> QED
        BY <4>2
    <3> HIDE DEF Leads
    <3> QED
      BY <1>3, <3>1, <3>2
  <2>3. p \in {"clearRunning", "join"} => pc["main"] \notin Early
    <3>1. netRunning => pc["main"] \notin Early
      BY DEF Inv, StartInv, Early, InitializePoints
    <3>2. pc[t] = "clearRunning" => pc["main"] \notin Early
      BY <1>1, EarlyIs DEF AccessInv, ToldInv
    <3> QED
      BY <2>2, <3>1, <3>2
  <2>4. t = "main" => p \notin Early
    BY <2>2 DEF Early, ShutdownPoints
  <2> QED
    BY <1>1, <2>1, <2>2, <2>3, <2>4, AccessMoves
<1> QED
  BY <1>2, <1>3

\* CleanupThread, the render thread, the outgoing thread, the user and the process's end.
LEMMA AccessOther ==
  ASSUME Inv, AccessInv,
         \/ CleanupThread \/ (RenderThread /\ ~ CallsFreedTrampoline)
         \/ OutgoingEnds \/ KeyChanges \/ ProcessExits \/ ProcessEnds
  PROVE  AccessInv'
<1>1. /\ TypeOK /\ Threads = {"main", "cleanup", "render", "exit"}
      /\ Cleaners = {"cleanup", "exit"}
  BY DEF Inv, Threads, Cleaners
<1>2. /\ fault = "none" /\ UNCHANGED <<fault, appContext, context, netRunning>>
  BY DEF CleanupThread, AwaitContext, RecheckContext, AwaitReady, KeyLoop, SampleKey,
     StopContext, FreeLibrary, RenderThread, EnterHook, GetContext, LockInbox, CallOriginal,
     UnlockInbox, OutgoingEnds, KeyChanges, ProcessExits, ProcessEnds, At, Runs, contextVars,
     networkVars, processVars
<1>3. CASE CleanupThread \/ (RenderThread /\ ~ CallsFreedTrampoline)
  <2>1. process' = process
    BY <1>3 DEF CleanupThread, AwaitContext, RecheckContext, AwaitReady, KeyLoop, SampleKey,
       StopContext, FreeLibrary, RenderThread, EnterHook, GetContext, LockInbox, CallOriginal,
       UnlockInbox, processVars
  <2> DEFINE Goes(t) ==
               \E p \in {"await", "recheck", "ready", "loop", "sample", "stop", "cleanup", "ended",
                         "hook", "lock", "bypass", "execute", "unlock", "game"} :
                 pc' = [pc EXCEPT ![t] = p]
  <2>2. PICK t \in {"cleanup", "render"} : Goes(t)
    <3>1. CASE CleanupThread
      <4>1. Goes("cleanup")
        BY <3>1, Zenon DEF CleanupThread, AwaitContext, RecheckContext, AwaitReady, KeyLoop,
           SampleKey, StopContext, FreeLibrary, Goto
      <4> QED
        BY <4>1, Zenon
    <3>2. CASE RenderThread /\ ~ CallsFreedTrampoline
      <4>1. Goes("render")
        BY <3>2, Zenon DEF RenderThread, EnterHook, GetContext, LockInbox, CallOriginal,
           UnlockInbox, Goto
      <4> QED
        BY <4>1, Zenon
    <3> QED
      BY <1>3, <3>1, <3>2, Zenon
  <2>3. PICK p :
          /\ pc' = [pc EXCEPT ![t] = p]
          /\ p \in {"await", "recheck", "ready", "loop", "sample", "stop", "cleanup", "ended",
                    "hook", "lock", "bypass", "execute", "unlock", "game"}
    BY <2>2, Zenon
  <2>4. p \notin ShutdownPoints \cup {"destroy"} /\ t # "main" /\ t \in Threads
    BY <1>1, <2>3 DEF ShutdownPoints
  <2> QED
    BY <1>1, <1>2, <2>1, <2>3, <2>4, AccessMoves DEF ShutdownPoints
<1>4. CASE OutgoingEnds \/ KeyChanges
  BY <1>2, <1>4 DEF OutgoingEnds, KeyChanges, AccessInv, ToldInv, JoinsOnlyTold, OwnedInv,
     AccessedFromBefore, Runs, processVars
<1>5. CASE ProcessExits \/ ProcessEnds
  <2>1. PICK p : pc' = [pc EXCEPT !["exit"] = p] /\ p \in {"cleanup", "ended"}
    BY <1>5, Zenon DEF ProcessExits, ProcessEnds, Goto
  <2>2. \A u \in Threads : pc'[u] = IF u = "exit" THEN p ELSE pc[u]
    BY <1>1, <2>1 DEF TypeOK
  <2>3. ToldInv'
    BY <1>1, <1>2, <2>1, <2>2 DEF AccessInv, ToldInv, JoinsOnlyTold
  <2>4. OwnedInv'
    <3>1. process' # "running"
      BY <1>5 DEF ProcessExits, ProcessEnds
    <3> QED
      BY <1>1, <1>2, <2>1, <2>2, <3>1 DEF AccessInv, OwnedInv, Runs, ShutdownPoints
  <2> QED
    BY <1>2, <2>3, <2>4 DEF AccessInv, AccessedFromBefore
<1> QED
  BY <1>3, <1>4, <1>5

\* The steps without a meaning.
LEMMA AccessFault ==
  ASSUME Inv, AccessInv, PollsNull \/ CallsFreedTrampoline \/ AnyThread
  PROVE  AccessInv'
<1>1. PICK f \in Faults : Fault(f) /\ fault = "none"
  BY DEF PollsNull, CallsFreedTrampoline, AnyThread, JoinsTwice, UsesDestroyedContext,
     RunsUnmappedCode, Faults, At, Runs, Threads
<1>2. /\ UNCHANGED <<pc, appContext, context, netRunning, process, orderly>>
      /\ fault' = f
  BY <1>1 DEF Fault, contextVars, networkVars, cleanupVars
<1>3. ToldInv' /\ OwnedInv'
  BY <1>1, <1>2 DEF AccessInv, ToldInv, JoinsOnlyTold, OwnedInv, Runs, Faults, Threads, Cleaners
<1>4. AccessedFromBefore'
  <2> SUFFICES ASSUME orderly
               PROVE  /\ f = "null context" => pc["main"] = "poll"
                      /\ f = "destroyed context" =>
                           \/ pc["main"] \in ShutdownPoints \cup {"isRunning"}
                           \/ pc["render"] \in FramePoints
    BY <1>2 DEF AccessedFromBefore
  <2>1. f = "null context" => pc["main"] = "poll"
    BY <1>2 DEF PollsNull, CallsFreedTrampoline, AnyThread, JoinsTwice, UsesDestroyedContext,
       RunsUnmappedCode, Fault, At
  <2>2. ASSUME f = "destroyed context"
        PROVE  \/ pc["main"] \in ShutdownPoints \cup {"isRunning"}
               \/ pc["render"] \in FramePoints
    <3>1. PICK t \in Threads : UsesDestroyedContext(t)
      BY <1>2, <2>2 DEF PollsNull, CallsFreedTrampoline, AnyThread, JoinsTwice,
         UsesDestroyedContext, RunsUnmappedCode, Fault
    <3>2. Runs(t) /\ pc[t] \in MemberPoints /\ context = "destroyed"
      BY <3>1 DEF UsesDestroyedContext
    <3>3. t \notin Cleaners
      <4> SUFFICES ASSUME t \in Cleaners PROVE FALSE
        OBVIOUS
      <4>1. pc[t] \notin ShutdownPoints
        BY <3>2 DEF AccessInv, OwnedInv
      <4>2. pc[t] \in CleanupPoints \cup ExitPoints
        BY DEF Inv, TypeOK, Cleaners
      <4> QED
        BY <3>2, <4>1, <4>2 DEF CleanupPoints, ExitPoints, MemberPoints, InitializePoints,
           FramePoints, ShutdownPoints
    <3>4. CASE t = "main"
      <4>1. pc["main"] \in Started \cup ShutdownPoints \cup {"caught"}
        BY DEF Inv, OrderlyInv
      <4> QED
        BY <3>2, <3>4, <4>1 DEF MemberPoints, Started, InitializePoints, FramePoints
    <3>5. CASE t = "render"
      <4>1. pc["render"] \in RenderPoints
        BY DEF Inv, TypeOK
      <4> QED
        BY <3>2, <3>5, <4>1 DEF MemberPoints, RenderPoints, InitializePoints, ShutdownPoints
    <3> QED
      BY <3>3, <3>4, <3>5 DEF Threads, Cleaners
  <2> QED
    BY <2>1, <2>2
<1> QED
  BY <1>3, <1>4 DEF AccessInv

LEMMA AccessNext == Inv /\ AccessInv /\ [Next]_vars => AccessInv'
<1> SUFFICES ASSUME Inv, AccessInv, [Next]_vars PROVE AccessInv'
  OBVIOUS
<1>1. CASE MainThread \/ AnyThread
  BY <1>1, AccessMain, AccessFault DEF MainThread
<1>2. CASE ContextShutdown("main") \/ CleanupBy("cleanup") \/ CleanupBy("exit")
  BY <1>2, AccessShutdown DEF CleanupBy, Cleaners
<1>3. CASE CleanupThread \/ RenderThread
  BY <1>3, AccessOther, AccessFault
<1>4. CASE OutgoingEnds \/ KeyChanges \/ ProcessExits \/ ProcessEnds
  BY <1>4, AccessOther
<1>5. CASE UNCHANGED vars
  BY <1>5 DEF vars, contextVars, networkVars, processVars, cleanupVars, AccessInv, ToldInv,
     JoinsOnlyTold, OwnedInv, AccessedFromBefore, Runs
<1> QED
  BY <1>1, <1>2, <1>3, <1>4, <1>5 DEF Next

LEMMA AccessInvariant == Spec => []AccessInv
BY AccessInit, AccessNext, InvCorrect, PTL DEF Spec

\* The join of stopServer() waits for a thread that goes to its end, also in a Cleanup()
\* that overtakes the start.
THEOREM JoinEnds == Spec => []JoinsOnlyTold
<1>1. AccessInv => JoinsOnlyTold
  BY DEF AccessInv, ToldInv
<1> QED
  BY <1>1, AccessInvariant, PTL

\* The ways, and no others, in which ClearedContextUnused fails (AccessedFromBefore).
THEOREM AccessFromBefore == Spec => []AccessedFromBefore
<1>1. AccessInv => AccessedFromBefore
  BY DEF AccessInv
<1> QED
  BY <1>1, AccessInvariant, PTL

\* "Clear global reference first to prevent other threads from accessing": after a
\* Cleanup() that came after the start no frame begins with the context.
NoNewFrame == orderly /\ pc'["render"] \in FramePoints => pc["render"] \in FramePoints

THEOREM FramesBegunBefore == Spec => [][NoNewFrame]_vars
<1>1. ASSUME Inv, Next PROVE NoNewFrame
  <2> SUFFICES ASSUME orderly, pc["render"] \notin FramePoints, pc'["render"] # pc["render"]
               PROVE  pc'["render"] \notin FramePoints
    BY DEF NoNewFrame
  <2>0. ~ published /\ pc \in [Threads -> MainPoints \cup CleanupPoints \cup RenderPoints
                                          \cup ExitPoints]
    BY <1>1 DEF Inv, OrderlyInv, TypeOK
  <2>1. RenderThread
    <3> SUFFICES ASSUME ~ RenderThread PROVE FALSE
      OBVIOUS
    <3>1. CASE MainThread \/ CleanupThread
      BY <2>0, <3>1 DEF MainThread, CleanupThread, CreateContext, Initialize, InstallHooks,
         StartTcpServer, SetNetRunning, StartOutgoing, StartOutgoingFails, Unwind, Publish, Poll,
         PollsNull, TestRunning, MainReturns, MainThrows, MainCatches, AwaitContext,
         RecheckContext, AwaitReady, KeyLoop, SampleKey, StopContext, FreeLibrary, Goto, Fault,
         Threads
    <3>2. ASSUME NEW t \in Cleaners \cup {"main"}, ContextShutdown(t) \/ CleanupBy(t)
          PROVE  FALSE
      BY <2>0, <3>2 DEF ContextShutdown, CleanupBy, Cleanup, DestroyContext, Shutdown,
         StopServer, ClearRunning, JoinOutgoing, Unhook, Finish, Goto, Threads, Cleaners
    <3>3. CASE AnyThread \/ OutgoingEnds \/ KeyChanges \/ ProcessExits \/ ProcessEnds
      BY <2>0, <3>3 DEF AnyThread, JoinsTwice, UsesDestroyedContext, RunsUnmappedCode, Fault,
         OutgoingEnds, KeyChanges, ProcessExits, ProcessEnds, Goto, Threads
    <3> QED
      BY <1>1, <3>1, <3>2, <3>3 DEF Next, Cleaners
  <2> QED
    BY <2>0, <2>1 DEF RenderThread, EnterHook, GetContext, LockInbox, CallOriginal,
       CallsFreedTrampoline, UnlockInbox, Goto, Fault, At, FramePoints, Threads
<1>2. Inv /\ [Next]_vars => [NoNewFrame]_vars
  BY <1>1
<1> QED
  BY <1>2, InvCorrect, PTL DEF Spec

============================================================================
