--------------------------- MODULE AgentLifecycle ---------------------------
(***************************************************************************)
(* How the agent comes up and goes away (main.cpp, application_context.cpp,*)
(* shared_state.cpp): MainThread creates, initialises and publishes the    *)
(* application context and polls it; CleanupThread waits for it, samples   *)
(* the DELETE key, stops everything, destroys the context and unmaps the   *)
(* DLL; the game's render thread enters HookedEndScene; the process may    *)
(* end at any moment, which stops every thread where it is and calls       *)
(* DllMain on a thread of its own, "exit".                                 *)
(*                                                                         *)
(* A step of the program that the language or the system gives no meaning  *)
(* (a null or destroyed context, freed or unmapped code, the destruction   *)
(* of a joinable std::thread, two joins of one) sets fault, and nothing is *)
(* said of what comes after.                                               *)
(*                                                                         *)
(* NetworkManager appears with the state that matters here: m_running and  *)
(* the outgoing thread, which stopServer() joins.  The server thread is    *)
(* module TcpServer's and taken to end within stop().  No DLL_PROCESS_     *)
(* DETACH other than those of the process's end and of CleanupThread's own *)
(* FreeLibraryAndExitThread() is considered, as main.cpp has it.           *)
(*                                                                         *)
(* A definition introduced as "Mistake" is a mutation of the one after it. *)
(* No specification uses it; it shows what breaks a property (README).     *)
(***************************************************************************)
EXTENDS Integers

CONSTANTS
  ContextPolls,      \* CleanupThread's polls for g_appContext (100)
  ReadyPolls         \* CleanupThread's polls for isRunning() (200)

ASSUME PollsAssumption == ContextPolls \in Nat \ {0} /\ ReadyPolls \in Nat \ {0}

VARIABLES
  pc,                \* where each thread is
  appContext,        \* main.cpp's g_appContext is not null
  context,           \* the ApplicationContext object
  published,         \* shared_state.cpp's g_applicationContext points to it
  initialized,       \* ApplicationContext::m_initialized
  ctxRunning,        \* ApplicationContext::m_running
  netRunning,        \* NetworkManager::m_running
  outgoing,          \* NetworkManager's outgoing thread
  hooked,            \* EndScene may be patched, and the trampoline exists
  cleanupCalled,     \* Cleanup()'s cleanup_called
  key,               \* DELETE is down
  keyWasPressed,     \* CleanupThread's deleteKeyWasPressed
  polls,             \* CleanupThread's i and waitCount
  loaded,            \* the DLL is mapped
  process,           \* the game's process
  fault,             \* the first undefined step
  orderly            \* history: Cleanup() began after the start was over

contextVars == <<appContext, context, published, initialized, ctxRunning>>
networkVars == <<netRunning, outgoing>>
keyVars == <<key, keyWasPressed, polls>>
processVars == <<loaded, process, fault>>
cleanupVars == <<cleanupCalled, orderly>>
vars == <<pc, contextVars, networkVars, hooked, keyVars, processVars, cleanupVars>>

Threads == {"main", "cleanup", "render", "exit"}

\* In ApplicationContext::shutdown() and what it calls.
ShutdownPoints == {"shutdown", "stopServer", "clearRunning", "join", "unhook", "finish"}

\* In ApplicationContext::initialize() and what it calls.
InitializePoints == {"initialize", "hooks", "listen", "serve", "thread", "unwind"}

\* In HookedEndScene() with the context.
FramePoints == {"lock", "execute", "unlock"}

\* Where a thread is about to use the context object it has already found.
MemberPoints == ShutdownPoints \cup InitializePoints \cup FramePoints \cup {"isRunning"}

MainPoints == ShutdownPoints \cup InitializePoints \cup
  {"create", "publish", "poll", "isRunning", "leave", "caught", "ended"}

CleanupPoints == ShutdownPoints \cup
  {"await", "recheck", "ready", "loop", "sample", "stop", "cleanup", "destroy", "unload",
   "ended"}

RenderPoints == FramePoints \cup {"game", "hook", "bypass"}

ExitPoints == ShutdownPoints \cup {"idle", "cleanup", "destroy", "unload", "ended"}

\* The points of MainThread after the start.
Started == {"poll", "isRunning", "leave", "ended"}

Faults == {"null context", "destroyed context", "freed trampoline", "unmapped code",
           "joinable thread", "joined twice"}

TypeOK ==
  /\ pc \in [Threads -> MainPoints \cup CleanupPoints \cup RenderPoints \cup ExitPoints]
  /\ pc["main"] \in MainPoints
  /\ pc["cleanup"] \in CleanupPoints
  /\ pc["render"] \in RenderPoints
  /\ pc["exit"] \in ExitPoints
  /\ appContext \in BOOLEAN
  /\ context \in {"none", "alive", "destroyed"}
  /\ published \in BOOLEAN
  /\ initialized \in BOOLEAN
  /\ ctxRunning \in BOOLEAN
  /\ netRunning \in BOOLEAN
  /\ outgoing \in {"none", "running", "finished", "joined"}
  /\ hooked \in BOOLEAN
  /\ cleanupCalled \in BOOLEAN
  /\ key \in BOOLEAN
  /\ keyWasPressed \in BOOLEAN
  /\ polls \in 0 .. (ContextPolls + ReadyPolls)
  /\ loaded \in BOOLEAN
  /\ process \in {"running", "exiting", "ended"}
  /\ fault \in {"none"} \cup Faults
  /\ orderly \in BOOLEAN

\* DllMain(DLL_PROCESS_ATTACH) has created the two threads; DELETE may be down.
Init ==
  /\ pc = [main |-> "create", cleanup |-> "await", render |-> "game", exit |-> "idle"]
  /\ appContext = FALSE /\ context = "none" /\ published = FALSE
  /\ initialized = FALSE /\ ctxRunning = FALSE
  /\ netRunning = FALSE /\ outgoing = "none" /\ hooked = FALSE
  /\ cleanupCalled = FALSE /\ orderly = FALSE
  /\ key \in BOOLEAN /\ keyWasPressed = FALSE /\ polls = 0
  /\ loaded = TRUE /\ process = "running" /\ fault = "none"

-----------------------------------------------------------------------------
(***************************************************************************)
(* Threads and faults.                                                     *)
(***************************************************************************)
\* The end of the process leaves only the thread that calls DllMain.
Runs(t) ==
  /\ fault = "none"
  /\ process = (IF t = "exit" THEN "exiting" ELSE "running")

\* t executes the step at p, in code and on an object that exist.
At(t, p) ==
  /\ Runs(t)
  /\ loaded
  /\ pc[t] = p
  /\ p \in MemberPoints => context = "alive"

Goto(t, p) == pc' = [pc EXCEPT ![t] = p]

Fault(f) ==
  /\ fault' = f
  /\ UNCHANGED <<pc, contextVars, networkVars, hooked, keyVars, loaded, process,
                 cleanupVars>>

UsesDestroyedContext(t) ==
  /\ Runs(t) /\ loaded
  /\ pc[t] \in MemberPoints
  /\ context = "destroyed"
  /\ Fault("destroyed context")

RunsUnmappedCode(t) ==
  /\ Runs(t) /\ ~ loaded
  /\ pc[t] \notin {"game", "idle", "ended"}
  /\ Fault("unmapped code")

IsRunning == ctxRunning /\ netRunning

Joinable == outgoing \in {"running", "finished"}

-----------------------------------------------------------------------------
(***************************************************************************)
(* MainThread, with ApplicationContext::initialize() and startServer().    *)
(***************************************************************************)
\* make_unique<ApplicationContext>().
CreateContext ==
  /\ At("main", "create")
  /\ appContext' = TRUE /\ context' = "alive"
  /\ Goto("main", "initialize")
  /\ UNCHANGED <<published, initialized, ctxRunning, networkVars, hooked, keyVars,
                 processVars, cleanupVars>>

Initialize ==
  /\ At("main", "initialize")
  /\ initialized' = TRUE /\ ctxRunning' = TRUE
  /\ Goto("main", "hooks")
  /\ UNCHANGED <<appContext, context, published, networkVars, hooked, keyVars,
                 processVars, cleanupVars>>

\* InstallHooks() patches EndScene, or throws; what it logs once EndScene is
\* patched may throw as well.
InstallHooks ==
  /\ At("main", "hooks")
  /\ \/ hooked' = TRUE /\ (Goto("main", "listen") \/ Goto("main", "unwind"))
     \/ UNCHANGED hooked /\ Goto("main", "unwind")
  /\ UNCHANGED <<contextVars, networkVars, keyVars, processVars, cleanupVars>>

\* TcpServer::start().
StartTcpServer ==
  /\ At("main", "listen")
  /\ Goto("main", "serve") \/ Goto("main", "unwind")
  /\ UNCHANGED <<contextVars, networkVars, hooked, keyVars, processVars, cleanupVars>>

SetNetRunning ==
  /\ At("main", "serve")
  /\ netRunning' = TRUE
  /\ Goto("main", "thread")
  /\ UNCHANGED <<contextVars, outgoing, hooked, keyVars, processVars, cleanupVars>>

StartOutgoing ==
  /\ At("main", "thread")
  /\ outgoing' = "running"
  /\ Goto("main", "publish")
  /\ UNCHANGED <<contextVars, netRunning, hooked, keyVars, processVars, cleanupVars>>

StartOutgoingFails ==
  /\ At("main", "thread")
  /\ netRunning' = FALSE
  /\ Goto("main", "unwind")
  /\ UNCHANGED <<contextVars, outgoing, hooked, keyVars, processVars, cleanupVars>>

\* initialize() returns false; EndScene stays patched if it is.
Unwind ==
  /\ At("main", "unwind")
  /\ initialized' = FALSE /\ ctxRunning' = FALSE
  /\ Goto("main", "ended")
  /\ UNCHANGED <<appContext, context, published, networkVars, hooked, keyVars,
                 processVars, cleanupVars>>

\* SetApplicationContext(g_appContext.get()), null included.
Publish ==
  /\ At("main", "publish")
  /\ published' = appContext
  /\ Goto("main", "poll")
  /\ UNCHANGED <<appContext, context, initialized, ctxRunning, networkVars, hooked,
                 keyVars, processVars, cleanupVars>>

\* while (g_appContext->isRunning()): the pointer, then the object.
Poll ==
  /\ At("main", "poll")
  /\ appContext
  /\ Goto("main", "isRunning")
  /\ UNCHANGED <<contextVars, networkVars, hooked, keyVars, processVars, cleanupVars>>

PollsNull ==
  /\ At("main", "poll")
  /\ ~ appContext
  /\ Fault("null context")

TestRunning ==
  /\ At("main", "isRunning")
  /\ Goto("main", IF IsRunning THEN "poll" ELSE "leave")
  /\ UNCHANGED <<contextVars, networkVars, hooked, keyVars, processVars, cleanupVars>>

MainReturns ==
  /\ At("main", "leave")
  /\ Goto("main", "ended")
  /\ UNCHANGED <<contextVars, networkVars, hooked, keyVars, processVars, cleanupVars>>

\* What MainThread itself does outside initialize() and the loop may throw.
MainThrows ==
  /\ \E p \in {"create", "publish", "leave"} : At("main", p)
  /\ Goto("main", "caught")
  /\ UNCHANGED <<contextVars, networkVars, hooked, keyVars, processVars, cleanupVars>>

MainCatches ==
  /\ At("main", "caught")
  /\ Goto("main", IF appContext THEN "shutdown" ELSE "ended")
  /\ UNCHANGED <<contextVars, networkVars, hooked, keyVars, processVars, cleanupVars>>

OutgoingEnds ==
  /\ Runs("main") /\ loaded
  /\ outgoing = "running" /\ ~ netRunning
  /\ outgoing' = "finished"
  /\ UNCHANGED <<pc, contextVars, netRunning, hooked, keyVars, processVars, cleanupVars>>

-----------------------------------------------------------------------------
(***************************************************************************)
(* ApplicationContext::shutdown() with stopServer(), by any thread that    *)
(* calls it.                                                               *)
(***************************************************************************)
\* MainThread calls shutdown() to return, Cleanup() to destroy the context.
AfterShutdown(t) == IF t = "main" THEN "ended" ELSE "destroy"

Shutdown(t) ==
  /\ At(t, "shutdown")
  /\ \/ /\ initialized
        /\ ctxRunning' = FALSE
        /\ Goto(t, "stopServer")
     \/ /\ ~ initialized
        /\ UNCHANGED ctxRunning
        /\ Goto(t, AfterShutdown(t))
  /\ UNCHANGED <<appContext, context, published, initialized, networkVars, hooked,
                 keyVars, processVars, cleanupVars>>

StopServer(t) ==
  /\ At(t, "stopServer")
  /\ Goto(t, IF netRunning THEN "clearRunning" ELSE "unhook")
  /\ UNCHANGED <<contextVars, networkVars, hooked, keyVars, processVars, cleanupVars>>

\* Mistake: the outgoing thread is not told to stop.
ClearRunningForgotten(t) ==
  /\ At(t, "clearRunning")
  /\ Goto(t, "join")
  /\ UNCHANGED <<contextVars, networkVars, hooked, keyVars, processVars, cleanupVars>>

ClearRunning(t) ==
  /\ At(t, "clearRunning")
  /\ netRunning' = FALSE
  /\ Goto(t, "join")
  /\ UNCHANGED <<contextVars, outgoing, hooked, keyVars, processVars, cleanupVars>>

\* Mistake: stopServer() goes on without the join.
JoinOutgoingForgotten(t) ==
  /\ At(t, "join")
  /\ Goto(t, "unhook")
  /\ UNCHANGED <<contextVars, networkVars, hooked, keyVars, processVars, cleanupVars>>

\* if (joinable()) join(): waits for the outgoing thread, which the end of the
\* process has ended already.  The TCP server is stopped after it.
JoinOutgoing(t) ==
  /\ At(t, "join")
  /\ \/ ~ Joinable /\ UNCHANGED outgoing
     \/ /\ outgoing = "finished" \/ (outgoing = "running" /\ process = "exiting")
        /\ \A u \in Threads \ {t} : Runs(u) => pc[u] # "join"
        /\ outgoing' = "joined"
  /\ Goto(t, "unhook")
  /\ UNCHANGED <<contextVars, netRunning, hooked, keyVars, processVars, cleanupVars>>

JoinsTwice ==
  /\ \A t \in {"main", "cleanup"} : At(t, "join")
  /\ Joinable
  /\ Fault("joined twice")

\* MinHook restores EndScene and frees the trampoline, or refuses to.
Removal == hooked' \in {hooked, FALSE}

\* MH_Uninitialize(), whose result nobody looks at.
Unhook(t) ==
  /\ At(t, "unhook")
  /\ Removal
  /\ Goto(t, "finish")
  /\ UNCHANGED <<contextVars, networkVars, keyVars, processVars, cleanupVars>>

Finish(t) ==
  /\ At(t, "finish")
  /\ initialized' = FALSE
  /\ Goto(t, AfterShutdown(t))
  /\ UNCHANGED <<appContext, context, published, ctxRunning, networkVars, hooked,
                 keyVars, processVars, cleanupVars>>

-----------------------------------------------------------------------------
(***************************************************************************)
(* Cleanup(), by CleanupThread or by DllMain at the end of the process.    *)
(***************************************************************************)
\* Mistake: Cleanup() leaves the context published.
CleanupKeepsPublished(t) ==
  /\ At(t, "cleanup")
  /\ cleanupCalled' = TRUE
  /\ orderly' = (orderly \/ (~ cleanupCalled /\ pc["main"] \in Started))
  /\ Goto(t, IF appContext THEN "shutdown" ELSE "unload")
  /\ UNCHANGED <<contextVars, networkVars, hooked, keyVars, processVars>>

\* The first call clears the published pointer.  A second one, which the end of
\* the process makes when it has stopped the first, returns at once, and the
\* destructor of the static g_appContext finds what the first has left.
Cleanup(t) ==
  /\ At(t, "cleanup")
  /\ cleanupCalled' = TRUE
  /\ orderly' = (orderly \/ (~ cleanupCalled /\ pc["main"] \in Started))
  /\ published' = (published /\ (cleanupCalled \/ ~ appContext))
  /\ Goto(t, IF appContext THEN "shutdown" ELSE "unload")
  /\ UNCHANGED <<appContext, context, initialized, ctxRunning, networkVars, hooked,
                 keyVars, processVars>>

\* Mistake: the object goes and the pointer to it stays.
DestroyContextOnly(t) ==
  /\ At(t, "destroy")
  /\ context' = "destroyed"
  /\ fault' = IF Joinable THEN "joinable thread" ELSE "none"
  /\ Goto(t, "unload")
  /\ UNCHANGED <<appContext, published, initialized, ctxRunning, networkVars, hooked,
                 keyVars, loaded, process, cleanupVars>>

\* g_appContext.reset().  ~ApplicationContext() finds the server stopped;
\* ~NetworkManager() destroys the std::thread.
DestroyContext(t) ==
  /\ At(t, "destroy")
  /\ appContext' = FALSE /\ context' = "destroyed"
  /\ fault' = IF Joinable THEN "joinable thread" ELSE "none"
  /\ Goto(t, "unload")
  /\ UNCHANGED <<published, initialized, ctxRunning, networkVars, hooked, keyVars,
                 loaded, process, cleanupVars>>

\* FreeLibraryAndExitThread(): DllMain calls Cleanup() again, for nothing; the
\* destructor of g_hookRegistry uninstalls what is still installed, if MinHook
\* lets it; the code goes whatever comes of that.
FreeLibrary ==
  /\ At("cleanup", "unload")
  /\ Removal
  /\ loaded' = FALSE
  /\ Goto("cleanup", "ended")
  /\ UNCHANGED <<contextVars, networkVars, keyVars, process, fault, cleanupVars>>

-----------------------------------------------------------------------------
(***************************************************************************)
(* CleanupThread.                                                          *)
(***************************************************************************)
\* Mistake: waits for g_appContext without a bound.
AwaitContextForever ==
  /\ At("cleanup", "await")
  /\ \/ appContext /\ polls' = 0 /\ Goto("cleanup", "ready")
     \/ ~ appContext /\ polls' = polls + 1 /\ Goto("cleanup", "await")
  /\ UNCHANGED <<contextVars, networkVars, hooked, key, keyWasPressed, processVars,
                 cleanupVars>>

\* for (i < ContextPolls) if (g_appContext) break.
AwaitContext ==
  /\ At("cleanup", "await")
  /\ \/ appContext /\ polls' = 0 /\ Goto("cleanup", "ready")
     \/ /\ ~ appContext
        /\ polls' = polls + 1
        /\ Goto("cleanup", IF polls' = ContextPolls THEN "recheck" ELSE "await")
  /\ UNCHANGED <<contextVars, networkVars, hooked, key, keyWasPressed, processVars,
                 cleanupVars>>

\* if (!g_appContext) return 1.
RecheckContext ==
  /\ At("cleanup", "recheck")
  /\ polls' = 0
  /\ Goto("cleanup", IF appContext THEN "ready" ELSE "ended")
  /\ UNCHANGED <<contextVars, networkVars, hooked, key, keyWasPressed, processVars,
                 cleanupVars>>

\* Mistake: waits for the agent to run without a bound.
AwaitReadyForever ==
  /\ At("cleanup", "ready")
  /\ Goto("cleanup", IF IsRunning THEN "loop" ELSE "ready")
  /\ UNCHANGED <<contextVars, networkVars, hooked, keyVars, processVars, cleanupVars>>

AwaitReady ==
  /\ At("cleanup", "ready")
  /\ \/ IsRunning /\ UNCHANGED polls /\ Goto("cleanup", "loop")
     \/ /\ ~ IsRunning
        /\ polls' = polls + 1
        /\ Goto("cleanup", IF polls' = ReadyPolls THEN "ended" ELSE "ready")
  /\ UNCHANGED <<contextVars, networkVars, hooked, key, keyWasPressed, processVars,
                 cleanupVars>>

\* while (g_appContext && g_appContext->isRunning()).
KeyLoop ==
  /\ At("cleanup", "loop")
  /\ Goto("cleanup", IF IsRunning THEN "sample" ELSE "ended")
  /\ UNCHANGED <<contextVars, networkVars, hooked, keyVars, processVars, cleanupVars>>

\* Mistake: the previous state is updated before it is compared.
SampleKeyTooLate ==
  /\ At("cleanup", "sample")
  /\ keyWasPressed' = key
  /\ Goto("cleanup", IF key /\ ~ keyWasPressed' THEN "stop" ELSE "loop")
  /\ UNCHANGED <<contextVars, networkVars, hooked, key, polls, processVars, cleanupVars>>

SampleKey ==
  /\ At("cleanup", "sample")
  /\ \/ /\ key /\ ~ keyWasPressed
        /\ UNCHANGED keyWasPressed
        /\ Goto("cleanup", "stop")
     \/ /\ ~ (key /\ ~ keyWasPressed)
        /\ keyWasPressed' = key
        /\ Goto("cleanup", "loop")
  /\ UNCHANGED <<contextVars, networkVars, hooked, key, polls, processVars, cleanupVars>>

StopContext ==
  /\ At("cleanup", "stop")
  /\ ctxRunning' = FALSE
  /\ Goto("cleanup", "cleanup")
  /\ UNCHANGED <<appContext, context, published, initialized, networkVars, hooked,
                 keyVars, processVars, cleanupVars>>

-----------------------------------------------------------------------------
(***************************************************************************)
(* HookedEndScene() on the render thread.                                  *)
(***************************************************************************)
\* The game calls the patched EndScene.
EnterHook ==
  /\ Runs("render")
  /\ pc["render"] = "game"
  /\ hooked
  /\ Goto("render", "hook")
  /\ UNCHANGED <<contextVars, networkVars, hooked, keyVars, processVars, cleanupVars>>

GetContext ==
  /\ At("render", "hook")
  /\ Goto("render", IF published THEN "lock" ELSE "bypass")
  /\ UNCHANGED <<contextVars, networkVars, hooked, keyVars, processVars, cleanupVars>>

LockInbox ==
  /\ At("render", "lock")
  /\ Goto("render", "execute")
  /\ UNCHANGED <<contextVars, networkVars, hooked, keyVars, processVars, cleanupVars>>

\* The command, if there is one, and the call of s_originalEndScene, with the
\* inbox locked or without a context.
CallOriginal ==
  /\ hooked
  /\ \/ At("render", "execute") /\ Goto("render", "unlock")
     \/ At("render", "bypass") /\ Goto("render", "game")
  /\ UNCHANGED <<contextVars, networkVars, hooked, keyVars, processVars, cleanupVars>>

CallsFreedTrampoline ==
  /\ ~ hooked
  /\ At("render", "execute") \/ At("render", "bypass")
  /\ Fault("freed trampoline")

UnlockInbox ==
  /\ At("render", "unlock")
  /\ Goto("render", "game")
  /\ UNCHANGED <<contextVars, networkVars, hooked, keyVars, processVars, cleanupVars>>

-----------------------------------------------------------------------------
(***************************************************************************)
(* The user and the end of the process.                                    *)
(***************************************************************************)
KeyChanges ==
  /\ Runs("cleanup")
  /\ key' = ~ key
  /\ UNCHANGED <<pc, contextVars, networkVars, hooked, keyWasPressed, polls,
                 processVars, cleanupVars>>

\* Every thread is stopped where it is; DllMain(DLL_PROCESS_DETACH) is called.
ProcessExits ==
  /\ Runs("main") /\ loaded
  /\ process' = "exiting"
  /\ Goto("exit", "cleanup")
  /\ UNCHANGED <<contextVars, networkVars, hooked, keyVars, loaded, fault, cleanupVars>>

\* The destructor of g_hookRegistry uninstalls what is still installed.
ProcessEnds ==
  /\ At("exit", "unload")
  /\ Removal
  /\ process' = "ended"
  /\ Goto("exit", "ended")
  /\ UNCHANGED <<contextVars, networkVars, keyVars, loaded, fault, cleanupVars>>

-----------------------------------------------------------------------------
MainThread ==
  \/ CreateContext \/ Initialize \/ InstallHooks \/ StartTcpServer \/ SetNetRunning
  \/ StartOutgoing \/ StartOutgoingFails \/ Unwind \/ Publish \/ Poll \/ PollsNull
  \/ TestRunning \/ MainReturns \/ MainThrows \/ MainCatches

ContextShutdown(t) ==
  \/ Shutdown(t) \/ StopServer(t) \/ ClearRunning(t) \/ JoinOutgoing(t) \/ Unhook(t)
  \/ Finish(t)

CleanupThread ==
  \/ AwaitContext \/ RecheckContext \/ AwaitReady \/ KeyLoop \/ SampleKey \/ StopContext
  \/ FreeLibrary

CleanupBy(t) == Cleanup(t) \/ ContextShutdown(t) \/ DestroyContext(t)

RenderThread ==
  \/ EnterHook \/ GetContext \/ LockInbox \/ CallOriginal \/ CallsFreedTrampoline
  \/ UnlockInbox

AnyThread ==
  JoinsTwice \/ \E t \in Threads : UsesDestroyedContext(t) \/ RunsUnmappedCode(t)

Next ==
  \/ MainThread \/ ContextShutdown("main") \/ OutgoingEnds
  \/ CleanupThread \/ CleanupBy("cleanup")
  \/ CleanupBy("exit") \/ ProcessEnds
  \/ RenderThread \/ AnyThread
  \/ KeyChanges \/ ProcessExits

Spec == Init /\ [][Next]_vars

\* Every thread of the agent goes on; that the outgoing thread ends once it is
\* told to assumes that it is not held in send() by a controller that does not
\* read.  Nothing is assumed of the game and the user.
FairSpec ==
  /\ Spec
  /\ WF_vars(MainThread \/ ContextShutdown("main"))
  /\ WF_vars(CleanupThread \/ CleanupBy("cleanup"))
  /\ WF_vars(CleanupBy("exit") \/ ProcessEnds)
  /\ WF_vars(OutgoingEnds) /\ WF_vars(AnyThread)

-----------------------------------------------------------------------------
(***************************************************************************)
(* Safety.                                                                 *)
(***************************************************************************)
\* A Cleanup() that comes after the start destroys nothing that the render
\* thread can still get from GetApplicationContext().
UnpublishedWhenDestroyed == orderly /\ context = "destroyed" => ~ published

\* The outgoing thread is joined before the NetworkManager that it runs in is
\* destroyed; ~thread() calls std::terminate() only when Cleanup() overtakes the
\* start, when MainThread, after an exception, is in a join of its own, or when the
\* end of the process stops Cleanup() in the join.
TerminatesOnlyOutOfOrder ==
  fault = "joinable thread" =>
    \/ ~ orderly
    \/ pc["main"] = "join"
    \/ process = "exiting" /\ pc["cleanup"] = "join"

\* A Cleanup() after the start may destroy the context under MainThread, which is
\* about to poll it or shuts it down after an exception, and under a frame that the
\* render thread is in; nobody else meets a null or a destroyed context, the second
\* Cleanup() of a process that ends in the first included.
AccessedFromBefore ==
  orderly =>
    /\ fault = "null context" => pc["main"] = "poll"
    /\ fault = "destroyed context" =>
         \/ pc["main"] \in ShutdownPoints \cup {"isRunning"}
         \/ pc["render"] \in FramePoints

(***************************************************************************)
(* Liveness.                                                               *)
(***************************************************************************)
Gone == ~ loaded \/ process = "ended" \/ fault # "none"

\* A user who keeps DELETE down while CleanupThread watches it gets the DLL
\* unloaded, if the agent does not stop by itself first.
HeldKeyUnloads ==
  []((pc["cleanup"] = "loop" /\ []key) => <>(Gone \/ pc["cleanup"] = "ended"))

\* Cleanup() never hangs once it has begun, also when the process ends in it.
CleanupFinishes == cleanupCalled ~> Gone

\* CleanupThread does not outlive an agent whose start has failed.
FailedStartGivenUp ==
  (pc["main"] = "ended" /\ ~ ctxRunning) ~> (Gone \/ pc["cleanup"] = "ended")

(***************************************************************************)
(* A claim that the code does not live up to.                              *)
(***************************************************************************)
\* Cleanup(): "Clear global reference first to prevent other threads from
\* accessing".  No thread accesses the context after a Cleanup() that came after the
\* start has destroyed it, through a null pointer or one that it had read before.
ClearedContextUnused ==
  orderly => fault \notin {"null context", "destroyed context"}

============================================================================
