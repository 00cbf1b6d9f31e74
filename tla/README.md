# Verification of the Icecap agent

TLA+ models of the Icecap agent (`src/`), their model checking with TLC and
proofs about them with TLAPS. The agent is a DLL in a game's process: a
controller connects over TCP and sends commands, the agent executes them on the
game's render thread and sends events back. About 1800 lines of C++, five
threads, two queues, no tests.

## 1. The system

| Component | Source | State it keeps | Operations |
|---|---|---|---|
| TcpServer | `transport/TcpServer.cpp` | `m_running` (atomic), `m_listenerSocket`, `m_clientSocket` (mutex), the server thread | `start`, `stop`, `sendData`; the thread: accept, receive, close, one client at a time |
| NetworkManager | `transport/NetworkManager.cpp` | `m_running`, `m_currentClient` (unprotected), the receive buffer, pointers to the queues and mutexes, the outgoing thread | `startServer`, `stopServer`, the callbacks of the server thread, the outgoing loop |
| ProtocolHandler | `transport/ProtocolHandler.cpp` | none | `extractFrame`, `encodeMessage` |
| ApplicationContext | `application_context.cpp` | `m_running`, `m_initialized`, inbox, outbox, a mutex each | `initialize`, `shutdown`, `stop`, `isRunning` |
| shared state | `shared_state.cpp` | the published context pointer (atomic) | get, set |
| D3D9Hook | `hooks/D3D9Hook.cpp` | target address, original function | install, uninstall, `HookedEndScene` |
| hook registry | `hooks/BaseHook.cpp`, `HookRegistry.cpp`, `hooks.cpp` | the hooks, installed or not | register, install all, uninstall all |
| MessageProcessor, CommandExecutor, EventPublisher | `core/` | none of their own | execute a command, make the event that answers it, push it on the outbox |
| main | `main.cpp` | `g_appContext`, the state of the DELETE key | `DllMain`, `MainThread`, `CleanupThread`, `Cleanup` |
| Logger | `logging.cpp` | `m_logger`, `m_initialized` | `initialize`, `shutdown`, log |
| FrameScript hook | `hooks/frame_script.cpp` | none; never installed | format the arguments of a game event |

Threads and where they meet:

* the **server thread** (TcpServer) calls NetworkManager's callbacks, pushes
  commands on the **inbox** and writes `m_currentClient`;
* the game's **render thread** runs `HookedEndScene`: it holds the inbox mutex
  from before it pops a command until the original EndScene has returned, and
  takes the outbox mutex inside it to push the answer;
* the **outgoing thread** (NetworkManager) polls `m_currentClient`, swaps the
  **outbox** for an empty queue and sends what it found;
* **MainThread** initialises everything and polls `isRunning`;
* **CleanupThread** samples the DELETE key, stops everything and unloads the DLL.

What is hard here: two threads share `m_currentClient` and the client's socket
handle with no lock, and handles are reused by the process; a client may leave
at any point of a send; `stop()` races with `accept`; five seconds after that
`stop()` no longer waits; the unload races with everything. What makes each
component correct:

* command path: no command is lost, doubled or overtaken, each has at most one
  answer, answers keep the order, streams keep their framing, the game is never
  held up;
* TcpServer: `stop()` always unblocks the server thread, everything opened is
  closed once, nothing of the game's is touched;
* NetworkManager: `m_currentClient` is the client that is served, `stopServer()`
  returns and leaves no thread behind that uses what it takes away;
* ProtocolHandler: the frames do not depend on how the stream is cut;
* lifecycle: nobody uses the context after it is destroyed, DELETE unloads;
* hooks: EndScene leads into the agent only while the agent can go on to the
  original, what was installed is uninstalled, and what a failed installation leaves
  in EndScene is found;
* FrameScript hook: each argument is read from its place, strings are bounded, the
  original is always called if there is one.

`PROJECT.json` lists the hazards line by line with the properties that cover
them, or the reason why none does.

## 2. Modules

| Module | What it is |
|---|---|
| `CommandEventBridge` | The contract: commands are executed one at a time in order of arrival, each answered by at most one event of a type it calls for; events leave in that order. No threads, no loss on the way in, no promise of delivery on the way out. |
| `CommandPipeline` | The command path of the running agent: server, render and outgoing thread step by step, both mutexes, `m_currentClient`, handle reuse, partial sends, failures. |
| `TcpServer` | `start()`, `stop()` and the server thread to the single socket call, with handles that the game may get. |
| `AgentLifecycle` | How the agent comes up and goes away: MainThread, CleanupThread, the end of the process, the render thread in the hook, and who still uses what has been taken away. |
| `NetworkManager` | `startServer()` and `stopServer()` on top of `TcpServer`, which it extends: callbacks, the outgoing thread, the pointers to the queues, the destruction. |
| `HookInstall` | The hook registry, `BaseHook`, `D3D9Hook` and MinHook from `InstallHooks()` to the unmapping, under a game that draws. |
| `FrameScriptArgs` | The FrameScript hook: the cursors of `formatCustomArgs()` and the chunks of `readCStringBounded()`. |
| `FrameChannel` | The contract of the framing: payloads come out one at a time as they were written, nothing of one connection on the next; the framing of a connection can be lost before its first payload only, and a length can kill the receiver behind the last one only. No bytes, no buffer. |
| `Framing` | Bytes: `encodeMessage()`, `extractFrame()` and the receive buffer under a stream that is cut anywhere. |
| `MC...` | For each of the modules but the two contracts, the values of its constants for TLC. |
| `...Proofs` | Inductive invariant, lemmas and theorems of `CommandPipeline`, `TcpServer`, `NetworkManager`, `AgentLifecycle`, `HookInstall`, `FrameScriptArgs` and `Framing`. |

How they compose: `CommandPipeline` implements `CommandEventBridge` and `Framing`
implements `FrameChannel` (refinements).
`NetworkManager` extends `TcpServer`: each of its steps is a step of `TcpServer` or
leaves the server's state alone (`UsesTcpServer`, proved). `CommandPipeline` and
`Framing` are what happens between `NetworkManager`'s `SetNetRunning` and
`StopServer`, the one above the frame and the other below it. `AgentLifecycle` has
`stopServer()` and `InstallHooks()` as few steps each, with the other threads of the
process around them; `NetworkManager` and `HookInstall` open these up.

### CommandPipeline and the code

`srv`, `rnd` and `out` are the program points of the three threads. A step is
what a thread does between two points at which another thread can see or change
something: a lock, an unlock, a read or write of `m_currentClient`, a socket
call. `executing`, `arriving` and `answer` are the local variables `cmd`,
`command` and `event` as sequences of length 0 or 1; `batch` is `localQueue`,
`target` and `sentPieces` are `sendData`'s `clientSocket` and `totalSent`.

* A command is a record of what the code asks about it (type, payload there or
  not, text empty or not, address zero or not, position there or not) and its
  number of arrival, which stands for the operation id that
  `EventPublisher` copies into the event. What the game's functions return is
  any Boolean.
* The game's frame is at `lockInbox` while it waits for the inbox mutex and at
  `lockOutbox` while it waits for the other one inside it, so that both waits are part of
  `FrameCompletes`. A push or a pop is one step under its mutex: the models show that
  the order of these steps is harmless, not what a missing lock would do to a queue.
* A frame goes out in pieces; `send()` takes any number of them (`SendSome`,
  `SendRest`) on whatever socket has the handle at that moment, or fails. That is the
  agent's connection, or once the agent has closed it, a socket the game may have opened
  under the same value: it takes the bytes (`strayed` remembers which) or refuses them,
  and a handle that nothing has is refused (`CanSend`, `Refused`, `Write`).
  `Pieces` bounds how finely a frame is cut.
* Answers are lost for two reasons that a client which stays can meet: they do not
  serialize, or an exception destroys `localQueue`. `LostOnlyToDepartedClient` is about
  the third, a `send()` that fails, and about bytes that go to a socket of the game: both
  happen only to a client that is going or gone.
* `Unserializable` is the set of event types whose `SerializeToString` may fail:
  the result of a Lua variable is arbitrary bytes in a string field. An
  exception in `processCommand` (`ProcessingThrows`) or in
  `processOutgoingMessages` (`SendingThrows`, then `Discard` for each event that
  is destroyed with `localQueue`) may come at any time, as the code that
  catches it expects. What the server thread and the copy of the command before
  `try` would do without memory, ending the process, is left out.
* The server thread's loop appears with its socket calls folded into three
  steps, `Accept`, `ReceiveCommand`, `CloseSocket`; `TcpServer` has them one by
  one. A `recv()` that completes several frames is several `ReceiveCommand`s; one
  that completes none changes nothing. `Accept` may also never happen again,
  which is what a failed `accept()` amounts to.
* The module begins when `startServer()` has returned with nobody connected yet
  and ends before `stopServer()`.

### TcpServer and the code

`own` is where the owner is in `start()` or `stop()`, `srv` where the server
thread is. `sock` says what each handle names: nothing, the listener, a
connection and its condition, or a socket of the game, which is what
`closesocket` of a stale handle would hit. The data callback takes as long as it
likes. The other callbacks do not block. `m_running` is atomic and
`m_clientSocket` has a mutex whose critical sections are single steps here.
`m_listenerSocket` is read by `accept()`'s caller and written by `stop()` without
one: the old or the new value is read.

`WaitTimesOut` needs the server thread in the data callback: five seconds are
long for everything else it does, and nothing else waits for another thread.

### NetworkManager and the code

`nm` is where the owner is in `startServer()` or `stopServer()`; `own` is where it is
in the TCP server's `start()` or `stop()` meanwhile. `cb` is where the server thread
is inside the callback that its point in `TcpServer` makes: `call` is between
`if (m_...Callback)` and the call, `frame` is the loop of `onDataReceived()`, `deref`
is past the tests of `onMessageReceived()` and before `*m_inboxMutex`, `lock` waits
for that mutex.

* A step of `TcpServer` in which a callback lies ends when the callback returns
  (`CallbackOver`), or at the test when the function is empty. `accept()` that fails
  calls the error callback, as the code does while it runs.
* The outgoing thread (`out`) tests `m_running`, tests `m_currentClient`, reads it
  again for each event (`SendData`), is in `send()` (`sending`) as long as the client
  likes, and tests and calls the error callback when `send()` fails. The outbox is
  not empty whenever that matters.
* The render thread is who may hold the inbox mutex while the context is published,
  for any time.
* `TcpServer::stop()` gives up its wait only while the server thread waits for the
  inbox mutex, which needs a context that has been published; so not in the undoing
  of a failed `startServer()`.
* `fault` ends a run: the call of an empty `std::function`, a null pointer, the use
  of the destroyed object. `Destroy` is `Cleanup()`'s reset of the context.
* Module `TcpServer` keeps its own run: there the callbacks take any time, so that
  what holds there does not depend on what `NetworkManager` does in them.

### HookInstall and the code

`own` goes through `InstallHooks()`, then `shutdown()` or none, then the registry's
destructor, then the unmapping. `entry` is MinHook's record of the hook (`enabled`
means that EndScene's first bytes are patched), `trampoline` the memory through which
the original is called. MinHook is external: each call succeeds or fails and a failed
one changes nothing, that of `MH_RemoveHook` after `MH_EnableHook` has failed included,
whose result the code does not look at; `MH_DisableHook` and `MH_RemoveHook` are refused
when MinHook has been uninitialised, and `MH_Uninitialize` and both of them may be unable
to write EndScene (`refused` remembers). An exception, of the logging as a rule, may
come after a step that has been done: after `MH_Initialize`, after the registration,
after the address has been found, and after `m_installed = true`, when `InstallHooks()`
throws with EndScene patched. `FailedInstallFound` says what the code owes in all these
cases: the destructor of the registry finds the hook installed exactly if EndScene is
patched. `RestoreAll` and `FreeBuffers` are the two halves of
`MH_Uninitialize`, between which a frame may come. The render thread enters the hook
whenever EndScene is patched, and its steps are those that need the module mapped
(`hook`, `returning`) or the trampoline alive.

The model says which of the teardown's orders are harmless. The destructor normally
finds MinHook uninitialised, so `uninstall()` fails, `m_installed` and
`s_originalEndScene` keep their values, and it is `MH_Uninitialize()` that has restored
EndScene; after a failed start it is the destructor. `AgentLifecycle` lets any removal
fail (`Removal`) and claims nothing of it; when EndScene stays patched is
`UnmappedUnpatched`, here.

### FrameScriptArgs and the code

One step per directive of the format, one per chunk of a string. `reads` is the
history of arguments read, with kind and address. `Space`, `PageSize`, `Chunk` and
`MaxLen` are 2^32, 4096, 128 and 1024 in the program and scaled for TLC; addresses
wrap at `Space` as `uintptr_t` does. `ReadProcessMemory` reads all of a range or fails.
The text itself is left out, but for how many characters of a string it gets and
whether "..." follows. `original` is whether there is an original function: the code
tests it and calls nothing without (`dropped`).

### AgentLifecycle and the code

`pc` has four threads: MainThread, CleanupThread, the render thread, and "exit",
the one that calls `DllMain` when the process ends. A step is one read or write
of something that another thread reads or writes, or one call that can fail.
`ContextShutdown(t)` is `ApplicationContext::shutdown()` with `stopServer()` for
whichever thread is in it, since Cleanup and MainThread's exception handler can
both be.

* **Faults.** A step that C++ or Windows gives no meaning to sets `fault`: a null
  or destroyed context, a call of the trampoline that `MH_Uninitialize()` has
  freed, unmapped code, `~thread()` of a joinable thread, two joins of one. The
  run ends there, since nothing can be said of what comes after. The properties
  say which faults can come when, and what is never done in the wrong order;
  `AccessedFromBefore` names who alone can meet a context that an orderly `Cleanup()`
  has destroyed.
* **Hooks.** `InstallHooks` patches EndScene or not, and may throw in either case.
  `Removal` restores EndScene or is refused, by `MH_Uninitialize()` in `shutdown()` and by
  the registry's destructor at the end of the DLL and of the process.
* **Orderly.** A DELETE before MainThread has published the context, or the end
  of the process during the start, takes the context from under `initialize()`.
  `orderly` remembers that `Cleanup()` began after the start was over, which is
  what its comments assume.
* MainThread can get an exception at the points outside `initialize()`'s own
  handlers and the polling: in creating the context, in the log calls around the
  publication, after the loop.
* `Cleanup()`'s `Sleep(1000)` is left out: it makes some orders unlikely and
  orders nothing. `CleanupThread` and MainThread poll; a sleep is the gap between
  two steps. The end of the process stops all threads where they are, then
  `DllMain` and the destructors of the static objects run on one thread
  (`CleanupBy("exit")`, `ProcessEnds`). No other `FreeLibrary()` of the DLL is
  considered, as `DllMain`'s comment has it.
* The server thread is taken to end inside `stop()`; `TcpServer` and
  `NetworkManager` have what happens when it does not.

### Framing and the code

The server thread is in `accept`, in `recv`, or in the loop of
`onDataReceived()`; `OnDataReceived` takes any number of the bytes on the wire.
`frames` is what `onMessageReceived()` has been called with. A byte is a digit below
`Radix` and the prefix has four of them, as in the code, so `Radix = 2` makes a word
of four bits with all its boundaries: `MaxSize` is half a word less one, like
`std::string::max_size()` with 32 bits, and `FrameSize` is the sum
`4u + len` with its wrap. A controller can announce any length that no string can
have; shorter frames are cut off by the end of the connection.
The first bytes of a connection may come before `startServer()` has set `m_running`
(`SetRunning`) and are then thrown away, which `dropped` remembers.

`Channel` is the refinement mapping to `FrameChannel`: a connection is closed while the
server thread is in `accept` and dead once it has thrown, `lost` is `dropped`, and
`poisoned` says that a length was announced whose sum wraps. `ChannelSpec` contains what
`FramesAsSent` says of each connection (theorem `Sent`), and what it does not: that a
frame comes out of the next payload in one step, that nothing is taken back, that a lost
framing is found again at the next connection, and where the receiver can die.

## 3. Checks

All runs are in `PROJECT.json`; `tlc -config X.cfg M`.

| Run | Specification and bounds | Shows |
|---|---|---|
| `pipeline` | `Spec`; 3 commands of 3 shapes, 2 connections, 2 handles, frames of 2 pieces | `TypeOK`, `CommandsConserved`, `EveryCommandAccountedFor`, `AnswersInOrder`, `LostOnlyToDepartedClient`, `FramesWholeInside`, and the refinement `BridgeSpec` |
| `pipeline_live` | `FairSpec`; 2 commands, 2 connections, 1 handle | `CommandsExecuted`, `FrameCompletes`, `EventsDrain` |
| `tcp_server` | `FairSpec`; 3 handles, 3 connections | `StopUnblocksThread`, `RecvOnConnection`, `NothingLeftOpen`, `ForeignClosedOnlyAfterTimeout`, `StopReturns`, `ThreadEnds`, `TypeOK` |
| `lifecycle` | `FairSpec`; 2 polls for the context, 2 for its start | `UnpublishedWhenDestroyed`, `AccessedFromBefore`, `TerminatesOnlyOutOfOrder`, `HeldKeyUnloads`, `CleanupFinishes`, `FailedStartGivenUp`, `TypeOK` |
| `framing` | `Spec`; 4-bit words, 2 frames on each of 2 connections, payloads of 0, 1 and 2 bytes | `NothingHeldBack`, `ThrowsOnlyOnWrap`, `TypeOK`, and the refinement `ChannelSpec` |
| `network_manager` | `NMFairSpec`; 2 handles, 2 connections | `QuietAfterStop`, `ResetOnlyUnderTimeout`, `CurrentClientServed`, `StopServerReturns` |
| `hook_install` | `Spec`; 3 frames | `PatchedReachesOriginal`, `FailedInstallFound`, `UnmappedUnpatched`, `FaultsOnlyInTakeDown` |
| `frame_script` | `FairSpec`; 32 addresses in 4 pages, chunks of 4, bound 8, 3 directives | `ArgumentsAtTheirPlace`, `StringCutAtBound`, `EventForwarded`, `TypeOK` |
| `stream_prefix`, `close_after_thread`, `cleared_context`, `callbacks_cleared` | `Spec`, `NMSpec` | each a promise of a document or comment that the code breaks, section 5 |

Why these bounds are enough. Three commands are one at each place of the path at
a time (arriving or in the inbox, being executed, in the outbox, in the batch)
with one behind another in every queue; the three shapes have an answer that may go
either way, one that may not serialize, and none. Two connections on two handles
give both a handle that comes back and one that does not; a third connection adds
nothing that the second does not show, since only the current one and the last
one seen by the outgoing thread matter. Two pieces are a frame cut once. Three
handles for TcpServer are the listener, a client, and a socket of the game or a
second client; with three connections a handle is used again after it was closed.
Two
polls are one that fails and goes on and one that gives up, in both of
CleanupThread's waits; a hundred and two hundred differ from two only in time.
Two frames and a partial third meet in the buffer in every cut, two connections
make the one remainder that could be left over, and a four-bit word has every
length from 0 to the four that wrap. NetworkManager needs the listener's handle and
one for clients, which the second client gets again: that is what `m_currentClient`
could be stale against, and the game's sockets can have both. Three frames are one in
the hook, one that enters while the hook goes, and one after. In `FrameScriptArgs` two
chunks make up the bound, strings end before, at and behind each end of a chunk and
the bound, pages hold two chunks so that a chunk can lie across a page's end, and the
stacks at both ends of memory wrap; three directives have every mixture of kinds with
one argument between two others. The proofs of section 4 do not depend on any of these numbers.

Every property of a passing run is shown to depend on the code: for each one a
definition "Mistake" next to an action states a plausible bug (a front without a
pop, a copy for a swap, a mutex kept, an offset forgotten), and with it in the
action's place TLC finds the property violated.

**Fairness.** `CommandPipeline`: each thread goes on while it can (weak
fairness), and a thread that waits for a mutex gets it if it is free again and
again (strong fairness). Both mutexes are held for bounded work and let go between two
frames and during `send` and `sleep`, and Windows does not starve a waiter for ever.
`SendSome`, `SendRest` and `SendFails` have no fairness, since `send()` may wait for room
in a buffer whatever its end, nor have the controllers: a controller that does not read blocks the outgoing thread for as
long as it likes, which is why `EventsDrain` assumes that it is not in `send()`
for ever and that a client stays. `CommandsExecuted` and `FrameCompletes` assume nothing
about controllers; the wait for the inbox mutex (`LockInboxRender`) has strong fairness
like the other waits. `TcpServer`: the owner finishes the `stop()` it began, and the
server thread goes on when it is not in `accept`, `recv` or the data callback.
`ThreadEnds` assumes that the data callback returns; `StopReturns` does not.
`AgentLifecycle`: MainThread, CleanupThread and the process's end go on, and the
outgoing thread ends once `m_running` is FALSE, which assumes that a controller does
not keep it in `send()` (`StopServerReturns` has that condition). The render thread and the user have
no fairness: `CleanupFinishes` does not need another frame to be drawn, and
`HeldKeyUnloads` says of the user what it needs. `NetworkManager`: the owner goes on
in a `startServer()` or `stopServer()` it has begun; the server thread goes on except
in an `accept()` or `recv()` that nothing ends and while the render thread has the
inbox mutex; the outgoing thread goes on, out of `send()` only when it fails, and its
batches end (strong fairness: `localQueue` is finite, and each turn pops). Nothing is
asked of the render thread or the controllers, and `StopServerReturns` says what it
needs: a controller that stops reading with `send()` full holds up the join, before
`TcpServer::stop()` could shut its socket down, and with it the unload.
`FrameScriptArgs`: the game's thread runs on.

## 4. Proofs

TLAPS proves, for every value of the constants:

* **CommandPipelineProofs.** The inductive invariant `Inv` is the type invariant
  plus what the program points say about the local queues (a command at hand in
  `process`, an event at hand in `push`, `localQueue` empty outside its loop).
  The types alone are not inductive: `PopCommand` and `SendRest` take the front
  of a queue. From `Inv`, `PipelineStep` shows that a step of the whole system,
  seen through the concatenated queues `Commands` and `Events`, is one of four:
  receive, execute, hand out, stutter. The theorems `Conserved`, `AccountedFor` and
  `Refinement` then look at four cases instead of 29 actions. `LostToDeparted`
  adds `ClientInv` (when `m_currentClient` is the open socket), `SeenInv`
  (what the outgoing thread may conclude from having seen it) and `LostInv`; it says
  nothing of the answers that an exception takes with it. `FramesWhole`
  adds `StreamInv`, which says that the last piece on a live connection is the
  end of a frame or the part of the current frame that `sendData` has counted.
  `StreamsGoOn` follows the pieces that `sendData` has counted (`CountedInv`: each was
  written to a connection or to a socket of the game) and says how
  `StreamsStartWithPrefix` fails: when a connection starts within a frame, every earlier
  piece of that frame went to an earlier connection or to a socket of the game.
  `MutualExclusion` is inductive as it stands: each mutex is held at the program points
  it protects and at no others. `NoDeadlock` follows: the threads that wait for a mutex
  can be ranked, in each of the four ways in which one can wait for another.
* **TcpServerProofs.** The invariant gives, for each point of the owner and of
  the server thread, what each handle names and who may still use it
  (`OwnerInv`, `ListenerInv`, `ConnectionInv`, `ClientInv`, `UnblockedInv`). Its
  heart is that a client accepted while `stop()` runs is either seen by
  `shutdown()` in `m_clientSocket` or not received from, because `m_running` is
  FALSE before. From it follow `StopUnblocks`, `RecvOnItsConnection`, `AllClosed`
  and `ForeignUntouched`. `StopEnds` is the measure under `StopReturns` and `ThreadEnds`:
  once `stop()` has cleared `m_running`, every step of the owner and of the server thread
  lowers `StepsLeft`, which is at most 15, whatever clients connect and send meanwhile.
  `ClosedUnderTimeout` is what remains true of "after thread has finished": otherwise
  `stop()` has timed out, with the thread in the data callback or behind it, never again
  in `accept()` or `recv()`.

* **AgentLifecycleProofs.** `Inv` is the types, the bounds of the polls, and four
  parts: `PlacesInv` (DllMain's thread exists only when the process ends, and only
  a `Cleanup()` that has begun destroys), `OrderlyInv` (after an orderly one the
  context is withdrawn and MainThread is never again at a point where it would
  publish it), `StartInv` (what has not been started at each point of
  `initialize()`), and `StopInv`, which carries `OutgoingJoined`: unless a
  `Cleanup()` overtakes the start, a joinable outgoing thread with `m_running`
  FALSE always has a thread in the join. The property alone is not inductive,
  because it speaks of the moment of destruction only. A second invariant on top of `Inv`,
  `AccessInv`, says who can still reach the context: `OwnedInv` (only a live context is
  in `g_appContext`, and no cleaner is in `shutdown()` of a dead one) and `ToldInv`. It
  gives `JoinEnds` (a join waits only for a thread that has been told to end, which is
  the safety half of `CleanupFinishes`) and `AccessFromBefore` (`AccessedFromBefore`), the ways, and no others, in which
  `ClearedContextUnused` fails in an orderly unload: MainThread's poll and its exception
  handler, and a frame the render thread had begun. `FramesBegunBefore`, an action
  property, is the part of the comment in `Cleanup()` that is true: no frame begins with
  the context afterwards.

* **NetworkManagerProofs** rests on `TcpServerProofs`: `UsesTcpServer` shows that a
  step of the composition is one of `TcpServer` or a stutter, so that its invariant
  holds here as well. On top of it `NMInv` says where the two machines can be with
  respect to each other: `NestingInv` (which points of the owner and of a callback go
  with which points of the TCP server), `OutgoingInv` (the outgoing thread's life),
  `CallbackInv` (which callbacks are set at each point of the owner), `QueuesInv` (the
  pointers are null only before and after), and `ClientServedInv`. `ServerInside` carries
  the theorems of `TcpServerProofs` over, `StopEnds` included, and `EverythingGivenBack`
  joins the two layers: after a failed `startServer()`, or a `stopServer()` that did not
  time out, both threads are over, no socket is open and Winsock is released.
  `WindowInv` (which callbacks are empty at each point of the owner, and where the server
  thread can be when the wait is given up) gives `EmptyBesideClear`: the only way in which
  `ClearedCallbackUnused` fails is that a thread found a callback full and `stopServer()`,
  which is still on its way, emptied it before the call.
* **HookInstallProofs**: an invariant over the owner's points that says what MinHook
  has at each of them (`EntryInv`), when EndScene is patched (`QuietInv`), and what the
  registry will find of it (`FoundInv`, from which `FailsFound`); the properties follow
  for any number of frames.
* **FramingProofs**, for every radix, payload and number of frames. `PrefixInverse`
  says that `extractFrame()` reads the length that `encodeMessage()` wrote. `DueInv`
  says that the receive buffer and the wire together (`Due`) are the frames that have
  been sent and not handed over, one behind the other, and at most an announced
  length behind them; where each ends is a function from their numbers (`Ends`), which
  takes the place of a recursive concatenation. Receiving moves bytes inside `Due`
  (`Moves`), sending lengthens it (`Grows`), extraction takes the first frame off and
  shifts the ends (`Shrinks`). `BufferFront` reads from it what the first four bytes of
  the buffer are, and `FramesAsSent`, `NothingHeldBack` and `ThrowsOnlyOnWrap` follow.
  `ChannelImplemented` is the refinement: `ExtractDelivers` shows that the frame taken out
  is the next payload, `ThrowKills` that an exception finds all payloads handed over, and
  `ChannelStep` goes through the other actions. Bytes are thrown away only before
  anything was handed over on any connection (`StartedInv`), which is why the channel
  can lose its framing at the beginning only.
* **FrameScriptArgsProofs**, for every size of memory, pages, chunks and bound. The
  cursors are addresses modulo `Space`, so the proofs rest on lemmas about sums that wrap.
  The invariant keeps the two cursors where the last argument read has left them (from
  which `AtTheirPlace`: each argument lies behind the one before it), and the
  string's copy at a whole number of chunks, all of them readable (from which
  `CutAtBound`). `HookEnds` is the measure under `EventForwarded`: a step meets one of
  the directives of the format, or lowers `Remaining`.

Assumptions are those of the modules: `INVALID_SOCKET` is no handle, there is at
least one piece to a frame and at least one poll in each wait, the shapes are
shapes, the bounds are numbers, a payload fits into a string, and the sizes in
`FrameScriptArgs` are not zero. Every invariant, action property
and refinement that the passing runs check is a theorem. Only model-checked are the
liveness properties, since fairness is out of TLAPS's reach: for `StopReturns`,
`ThreadEnds`, `CleanupFinishes` and `EventForwarded` the safety half is proved, the count
that each step lowers or the condition under which a wait can end, and what is left to TLC
is that the steps are taken. The properties of the runs that expect a violation are
false; each of the four has a theorem that says exactly when (`StreamsGoOn`,
`ClosedUnderTimeout`, `AccessFromBefore`, `EmptyBesideClear`).

## 5. What the code does not live up to

* **A frame can continue on another connection** (`StreamsStartWithPrefix`):
  `sendData` keeps the handle across partial sends while the server thread closes
  it and accepts the next client under the same value. A part of the frame can also go
  to a socket that the game has opened under that value (`strayed`).
* **`stop()` closes the client under the running thread** after its timeout
  (`ClientClosedAfterThread`).
* **`stopServer()` empties callbacks that are in use** (`ClearedCallbackUnused`).
  "Clear callbacks first to prevent use-after-free when TcpServer thread shuts down"
  assigns to `std::function`s that the server thread and the outgoing thread test and
  call without a lock; between test and call one becomes empty. The trace is that of a
  failed `accept()` and the error callback, the shortest; the connected, data and
  disconnected callbacks have the same window.
* **MainThread uses the context that Cleanup has cleared**
  (`ClearedContextUnused`). "Clear global reference first to prevent other threads
  from accessing" withdraws the pointer that the hook reads; MainThread polls
  `g_appContext` itself, every 100 ms and without a test, and DELETE resets it as
  soon as the two network threads have ended.

No runs of their own, but reached in the models:

* an answer is popped whether or not it was sent, so that a client that leaves takes
  the rest of the batch with it while the answers in the outbox stay for the next
  (`Drop` with cause "send"), and an exception in the loop takes the rest of the batch
  from a client that stays (`Discard`); the README's "reliable command/event communication"
  is no more than `EveryCommandAccountedFor` (every answer has one fate) and
  `LostOnlyToDepartedClient`;
* one failed `accept()` ends the server thread with `m_running` TRUE and the listener
  open (`AcceptFails`), against the README's "robust connection handling";
* `stop()` may shut down a socket of the game, because the server thread closes the
  client's socket before it resets `m_clientSocket` (`ShutdownClient`);
* after five seconds in which the render thread had the inbox mutex, the server
  thread meets null pointers or a destroyed object (`UseNullPointer`,
  `UseDestroyed`); `ResetOnlyUnderTimeout` says that it takes that;
* bytes that arrive before `m_running` is set are thrown away and take the framing of
  that connection with them (`dropped` in `Framing`);
* a length of 2^32 - 4 or more ends the server thread with an uncaught
  `std::length_error` (`AssignThrows`);
* the render thread can be inside the hook when the trampoline is freed or the code
  unmapped (`RunsUnmappedCode`, `Faults`);
* a readable string whose last chunk reaches into a page that cannot be read loses
  that chunk, and one of exactly 1024 characters gets the "..." of a longer one
  (`StringCutAtBound` states both);
* README line 29 lists FrameScript events among the hooks, and `InstallHooks()` does
  not install that hook.

## 6. Plan

Done, in this order: the command path and its bridge, the TCP server, the lifecycle,
the framing, the network manager, the hooks, the FrameScript hook; each with its run
and its proofs, and the channel that the framing implements. What is left:

1. `AgentLifecycle` composed with `HookInstall`, so that `UnmappedUnpatched` can be
   asked of all its threads. Each has the other as few steps today.
2. Safety halves of the remaining liveness properties (`CommandsExecuted`,
   `FrameCompletes`, `EventsDrain`, `StopServerReturns`): the count that each step of a
   thread lowers.

## 7. Not modelled

Direct3D (`findEndSceneAddress`'s calls), MinHook's own code, protobuf, spdlog and the
game's functions are external and appear as what they may return. Event ids are random
bits, a claim about probability. The polling interface of `MessageProcessor` and the
RAII wrappers have no callers. The logger's state is one pointer, which is reset last
in `Cleanup()`, after a sleep of a second and after the other threads have been
stopped; that sleep is all that keeps a log call of the render thread apart from it,
and a model of it could state no more. The queues have no limit in the code and none
in the models except the bounds on what is received. The build has no behaviour.
