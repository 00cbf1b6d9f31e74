---------------------------- MODULE HookInstall ----------------------------
(***************************************************************************)
(* How EndScene is hooked and unhooked (hooks.cpp, HookRegistry.cpp,       *)
(* BaseHook.cpp, D3D9Hook.cpp) under a game that keeps drawing.  The owner *)
(* is whoever acts: MainThread in InstallHooks(), then the thread that     *)
(* calls MH_Uninitialize() in shutdown(), then the destructor of the       *)
(* static g_hookRegistry when the DLL goes.  AgentLifecycle has when each  *)
(* of them comes; here shutdown() may be skipped, as after a failed start. *)
(*                                                                         *)
(* The program registers one hook, so that the registry's loops are one    *)
(* call each.  MinHook is external: a call that fails changes nothing, and *)
(* a hook is removed only after EndScene's first bytes have been restored. *)
(*                                                                         *)
(* A definition introduced as "Mistake" is a mutation of the one after it. *)
(* No specification uses it; it shows what breaks a property (README).     *)
(***************************************************************************)
EXTENDS Integers

CONSTANT MaxFrames   \* bound: EndScene calls that enter the hook

ASSUME FramesAssumption == MaxFrames \in Nat

VARIABLES
  own,               \* where the owner is
  minhook,           \* MinHook is initialised
  entry,             \* MinHook's entry for EndScene; "enabled" patches EndScene
  trampoline,        \* the code that MinHook made to call the original EndScene
  original,          \* s_originalEndScene is not null
  target,            \* m_targetAddress is not null
  registered,        \* g_hookRegistry holds the hook
  installed,         \* the hook's m_installed
  loaded,            \* the DLL is mapped
  render,            \* where the render thread is
  frames,            \* EndScene calls that have entered the hook
  refused,           \* history: MinHook could not restore EndScene
  fault              \* what the render thread has run into

minhookVars == <<minhook, entry, trampoline>>
hookVars == <<original, target, registered, installed>>
renderVars == <<render, frames, fault>>
vars == <<own, minhookVars, hookVars, loaded, refused, renderVars>>

InstallPoints == {"initialize", "register", "install", "create", "enable", "undo", "mark"}
UninstallPoints == {"restore", "free", "destroy", "disable", "remove", "reset", "unmap"}

Patched == entry = "enabled"

TypeOK ==
  /\ own \in InstallPoints \cup UninstallPoints \cup {"up", "threw", "gone"}
  /\ minhook \in BOOLEAN
  /\ entry \in {"none", "created", "enabled"}
  /\ trampoline \in {"none", "alive", "freed"}
  /\ original \in BOOLEAN
  /\ target \in BOOLEAN
  /\ registered \in BOOLEAN
  /\ installed \in BOOLEAN
  /\ loaded \in BOOLEAN
  /\ render \in {"game", "hook", "original", "returning"}
  /\ frames \in 0 .. MaxFrames
  /\ refused \in BOOLEAN
  /\ fault \in {"none", "null original", "freed trampoline", "unmapped code"}

Init ==
  /\ own = "initialize"
  /\ minhook = FALSE /\ entry = "none" /\ trampoline = "none"
  /\ original = FALSE /\ target = FALSE /\ registered = FALSE /\ installed = FALSE
  /\ loaded = TRUE /\ render = "game" /\ frames = 0 /\ refused = FALSE /\ fault = "none"

Goto(p, q) == own = p /\ own' = q

-----------------------------------------------------------------------------
(***************************************************************************)
(* InstallHooks().  Whatever fails, it throws and undoes nothing else.  So *)
(* does what it logs after a step that has been done.                      *)
(***************************************************************************)
MHInitialize ==
  /\ \/ Goto("initialize", "register") /\ minhook' = TRUE
     \/ Goto("initialize", "threw") /\ minhook' \in BOOLEAN
  /\ UNCHANGED <<entry, trampoline, hookVars, loaded, refused, renderVars>>

\* make_unique<HookRegistry>() and registerHook(), or an exception in them.
RegisterHook ==
  /\ \/ Goto("register", "install") /\ registered' = TRUE
     \/ Goto("register", "threw") /\ registered' \in BOOLEAN
  /\ UNCHANGED <<minhookVars, original, target, installed, loaded, refused, renderVars>>

\* BaseHook::install() of a hook that is not installed; findEndSceneAddress(), which
\* fails as well when it cannot log the address that it has found.
FindEndSceneAddress ==
  /\ ~ installed
  /\ \/ Goto("install", "create") /\ target' = TRUE
     \/ Goto("install", "threw") /\ target' \in BOOLEAN
  /\ UNCHANGED <<minhookVars, original, registered, installed, loaded, refused, renderVars>>

\* Mistake: the hook is created without s_originalEndScene.
CreateHookNoOriginal ==
  /\ \/ Goto("create", "enable") /\ entry' = "created" /\ trampoline' = "alive"
     \/ Goto("create", "threw") /\ UNCHANGED <<entry, trampoline>>
  /\ UNCHANGED <<minhook, hookVars, loaded, refused, renderVars>>

CreateHook ==
  /\ \/ /\ Goto("create", "enable")
        /\ entry' = "created" /\ trampoline' = "alive" /\ original' = TRUE
     \/ Goto("create", "threw") /\ UNCHANGED <<entry, trampoline, original>>
  /\ UNCHANGED <<minhook, target, registered, installed, loaded, refused, renderVars>>

\* Mistake: the status of MH_EnableHook() is not looked at.
EnableHookUnchecked ==
  /\ Goto("enable", "mark")
  /\ entry' \in {"created", "enabled"}
  /\ UNCHANGED <<minhook, trampoline, hookVars, loaded, refused, renderVars>>

EnableHook ==
  /\ \/ Goto("enable", "mark") /\ entry' = "enabled"
     \/ Goto("enable", "undo") /\ UNCHANGED entry
  /\ UNCHANGED <<minhook, trampoline, hookVars, loaded, refused, renderVars>>

\* MH_RemoveHook() of a hook that is not enabled, after which s_originalEndScene
\* dangles.  It may fail, and nobody looks at its result.
RemoveDisabled ==
  /\ Goto("undo", "threw")
  /\ \/ entry' = "none" /\ trampoline' = "freed"
     \/ UNCHANGED <<entry, trampoline>>
  /\ UNCHANGED <<minhook, hookVars, loaded, refused, renderVars>>

\* Mistake: install() forgets what it has installed.
MarkInstalledForgotten ==
  /\ Goto("mark", "up") \/ Goto("mark", "threw")
  /\ UNCHANGED <<minhookVars, hookVars, loaded, refused, renderVars>>

\* m_installed = true.  The logging behind it in install(), installAllHooks() and
\* InstallHooks() may throw, with EndScene patched.
MarkInstalled ==
  /\ Goto("mark", "up") \/ Goto("mark", "threw")
  /\ installed' = TRUE
  /\ UNCHANGED <<minhookVars, original, target, registered, loaded, refused, renderVars>>

-----------------------------------------------------------------------------
(***************************************************************************)
(* MH_Uninitialize() in ApplicationContext::shutdown(), whose result is    *)
(* not looked at, and the end of the DLL.                                  *)
(***************************************************************************)
\* shutdown() of a context that is still initialised; or the DLL goes without it.
TakeDown ==
  /\ \/ Goto("up", "restore")
     \/ Goto("up", "destroy")
     \/ Goto("threw", "destroy")
  /\ UNCHANGED <<minhookVars, hookVars, loaded, refused, renderVars>>

RestoreAll ==
  /\ \/ Goto("restore", "free") /\ entry' = "none" /\ UNCHANGED refused
     \/ Goto("restore", "destroy") /\ refused' = TRUE /\ UNCHANGED entry
  /\ UNCHANGED <<minhook, trampoline, hookVars, loaded, renderVars>>

FreeBuffers ==
  /\ Goto("free", "destroy")
  /\ trampoline' = "freed" /\ minhook' = FALSE
  /\ UNCHANGED <<entry, hookVars, loaded, refused, renderVars>>

\* ~HookRegistry(): uninstallAllHooks(), BaseHook::uninstall(), uninstallMinHook().
UninstallAllHooks ==
  /\ \/ registered /\ installed /\ target /\ Goto("destroy", "disable")
     \/ ~ (registered /\ installed /\ target) /\ Goto("destroy", "unmap")
  /\ UNCHANGED <<minhookVars, hookVars, loaded, refused, renderVars>>

\* MH_DisableHook(): not initialised, or EndScene cannot be written, or done.
DisableHook ==
  /\ Goto("disable", "remove")
  /\ entry' \in {entry} \cup (IF minhook THEN {"created"} ELSE {})
  /\ UNCHANGED <<minhook, trampoline, hookVars, loaded, refused, renderVars>>

\* Mistake: s_originalEndScene is reset whether or not the hook could be removed.
RemoveHookResets ==
  /\ \/ /\ minhook
        /\ Goto("remove", "reset")
        /\ entry' = "none" /\ trampoline' = "freed" /\ UNCHANGED <<refused, original>>
     \/ /\ Goto("remove", "unmap")
        /\ original' = FALSE
        /\ refused' = (refused \/ Patched) /\ UNCHANGED <<entry, trampoline>>
  /\ UNCHANGED <<minhook, target, registered, installed, loaded, renderVars>>

\* MH_RemoveHook() tries once more to restore EndScene if it is still patched; when it
\* fails, the hook stays as it is.
RemoveHook ==
  /\ \/ /\ minhook
        /\ Goto("remove", "reset")
        /\ entry' = "none" /\ trampoline' = "freed" /\ UNCHANGED refused
     \/ /\ Goto("remove", "unmap")
        /\ refused' = (refused \/ Patched) /\ UNCHANGED <<entry, trampoline>>
  /\ UNCHANGED <<minhook, hookVars, loaded, renderVars>>

ResetHook ==
  /\ Goto("reset", "unmap")
  /\ original' = FALSE /\ target' = FALSE /\ installed' = FALSE
  /\ UNCHANGED <<minhookVars, registered, loaded, refused, renderVars>>

Unmap ==
  /\ Goto("unmap", "gone")
  /\ loaded' = FALSE
  /\ UNCHANGED <<minhookVars, hookVars, refused, renderVars>>

-----------------------------------------------------------------------------
(***************************************************************************)
(* The render thread.                                                      *)
(***************************************************************************)
RenderGoto(p, q) ==
  /\ render = p /\ fault = "none"
  /\ render' = q
  /\ UNCHANGED <<own, minhookVars, hookVars, loaded, refused, fault>>

CallsEndScene ==
  /\ loaded /\ Patched /\ frames < MaxFrames
  /\ frames' = frames + 1
  /\ RenderGoto("game", "hook")

\* HookedEndScene() has done with the context and calls s_originalEndScene.
CallsOriginal ==
  /\ loaded /\ original /\ trampoline = "alive"
  /\ RenderGoto("hook", "original")
  /\ UNCHANGED frames

OriginalReturns == RenderGoto("original", "returning") /\ UNCHANGED frames

LeavesHook == loaded /\ RenderGoto("returning", "game") /\ UNCHANGED frames

Faults ==
  /\ fault = "none"
  /\ \/ ~ loaded /\ render \in {"hook", "returning"} /\ fault' = "unmapped code"
     \/ ~ loaded /\ render = "game" /\ Patched /\ fault' = "unmapped code"
     \/ loaded /\ render = "hook" /\ ~ original /\ fault' = "null original"
     \/ /\ loaded /\ render = "hook" /\ original /\ trampoline = "freed"
        /\ fault' = "freed trampoline"
  /\ UNCHANGED <<own, minhookVars, hookVars, loaded, refused, render, frames>>

-----------------------------------------------------------------------------
InstallHooks ==
  \/ MHInitialize \/ RegisterHook \/ FindEndSceneAddress \/ CreateHook \/ EnableHook
  \/ RemoveDisabled \/ MarkInstalled

TakeDownHooks ==
  \/ TakeDown \/ RestoreAll \/ FreeBuffers \/ UninstallAllHooks \/ DisableHook \/ RemoveHook
  \/ ResetHook \/ Unmap

HookedEndScene ==
  CallsEndScene \/ CallsOriginal \/ OriginalReturns \/ LeavesHook \/ Faults

Next == InstallHooks \/ TakeDownHooks \/ HookedEndScene

Spec == Init /\ [][Next]_vars

-----------------------------------------------------------------------------
\* As long as EndScene leads into the agent, the agent can reach the original EndScene:
\* during InstallHooks() while the game draws already, and after each way in which the
\* hook could not be taken away.
PatchedReachesOriginal == Patched => original /\ trampoline = "alive"

\* Wherever InstallHooks() throws, what ~HookRegistry() will take away is what patches
\* EndScene: it finds a hook that was installed before the exception, and takes no hook
\* for installed that MinHook did not enable, whatever entry of it MinHook has kept.
FailedInstallFound ==
  own = "threw" => (Patched <=> installed) /\ (installed => registered /\ target)

\* The DLL is not unmapped with EndScene leading into it, with shutdown() or without,
\* unless MinHook could not restore EndScene.
UnmappedUnpatched == ~ loaded /\ Patched => refused

\* The render thread runs into a reset pointer, a freed trampoline or unmapped code only
\* while the hook is being taken away or after: it may draw at every step of the
\* installation, of one that fails half way too.
FaultsOnlyInTakeDown == fault # "none" => own \in UninstallPoints \cup {"gone"}

============================================================================
