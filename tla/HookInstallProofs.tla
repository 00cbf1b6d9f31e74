------------------------- MODULE HookInstallProofs -------------------------
(***************************************************************************)
(* Proofs about HookInstall, for any number of frames.  The invariant says *)
(* at which points of the owner MinHook has what kind of entry, and that   *)
(* the registry can still find a hook that patches EndScene.               *)
(***************************************************************************)
EXTENDS HookInstall, TLAPS

\* Nothing is hooked and no frame is in the agent before MH_EnableHook(), and the hook
\* counts as installed from the moment at which it is.
QuietInv ==
  /\ own \in {"initialize", "register", "install", "create", "enable", "undo"} =>
       ~ Patched /\ ~ installed /\ render = "game"
  /\ own = "threw" => IF Patched THEN installed ELSE ~ installed /\ render = "game"

\* What MinHook's entry is at the other points.
EntryInv ==
  /\ own \in {"initialize", "register", "install", "create"} => entry = "none"
  /\ own \in {"register", "install", "create"} => minhook
  /\ own \in {"enable", "undo"} => entry = "created"
  /\ own \in {"mark", "up", "restore"} => Patched
  /\ own \in {"free", "reset"} => entry = "none"
  /\ own \in {"destroy", "disable"} /\ minhook /\ installed => Patched
  /\ own = "disable" => installed
  /\ entry # "none" => minhook /\ original /\ trampoline = "alive"

\* uninstallAllHooks() reaches an EndScene that is still patched.
FoundInv ==
  /\ own \in {"create", "enable", "undo", "mark"} => registered /\ target
  /\ own = "install" => registered
  /\ Patched => registered /\ target /\ (installed \/ own = "mark")

LoadedInv ==
  /\ loaded <=> own # "gone"
  /\ own \in {"unmap", "gone"} /\ Patched => refused
  /\ fault # "none" => own \in UninstallPoints \cup {"gone"}

Inv == TypeOK /\ QuietInv /\ EntryInv /\ FoundInv /\ LoadedInv

-----------------------------------------------------------------------------
\* The flags that a step leaves behind are flags.
Flags ==
  /\ minhook \in BOOLEAN /\ original \in BOOLEAN /\ target \in BOOLEAN
  /\ registered \in BOOLEAN /\ installed \in BOOLEAN /\ loaded \in BOOLEAN
  /\ refused \in BOOLEAN

LEMMA FlagsStep == ASSUME Flags, [Next]_vars PROVE Flags'
<1> USE DEF Flags, minhookVars, hookVars, renderVars
<1>1. CASE InstallHooks
  BY <1>1, Zenon DEF InstallHooks, MHInitialize, RegisterHook, FindEndSceneAddress, CreateHook,
     EnableHook, RemoveDisabled, MarkInstalled
<1>2. CASE TakeDownHooks
  BY <1>2, Zenon DEF TakeDownHooks, TakeDown, RestoreAll, FreeBuffers, UninstallAllHooks,
     DisableHook, RemoveHook, ResetHook, Unmap, Patched
<1>3. CASE HookedEndScene
  BY <1>3, Zenon DEF HookedEndScene, CallsEndScene, CallsOriginal, OriginalReturns, LeavesHook,
     Faults, RenderGoto
<1>4. CASE UNCHANGED vars
  BY <1>4, Zenon DEF vars
<1> QED
  BY <1>1, <1>2, <1>3, <1>4 DEF Next

\* The invariant holds initially and is kept by every step of the three actors.
LEMMA InitInv == Init => Inv
<1> SUFFICES ASSUME Init PROVE Inv
  OBVIOUS
<1> USE DEF Init, Patched, InstallPoints, UninstallPoints
<1>1. Flags
  BY Zenon DEF Flags
<1>2. TypeOK
  BY <1>1, FramesAssumption DEF Flags, TypeOK
<1>3. QuietInv /\ EntryInv /\ FoundInv /\ LoadedInv
  BY DEF QuietInv, EntryInv, FoundInv, LoadedInv
<1> QED
  BY <1>2, <1>3 DEF Inv

\* A frame goes on, and begins only in a patched EndScene.
LEMMA FrameStep ==
  ASSUME Inv, CallsEndScene \/ CallsOriginal \/ OriginalReturns \/ LeavesHook
  PROVE  Inv'
<1>1. frames \in 0 .. MaxFrames /\ frames \in Int /\ MaxFrames \in Int
  <2>1. frames \in 0 .. MaxFrames
    BY Zenon DEF Inv, TypeOK
  <2> QED
    BY <2>1, FramesAssumption
<1>2. /\ UNCHANGED <<own, minhook, entry, trampoline, original, target, registered,
                      installed, loaded, refused, fault>>
      /\ frames' \in 0 .. MaxFrames
      /\ render' \in {"game", "hook", "original", "returning"}
      /\ Patched \/ render # "game"
  <2>1. CASE CallsEndScene
    BY <1>1, <2>1 DEF CallsEndScene, RenderGoto, minhookVars, hookVars
  <2>2. CASE CallsOriginal \/ OriginalReturns \/ LeavesHook
    BY <1>1, <2>2
    DEF CallsOriginal, OriginalReturns, LeavesHook, RenderGoto, minhookVars, hookVars
  <2> QED
    BY <2>1, <2>2
<1>3. TypeOK'
  <2>1. Flags
    BY Zenon DEF Inv, TypeOK, Flags
  <2>2. /\ own \in InstallPoints \cup UninstallPoints \cup {"up", "threw", "gone"}
        /\ entry \in {"none", "created", "enabled"} /\ trampoline \in {"none", "alive", "freed"}
        /\ fault \in {"none", "null original", "freed trampoline", "unmapped code"}
    BY Zenon DEF Inv, TypeOK
  <2>3. Flags'
    BY ONLY <1>2, <2>1, Zenon DEF Flags
  <2>4. /\ own' \in InstallPoints \cup UninstallPoints \cup {"up", "threw", "gone"}
        /\ entry' \in {"none", "created", "enabled"}
        /\ trampoline' \in {"none", "alive", "freed"}
        /\ fault' \in {"none", "null original", "freed trampoline", "unmapped code"}
    BY ONLY <1>2, <2>2, Zenon
  <2> QED
    BY ONLY <1>2, <2>3, <2>4, Zenon DEF TypeOK, Flags
<1>4. QuietInv'
  BY <1>2 DEF Inv, QuietInv, Patched
<1>5. EntryInv'
  BY <1>2 DEF Inv, EntryInv, Patched
<1>6. FoundInv' /\ LoadedInv'
  BY <1>2 DEF Inv, FoundInv, LoadedInv, Patched, UninstallPoints
<1> QED
  BY <1>3, <1>4, <1>5, <1>6 DEF Inv

LEMMA StepInv == Inv /\ [Next]_vars => Inv'
<1> SUFFICES ASSUME Inv, [Next]_vars PROVE Inv'
  OBVIOUS
<1>0. Flags'
  BY FlagsStep DEF Inv, TypeOK, Flags
<1> USE <1>0, FramesAssumption
        DEF Flags, Inv, TypeOK, QuietInv, EntryInv, FoundInv, LoadedInv, Patched, InstallPoints,
            UninstallPoints, minhookVars, hookVars, renderVars, Goto
<1>1. CASE InstallHooks
  <2>1. CASE MHInitialize \/ RegisterHook \/ FindEndSceneAddress
    BY <2>1 DEF MHInitialize, RegisterHook, FindEndSceneAddress
  <2>2. CASE CreateHook
    <3>1. CASE entry' = "created"
      BY <2>2, <3>1 DEF CreateHook
    <3>2. CASE entry' # "created"
      BY <2>2, <3>2 DEF CreateHook
    <3> QED
      BY <3>1, <3>2
  <2>3. CASE EnableHook
    BY <2>3 DEF EnableHook
  <2>4. CASE RemoveDisabled \/ MarkInstalled
    BY <2>4 DEF RemoveDisabled, MarkInstalled
  <2> QED
    BY <1>1, <2>1, <2>2, <2>3, <2>4 DEF InstallHooks
<1>2. CASE TakeDownHooks
  <2>1. CASE TakeDown
    BY <2>1 DEF TakeDown
  <2>2. CASE RestoreAll \/ FreeBuffers
    BY <2>2 DEF RestoreAll, FreeBuffers
  <2>3. CASE UninstallAllHooks
    BY <2>3 DEF UninstallAllHooks
  <2>4. CASE DisableHook
    <3>1. CASE minhook
      BY <2>4, <3>1 DEF DisableHook
    <3>2. CASE ~ minhook
      BY <2>4, <3>2 DEF DisableHook
    <3> QED
      BY <3>1, <3>2
  <2>5. CASE RemoveHook
    <3>1. CASE own' = "reset"
      BY <2>5, <3>1 DEF RemoveHook
    <3>2. CASE own' = "unmap"
      BY <2>5, <3>2 DEF RemoveHook
    <3> QED
      BY <2>5, <3>1, <3>2 DEF RemoveHook
  <2>6. CASE ResetHook
    BY <2>6 DEF ResetHook
  <2>7. CASE Unmap
    <3>1. /\ own = "unmap" /\ own' = "gone" /\ loaded' = FALSE
          /\ UNCHANGED <<minhook, entry, trampoline, original, target, registered, installed,
                         refused, render, frames, fault>>
      BY ONLY <2>7 DEF Unmap, Goto, minhookVars, hookVars, renderVars
    <3>2. TypeOK' /\ QuietInv'
      BY <3>1
    <3>3. EntryInv' /\ FoundInv' /\ LoadedInv'
      BY <3>1
    <3> QED
      BY ONLY <3>2, <3>3 DEF Inv
  <2> QED
    BY <1>2, <2>1, <2>2, <2>3, <2>4, <2>5, <2>6, <2>7 DEF TakeDownHooks
<1>3. CASE HookedEndScene
  <2>1. CASE CallsEndScene \/ CallsOriginal \/ OriginalReturns \/ LeavesHook
    BY ONLY Inv, <2>1, FrameStep
  <2>2. CASE Faults
    <3>1. own \in UninstallPoints \cup {"gone"}
      <4>1. CASE ~ loaded
        BY <4>1
      <4>2. CASE loaded /\ render = "hook" /\ (~ original \/ trampoline = "freed")
        BY <4>2
      <4> QED
        BY <2>2, <4>1, <4>2, Zenon DEF Faults
    <3>2. /\ fault' \in {"null original", "freed trampoline", "unmapped code"}
          /\ UNCHANGED <<own, minhookVars, hookVars, loaded, refused, render, frames>>
      BY <2>2, Zenon DEF Faults
    <3>3. QuietInv' /\ EntryInv'
      BY <3>2
    <3>4. FoundInv' /\ LoadedInv'
      BY <3>1, <3>2
    <3>5. TypeOK'
      BY <3>2
    <3> QED
      BY <3>3, <3>4, <3>5
  <2> QED
    BY <1>3, <2>1, <2>2 DEF HookedEndScene
<1>4. CASE UNCHANGED vars
  <2>1. QuietInv' /\ EntryInv'
    BY <1>4 DEF vars
  <2>2. FoundInv' /\ LoadedInv'
    BY <1>4 DEF vars
  <2>3. TypeOK'
    BY <1>4 DEF vars
  <2> QED
    BY <2>1, <2>2, <2>3
<1> QED
  BY <1>1, <1>2, <1>3, <1>4 DEF Next

LEMMA Invariance == Spec => []Inv
BY InitInv, StepInv, PTL DEF Spec

-----------------------------------------------------------------------------
\* Every variable keeps its type through installation, shutdown and unload.
THEOREM TypeCorrect == Spec => []TypeOK
<1>1. Inv => TypeOK
  BY DEF Inv
<1> QED
  BY <1>1, Invariance, PTL

\* A patched EndScene can always be left through s_originalEndScene: MH_CreateHook() writes
\* it before MH_EnableHook() patches, and uninstallMinHook() resets it after the removal.
THEOREM ReachesOriginal == Spec => []PatchedReachesOriginal
<1>1. Inv => PatchedReachesOriginal
  BY DEF Inv, EntryInv, PatchedReachesOriginal, Patched
<1> QED
  BY <1>1, Invariance, PTL

\* InstallHooks() that throws, at whichever call or exception, leaves EndScene alone or
\* with a hook that the registry finds when it is destroyed.
THEOREM FailsFound == Spec => []FailedInstallFound
<1>1. Inv => FailedInstallFound
  BY DEF Inv, QuietInv, FoundInv, FailedInstallFound
<1> QED
  BY <1>1, Invariance, PTL

\* EndScene is restored before the DLL goes, by shutdown() or by the registry.
THEOREM UnpatchedBeforeUnmap == Spec => []UnmappedUnpatched
<1>1. Inv => UnmappedUnpatched
  BY DEF Inv, LoadedInv, UnmappedUnpatched, Patched
<1> QED
  BY <1>1, Invariance, PTL

\* No frame runs into a missing original during the installation.
THEOREM InstallSafe == Spec => []FaultsOnlyInTakeDown
<1>1. Inv => FaultsOnlyInTakeDown
  BY DEF Inv, LoadedInv, FaultsOnlyInTakeDown
<1> QED
  BY <1>1, Invariance, PTL

============================================================================
