--------------------------- MODULE MCHookInstall ---------------------------
(***************************************************************************)
(* A small instance of HookInstall for TLC.                                *)
(***************************************************************************)
EXTENDS HookInstall

============================================================================
