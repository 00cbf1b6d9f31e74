------------------------- MODULE MCFrameScriptArgs -------------------------
(***************************************************************************)
(* A small instance of FrameScriptArgs for TLC: four pages of eight bytes, *)
(* two chunks of four to a string, strings that begin anywhere in a page   *)
(* and end around both chunks' ends, and stacks at both ends of memory.    *)
(***************************************************************************)
EXTENDS FrameScriptArgs

MCArgsBases == {0, 4, 16, 28}
MCPointers == {0, 1, 6, 8, 12, 31}
MCLengths == {0, 3, 4, 7, 8, 9}

============================================================================
