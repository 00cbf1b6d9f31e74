----------------------------- MODULE MCFraming -----------------------------
(***************************************************************************)
(* A small instance of Framing for TLC: words of four bits, so that a      *)
(* length can be written that wraps, and payloads of none, one and two     *)
(* bytes, one of which looks like the beginning of a prefix.               *)
(***************************************************************************)
EXTENDS Framing

SmallPayloads == {<<>>, <<1>>, <<0, 0>>}

============================================================================
