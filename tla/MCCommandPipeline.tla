------------------------- MODULE MCCommandPipeline -------------------------
(***************************************************************************)
(* Small instances of CommandPipeline for TLC.                             *)
(***************************************************************************)
EXTENDS CommandPipeline

Shape(type, payload, text, base, position) ==
  [type |-> type, payload |-> payload, text |-> text, base |-> base,
   position |-> position]

\* One command of each kind: with an answer that may go either way, with an
\* answer that may fail to serialize, and with none.
MCShapes == {Shape("LUA_EXECUTE", TRUE, TRUE, FALSE, FALSE),
             Shape("LUA_READ_VARIABLE", TRUE, TRUE, FALSE, FALSE),
             Shape("CLICK_TO_MOVE", TRUE, FALSE, TRUE, FALSE)}

MCUnserializable == {"LUA_VARIABLE_READ"}

============================================================================
