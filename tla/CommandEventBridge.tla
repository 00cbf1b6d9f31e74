------------------------ MODULE CommandEventBridge ------------------------
(***************************************************************************)
(* What the agent promises to a controller, without threads, locks or      *)
(* sockets: the "simple command-event bridge" of the README.  Commands are *)
(* executed one at a time in the order they arrived, each of them once; a  *)
(* command is answered by at most one event, of a type that its own type   *)
(* calls for; events leave in the order the commands were executed.  An    *)
(* event that leaves may still be lost: the bridge promises an order, not  *)
(* delivery.                                                               *)
(***************************************************************************)
EXTENDS Integers, Sequences

CONSTANT Shapes         \* what a command may look like (see CommandPipeline)

VARIABLES
  executed,             \* number of commands executed so far
  commands,             \* commands received and not executed yet
  events                \* events created and not yet handed out or dropped

vars == <<executed, commands, events>>

\* The event types that answer a command of the given type.
AnswersTo(type) ==
  CASE type \in {"LUA_EXECUTE", "CLICK_TO_MOVE"} ->
         {"OPERATION_SUCCEEDED", "OPERATION_FAILED"}
    [] type = "LUA_READ_VARIABLE" -> {"LUA_VARIABLE_READ"}
    [] OTHER -> {}

Init ==
  /\ executed = 0
  /\ commands = <<>>
  /\ events = <<>>

\* Commands are numbered in the order of their arrival.
Receive ==
  /\ \E s \in Shapes :
       commands' = Append(commands, [op |-> executed + Len(commands) + 1, shape |-> s])
  /\ UNCHANGED <<executed, events>>

Execute ==
  /\ commands # <<>>
  /\ executed' = executed + 1
  /\ commands' = Tail(commands)
  /\ \/ UNCHANGED events
     \/ \E t \in AnswersTo(Head(commands).shape.type) :
          events' = Append(events, [op |-> Head(commands).op, type |-> t])

HandOut ==
  /\ events # <<>>
  /\ events' = Tail(events)
  /\ UNCHANGED <<executed, commands>>

Next == Receive \/ Execute \/ HandOut

Spec == Init /\ [][Next]_vars

============================================================================
