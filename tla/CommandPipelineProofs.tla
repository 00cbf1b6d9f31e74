----------------------- MODULE CommandPipelineProofs -----------------------
(***************************************************************************)
(* Theorems about CommandPipeline for all values of its constants: any     *)
(* number of commands, sessions, handles and pieces.                       *)
(*                                                                         *)
(* The argument has three layers.  Inv adds to the types which thread has  *)
(* a command or an event at hand at which program point, and is inductive. *)
(* PipelineStep then shows that every step of the three threads is, seen   *)
(* through Commands and Events, one of Receives, Executes, HandsOut or no  *)
(* step at all.  The invariants about commands and events, and the         *)
(* refinement, only look at those four cases.                              *)
(***************************************************************************)
EXTENDS CommandPipeline, SequenceTheorems, TLAPS

\* The server thread has a command at hand while onMessageReceived() pushes it.
ServerInv ==
  /\ ServerTypes
  /\ Len(arriving) = IF srv \in {"lockInbox", "push"} THEN 1 ELSE 0

\* The render thread has a command at hand while processCommand() runs, and
\* an event while enqueueEvent() does.
RenderInv ==
  /\ RenderTypes
  /\ Len(executing) = IF rnd = "process" THEN 1 ELSE 0
  /\ Len(answer) = IF rnd \in {"lockOutbox", "push"} THEN 1 ELSE 0

\* localQueue is empty outside its loop, and sendData() sends its front.
OutgoingInv ==
  /\ OutgoingTypes
  /\ out \in {"check", "lockOutbox", "swap"} => batch = <<>>
  /\ out = "send" => batch # <<>>

Inv ==
  /\ NetTypes /\ ServerInv /\ InboxTypes
  /\ RenderInv /\ OutboxTypes /\ OutgoingInv

-----------------------------------------------------------------------------
(***************************************************************************)
(* Type correctness.                                                       *)
(***************************************************************************)

\* The state that startServer() leaves behind.
LEMMA InitInv == Init => Inv
<1> SUFFICES ASSUME Init PROVE Inv
  OBVIOUS
<1> USE DEF Init
<1>1. NetTypes
  BY BoundsAssumption DEF NetTypes
<1>2. ServerInv /\ InboxTypes
  BY DEF ServerInv, ServerTypes, InboxTypes
<1>3. RenderInv /\ OutboxTypes
  BY DEF RenderInv, RenderTypes, OutboxTypes
<1>4. OutgoingInv
  BY BoundsAssumption, PiecesAssumption DEF OutgoingInv, OutgoingTypes
<1> QED
  BY <1>1, <1>2, <1>3, <1>4 DEF Inv

\* What a step leaves alone keeps its invariant.
LEMMA Unchanged ==
  ASSUME Inv
  PROVE  /\ UNCHANGED netVars => NetTypes'
         /\ UNCHANGED serverVars => ServerInv'
         /\ UNCHANGED inboxVars => InboxTypes'
         /\ UNCHANGED renderVars => RenderInv'
         /\ UNCHANGED outboxVars => OutboxTypes'
         /\ UNCHANGED outgoingVars => OutgoingInv'
<1> USE DEF Inv
<1>1. UNCHANGED netVars => NetTypes'
  BY DEF netVars, NetTypes
<1>2. UNCHANGED serverVars => ServerInv'
  BY DEF serverVars, ServerInv, ServerTypes
<1>3. UNCHANGED inboxVars => InboxTypes'
  BY DEF inboxVars, InboxTypes
<1>4. UNCHANGED renderVars => RenderInv'
  BY DEF renderVars, RenderInv, RenderTypes
<1>5. UNCHANGED outboxVars => OutboxTypes'
  BY DEF outboxVars, OutboxTypes
<1>6. UNCHANGED outgoingVars => OutgoingInv'
  BY DEF outgoingVars, OutgoingInv, OutgoingTypes
<1> QED
  BY <1>1, <1>2, <1>3, <1>4, <1>5, <1>6

\* The controllers and the server thread.
LEMMA ServerStep ==
  ASSUME Inv, PeerCloses \/ ConnectionBreaks \/ Server
  PROVE  Inv'
<1> USE DEF Inv
<1>1. CASE PeerCloses
  <2>1. NetTypes'
    BY <1>1 DEF PeerCloses, NetTypes
  <2> QED
    BY <1>1, <2>1, Unchanged DEF PeerCloses
<1>2. CASE ConnectionBreaks
  <2>1. NetTypes'
    BY <1>2 DEF ConnectionBreaks, NetTypes
  <2> QED
    BY <1>2, <2>1, Unchanged DEF ConnectionBreaks
<1>3. CASE Accept
  <2>1. NetTypes'
    BY <1>3, BoundsAssumption DEF Accept, NetTypes
  <2>2. ServerInv'
    BY <1>3 DEF Accept, ServerInv, ServerTypes
  <2> QED
    BY <1>3, <2>1, <2>2, Unchanged DEF Accept
<1>4. CASE OnClientConnected
  <2>1. NetTypes'
    BY <1>4 DEF OnClientConnected, NetTypes
  <2>2. ServerInv'
    BY <1>4 DEF OnClientConnected, ServerInv, ServerTypes
  <2> QED
    BY <1>4, <2>1, <2>2, Unchanged DEF OnClientConnected
<1>5. CASE ReceiveCommand
  <2>1. PICK s \in Shapes : arriving' = <<[op |-> nReceived + 1, shape |-> s]>>
    BY <1>5 DEF ReceiveCommand
  <2>2. ServerInv'
    BY <1>5, <2>1 DEF ReceiveCommand, ServerInv, ServerTypes, Command
  <2> QED
    BY <1>5, <2>2, Unchanged DEF ReceiveCommand
<1>6. CASE LockInboxServer
  <2>1. ServerInv' /\ InboxTypes'
    BY <1>6 DEF LockInboxServer, ServerInv, ServerTypes, InboxTypes
  <2> QED
    BY <1>6, <2>1, Unchanged DEF LockInboxServer
<1>7. CASE PushCommand
  <2>1. ServerInv'
    BY <1>7 DEF PushCommand, ServerInv, ServerTypes
  <2>2. InboxTypes'
    BY <1>7, ConcatProperties DEF PushCommand, ServerInv, ServerTypes, InboxTypes
  <2> QED
    BY <1>7, <2>1, <2>2, Unchanged DEF PushCommand
<1>8. CASE OnClientDisconnected
  <2>1. NetTypes'
    BY <1>8 DEF OnClientDisconnected, NetTypes
  <2>2. ServerInv'
    BY <1>8 DEF OnClientDisconnected, ServerInv, ServerTypes
  <2> QED
    BY <1>8, <2>1, <2>2, Unchanged DEF OnClientDisconnected
<1>9. CASE CloseSocket
  <2>1. NetTypes'
    BY <1>9 DEF CloseSocket, NetTypes
  <2>2. ServerInv'
    BY <1>9 DEF CloseSocket, ServerInv, ServerTypes
  <2> QED
    BY <1>9, <2>1, <2>2, Unchanged DEF CloseSocket
<1> QED
  BY <1>1, <1>2, <1>3, <1>4, <1>5, <1>6, <1>7, <1>8, <1>9 DEF Server

\* What ProcessCommand() makes of a command is an event type or NoEvent, and
\* an answer is of a type that the bridge allows for the command.
LEMMA ProcessCommandAnswers ==
  ASSUME NEW s \in Shapes, NEW t \in ProcessCommand(s), t # NoEvent
  PROVE  t \in EventTypes /\ t \in Bridge!AnswersTo(s.type)
<1>1. s \in CommandShape
  BY ShapesAssumption
<1>2. CASE s.type = "LUA_EXECUTE"
  BY <1>1, <1>2 DEF ProcessCommand, HandleLuaExecute, ExecuteLuaCode, Reply, NoEvent,
     EventTypes, Bridge!AnswersTo
<1>3. CASE s.type = "LUA_READ_VARIABLE"
  BY <1>1, <1>3 DEF ProcessCommand, HandleLuaReadVariable, NoEvent, EventTypes,
     Bridge!AnswersTo
<1>4. CASE s.type = "CLICK_TO_MOVE"
  BY <1>1, <1>4 DEF ProcessCommand, HandleClickToMove, ExecuteClickToMove, Reply,
     NoEvent, EventTypes, Bridge!AnswersTo
<1>5. CASE s.type = "UNSPECIFIED"
  BY <1>1, <1>5 DEF ProcessCommand, NoEvent
<1> QED
  BY <1>1, <1>2, <1>3, <1>4, <1>5 DEF CommandShape, CommandTypes

\* The command that processCommand() gets is one that was received.
LEMMA ExecutingTyped ==
  ASSUME Inv, rnd = "process"
  PROVE  /\ executing[1] \in Command
         /\ executing = <<executing[1]>>
BY DEF Inv, RenderInv, RenderTypes

\* The render thread.
LEMMA RenderStep ==
  ASSUME Inv, Render
  PROVE  Inv'
<1> USE DEF Inv
<1>1. CASE EnterEndScene
  <2>1. RenderInv'
    BY <1>1 DEF EnterEndScene, RenderInv, RenderTypes
  <2> QED
    BY <1>1, <2>1, Unchanged DEF EnterEndScene
<1>10. CASE LockInboxRender
  <2>1. RenderInv' /\ InboxTypes'
    BY <1>10 DEF LockInboxRender, RenderInv, RenderTypes, InboxTypes
  <2> QED
    BY <1>10, <2>1, Unchanged DEF LockInboxRender
<1>2. CASE NoCommand
  <2>1. RenderInv'
    BY <1>2 DEF NoCommand, RenderInv, RenderTypes
  <2> QED
    BY <1>2, <2>1, Unchanged DEF NoCommand
<1>3. CASE PopCommand
  <2>1. Head(inbox) \in Command /\ Tail(inbox) \in Seq(Command)
    BY <1>3, HeadTailProperties DEF PopCommand, InboxTypes
  <2>2. RenderInv' /\ InboxTypes'
    BY <1>3, <2>1 DEF PopCommand, RenderInv, RenderTypes, InboxTypes
  <2> QED
    BY <1>3, <2>2, Unchanged DEF PopCommand
<1>4. CASE AnswerCommand
  <2>1. executing[1] \in Command
    BY <1>4, ExecutingTyped DEF AnswerCommand
  <2>2. PICK t \in ProcessCommand(executing[1].shape) \ {NoEvent} :
               answer' = <<[op |-> executing[1].op, type |-> t]>>
    BY <1>4 DEF AnswerCommand
  <2>3. t \in EventTypes
    BY <2>1, ProcessCommandAnswers DEF Command
  <2>4. [op |-> executing[1].op, type |-> t] \in Event
    BY <2>1, <2>3 DEF Command, Event
  <2>5. RenderInv'
    BY <1>4, <2>2, <2>4 DEF AnswerCommand, RenderInv, RenderTypes
  <2> QED
    BY <1>4, <2>5, Unchanged DEF AnswerCommand
<1>5. CASE LeaveUnanswered
  <2>1. executing[1].op \in Nat
    BY <1>5, ExecutingTyped DEF LeaveUnanswered, Command
  <2>2. silent' \subseteq Nat
    BY <1>5, <2>1 DEF LeaveUnanswered, RenderInv, RenderTypes
  <2>3. RenderInv'
    BY <1>5, <2>2 DEF LeaveUnanswered, RenderInv, RenderTypes
  <2> QED
    BY <1>5, <2>3, Unchanged DEF LeaveUnanswered
<1>6. CASE ProcessingThrows
  <2>1. executing[1].op \in Nat
    BY <1>6, ExecutingTyped DEF ProcessingThrows, Command
  <2>2. silent' \subseteq Nat
    BY <1>6, <2>1 DEF ProcessingThrows, RenderInv, RenderTypes
  <2>3. RenderInv'
    BY <1>6, <2>2 DEF ProcessingThrows, RenderInv, RenderTypes
  <2> QED
    BY <1>6, <2>3, Unchanged DEF ProcessingThrows
<1>7. CASE LockOutboxRender
  <2>1. RenderInv' /\ OutboxTypes'
    BY <1>7 DEF LockOutboxRender, RenderInv, RenderTypes, OutboxTypes
  <2> QED
    BY <1>7, <2>1, Unchanged DEF LockOutboxRender
<1>8. CASE PushEvent
  <2>1. RenderInv'
    BY <1>8 DEF PushEvent, RenderInv, RenderTypes
  <2>2. OutboxTypes'
    BY <1>8, ConcatProperties DEF PushEvent, RenderInv, RenderTypes, OutboxTypes
  <2> QED
    BY <1>8, <2>1, <2>2, Unchanged DEF PushEvent
<1>9. CASE OriginalEndScene
  <2>1. RenderInv' /\ InboxTypes'
    BY <1>9 DEF OriginalEndScene, RenderInv, RenderTypes, InboxTypes
  <2> QED
    BY <1>9, <2>1, Unchanged DEF OriginalEndScene
<1> QED
  BY <1>1, <1>2, <1>3, <1>4, <1>5, <1>6, <1>7, <1>8, <1>9, <1>10 DEF Render

\* The front of localQueue is an event.
LEMMA BatchTyped ==
  ASSUME Inv, batch # <<>>
  PROVE  /\ Head(batch) \in Event
         /\ Tail(batch) \in Seq(Event)
         /\ batch = <<Head(batch)>> \o Tail(batch)
<1>1. batch \in Seq(Event)
  BY DEF Inv, OutgoingInv, OutgoingTypes
<1>2. Head(batch) \in Event /\ Tail(batch) \in Seq(Event)
  BY <1>1, HeadTailProperties
<1>3. batch = <<Head(batch)>> \o Tail(batch)
  BY <1>1
<1> QED
  BY <1>2, <1>3

\* Writing k pieces of the front event keeps the type of the streams.
LEMMA WritePiecesTypes ==
  ASSUME Inv, batch # <<>>, NEW k \in 1 .. Pieces - sentPieces, WritePieces(k)
  PROVE  stream' \in [1 .. MaxSessions -> Seq(Piece)] /\ strayed' \subseteq Piece
<1> DEFINE new == [i \in 1 .. k |-> [op |-> Head(batch).op, piece |-> sentPieces + i]]
<1>1. Head(batch).op \in Nat
  BY BatchTyped DEF Event
<1>2. new \in Seq(Piece)
  BY <1>1, PiecesAssumption DEF Inv, OutgoingInv, OutgoingTypes, Piece
<1>3. Write(new)
  BY DEF WritePieces
<1>4. stream \in [1 .. MaxSessions -> Seq(Piece)] /\ strayed \subseteq Piece
  BY DEF Inv, OutgoingInv, OutgoingTypes
<1> HIDE DEF new
<1>6. \A s \in 1 .. MaxSessions : stream[s] \o new \in Seq(Piece)
  BY <1>2, <1>4, ConcatProperties
<1>7. stream' \in [1 .. MaxSessions -> Seq(Piece)]
  BY <1>3, <1>4, <1>6 DEF Write
<1>5. \A i \in DOMAIN new : new[i] \in Piece
  BY <1>2
<1>8. strayed' \subseteq Piece
  BY <1>3, <1>4, <1>5 DEF Write
<1> QED
  BY <1>7, <1>8

\* The outgoing thread.
LEMMA OutgoingStep ==
  ASSUME Inv, Outgoing
  PROVE  Inv'
<1> USE DEF Inv
<1>1. CASE CheckClient
  <2>1. OutgoingInv'
    BY <1>1 DEF CheckClient, NetTypes, OutgoingInv, OutgoingTypes
  <2> QED
    BY <1>1, <2>1, Unchanged DEF CheckClient
<1>2. CASE LockOutboxOutgoing
  <2>1. OutgoingInv' /\ OutboxTypes'
    BY <1>2 DEF LockOutboxOutgoing, OutgoingInv, OutgoingTypes, OutboxTypes
  <2> QED
    BY <1>2, <2>1, Unchanged DEF LockOutboxOutgoing
<1>3. CASE SwapOutbox
  <2>1. OutgoingInv' /\ OutboxTypes'
    BY <1>3 DEF SwapOutbox, OutgoingInv, OutgoingTypes, OutboxTypes
  <2> QED
    BY <1>3, <2>1, Unchanged DEF SwapOutbox
<1>4. CASE BatchDone
  <2>1. OutgoingInv'
    BY <1>4 DEF BatchDone, OutgoingInv, OutgoingTypes
  <2> QED
    BY <1>4, <2>1, Unchanged DEF BatchDone
<1>6. ASSUME NEW cause \in Causes, batch # <<>>, Drop(cause),
             sentPieces' \in 0 .. Pieces - 1, out' \in {"next", "discard"}
      PROVE  Inv'
  <2>1. [op |-> Head(batch).op, session |-> seenSession, cause |-> cause]
          \in [op : Nat, session : 0 .. MaxSessions, cause : Causes]
    BY <1>6, BatchTyped DEF Event, OutgoingInv, OutgoingTypes
  <2>2. OutgoingInv'
    BY <1>6, <2>1, BatchTyped DEF Drop, OutgoingInv, OutgoingTypes
  <2> QED
    BY <1>6, <2>2, Unchanged DEF Drop
<1>7. CASE SerializeFails \/ NoClient \/ Discard \/ SendFails
  <2>1. batch # <<>> /\ sentPieces' \in 0 .. Pieces - 1 /\ out' \in {"next", "discard"}
    BY <1>7, PiecesAssumption DEF SerializeFails, NoClient, Discard, SendFails,
       OutgoingInv, OutgoingTypes
  <2>2. PICK cause \in Causes : Drop(cause)
    BY <1>7 DEF SerializeFails, NoClient, Discard, SendFails, Causes
  <2> QED
    BY <1>6, <2>1, <2>2
<1>10. CASE SendingThrows
  <2>1. OutgoingInv'
    BY <1>10 DEF SendingThrows, OutgoingInv, OutgoingTypes
  <2> QED
    BY <1>10, <2>1, Unchanged DEF SendingThrows
<1>5. CASE StartSend
  <2>1. OutgoingInv'
    BY <1>5, PiecesAssumption DEF StartSend, NetTypes, OutgoingInv, OutgoingTypes
  <2> QED
    BY <1>5, <2>1, Unchanged DEF StartSend
<1>8. CASE SendSome
  <2>1. batch # <<>>
    BY <1>8 DEF SendSome, OutgoingInv
  <2>2. PICK k \in 1 .. Pieces - 1 - sentPieces :
          WritePieces(k) /\ sentPieces' = sentPieces + k
    BY <1>8 DEF SendSome
  <2>3. stream' \in [1 .. MaxSessions -> Seq(Piece)] /\ strayed' \subseteq Piece
    BY <2>1, <2>2, WritePiecesTypes, PiecesAssumption DEF OutgoingInv, OutgoingTypes
  <2>4. OutgoingInv'
    BY <1>8, <2>2, <2>3, PiecesAssumption DEF SendSome, OutgoingInv, OutgoingTypes
  <2> QED
    BY <1>8, <2>4, Unchanged DEF SendSome
<1>9. CASE SendRest
  <2>1. batch # <<>>
    BY <1>9 DEF SendRest, OutgoingInv
  <2>2. Pieces - sentPieces \in 1 .. Pieces - sentPieces
    BY PiecesAssumption DEF OutgoingInv, OutgoingTypes
  <2>3. stream' \in [1 .. MaxSessions -> Seq(Piece)] /\ strayed' \subseteq Piece
    BY <1>9, <2>1, <2>2, WritePiecesTypes DEF SendRest
  <2>4. Head(batch).op \in Nat /\ Tail(batch) \in Seq(Event)
    BY <2>1, BatchTyped DEF Event
  <2>5. sent' \subseteq Nat
    <3>1. PICK op \in Nat : sent' = sent \cup {op}
      BY <1>9, <2>4 DEF SendRest
    <3> QED
      BY <3>1 DEF OutgoingInv, OutgoingTypes
  <2>6. /\ out' = "next" /\ batch' \in Seq(Event) /\ sentPieces' \in 0 .. Pieces - 1
        /\ UNCHANGED <<target, seenSession, lost>>
    BY <1>9, <2>4, PiecesAssumption DEF SendRest
  <2>7. OutgoingInv'
    BY <2>3, <2>5, <2>6 DEF OutgoingInv, OutgoingTypes
  <2> QED
    BY <1>9, <2>7, Unchanged DEF SendRest
<1> QED
  BY <1>1, <1>2, <1>3, <1>4, <1>7, <1>5, <1>8, <1>9, <1>10 DEF Outgoing

\* Every step of the system keeps Inv.
LEMMA NextInv == Inv /\ [Next]_vars => Inv'
<1> SUFFICES ASSUME Inv, [Next]_vars PROVE Inv'
  OBVIOUS
<1>1. CASE UNCHANGED vars
  BY <1>1, Unchanged DEF vars, Inv
<1> QED
  BY <1>1, ServerStep, RenderStep, OutgoingStep DEF Next

\* Whatever the interleaving, each program point has its command or event at
\* hand: HookedEndScene() never executes a command it did not pop, and
\* processOutgoingMessages() never takes the front of an empty localQueue.
THEOREM InvCorrect == Spec => []Inv
BY InitInv, NextInv, PTL DEF Spec

\* Every variable keeps its type.
THEOREM TypeCorrect == Spec => []TypeOK
<1>1. Inv => TypeOK
  BY DEF Inv, ServerInv, RenderInv, OutgoingInv, TypeOK
<1> QED
  BY <1>1, InvCorrect, PTL


-----------------------------------------------------------------------------
(***************************************************************************)
(* What the steps of the threads amount to, seen through Commands and      *)
(* Events.                                                                 *)
(***************************************************************************)

\* Sequences: the front of <<c>> \o r is c, and r is the rest.
LEMMA FrontOfConcat ==
  ASSUME NEW S, NEW c \in S, NEW r \in Seq(S)
  PROVE  /\ <<c>> \o r \in Seq(S)
         /\ <<c>> \o r # <<>>
         /\ Head(<<c>> \o r) = c
         /\ Tail(<<c>> \o r) = r
<1> DEFINE q == <<c>> \o r
<1>1. <<c>> \in Seq(S) /\ Len(<<c>>) = 1 /\ <<c>>[1] = c
  OBVIOUS
<1>2. /\ q \in Seq(S)
      /\ Len(q) = 1 + Len(r)
      /\ \A i \in 1 .. 1 + Len(r) : q[i] = IF i <= 1 THEN <<c>>[i] ELSE r[i - 1]
  BY <1>1, ConcatProperties
<1>3. Len(r) \in Nat
  BY LenProperties
<1> HIDE DEF q
<1>4. q # <<>> /\ Head(q) = c
  BY <1>1, <1>2, <1>3
<1>6. /\ Tail(q) \in Seq(S) /\ Len(Tail(q)) = Len(r)
      /\ \A i \in 1 .. Len(r) : Tail(q)[i] = q[i + 1]
  BY <1>2, <1>3, <1>4, HeadTailProperties
<1>7. \A i \in 1 .. Len(r) : Tail(q)[i] = r[i]
  BY <1>2, <1>3, <1>6
<1>5. Tail(q) = r
  BY <1>6, <1>7, SeqEqual
<1> QED
  BY <1>2, <1>4, <1>5 DEF q

\* Sequences: moving the middle of three queues into its neighbour, or an
\* element from the end of one to the front of the next, keeps the whole.
LEMMA JoinLast ==
  ASSUME NEW S, NEW a \in Seq(S), NEW b \in Seq(S), NEW c \in Seq(S)
  PROVE  (a \o (b \o c)) \o <<>> = (a \o b) \o c
<1>1. a \o (b \o c) \in Seq(S)
  BY ConcatProperties
<1> QED
  BY <1>1, ConcatAssociative, ConcatEmptySeq

Receives ==
  /\ nReceived' = nReceived + 1
  /\ \E s \in Shapes : Commands' = Append(Commands, [op |-> nReceived + 1, shape |-> s])
  /\ UNCHANGED <<nExecuted, Events, silent, sent, lost>>

Executes ==
  /\ Commands # <<>>
  /\ Commands' = Tail(Commands)
  /\ nExecuted' = nExecuted + 1
  /\ \/ UNCHANGED Events /\ silent' = silent \cup {Head(Commands).op}
     \/ /\ \E t \in Bridge!AnswersTo(Head(Commands).shape.type) \cap EventTypes :
             Events' = Append(Events, [op |-> Head(Commands).op, type |-> t])
        /\ UNCHANGED silent
  /\ UNCHANGED <<nReceived, sent, lost>>

HandsOut ==
  /\ Events # <<>>
  /\ Events' = Tail(Events)
  /\ \/ sent' = sent \cup {Head(Events).op} /\ UNCHANGED lost
     \/ UNCHANGED sent /\ LostOps' = LostOps \cup {Head(Events).op}
  /\ UNCHANGED <<nReceived, nExecuted, Commands, silent>>

Stutters ==
  UNCHANGED <<nReceived, nExecuted, Commands, Events, silent, sent, lost>>

\* The queues as sequences, and which of the one-element ones are empty.
LEMMA QueueTypes ==
  ASSUME Inv
  PROVE  /\ executing \in Seq(Command) /\ inbox \in Seq(Command) /\ arriving \in Seq(Command)
         /\ batch \in Seq(Event) /\ outbox \in Seq(Event) /\ answer \in Seq(Event)
         /\ executing \o inbox \in Seq(Command) /\ batch \o outbox \in Seq(Event)
         /\ Commands \in Seq(Command) /\ Events \in Seq(Event)
         /\ srv \notin {"lockInbox", "push"} => arriving = <<>>
         /\ rnd # "process" => executing = <<>>
         /\ rnd \notin {"lockOutbox", "push"} => answer = <<>>
<1>1. /\ executing \in Seq(Command) /\ inbox \in Seq(Command) /\ arriving \in Seq(Command)
      /\ batch \in Seq(Event) /\ outbox \in Seq(Event) /\ answer \in Seq(Event)
  BY DEF Inv, ServerInv, ServerTypes, InboxTypes, RenderInv, RenderTypes, OutboxTypes,
     OutgoingInv, OutgoingTypes
<1>2. executing \o inbox \in Seq(Command) /\ batch \o outbox \in Seq(Event)
  BY <1>1, ConcatProperties
<1>3. Commands \in Seq(Command) /\ Events \in Seq(Event)
  BY <1>1, <1>2, ConcatProperties DEF Commands, Events
<1>4. srv \notin {"lockInbox", "push"} => arriving = <<>>
  BY <1>1, EmptySeq DEF Inv, ServerInv
<1>6. /\ rnd # "process" => executing = <<>>
      /\ rnd \notin {"lockOutbox", "push"} => answer = <<>>
  BY <1>1, EmptySeq DEF Inv, RenderInv
<1> QED
  BY <1>1, <1>2, <1>3, <1>4, <1>6

\* The server thread only ever appends to Commands.
LEMMA ServerReceives ==
  ASSUME Inv, PeerCloses \/ ConnectionBreaks \/ Server
  PROVE  Receives \/ Stutters
<1>1. CASE ReceiveCommand
  <2>1. PICK s \in Shapes : arriving' = <<[op |-> nReceived + 1, shape |-> s]>>
    BY <1>1 DEF ReceiveCommand
  <2> DEFINE c == [op |-> nReceived + 1, shape |-> s]
  <2>2. c \in Command
    BY DEF Inv, ServerInv, ServerTypes, Command
  <2>3. Commands = executing \o inbox
    BY <1>1, QueueTypes, ConcatEmptySeq DEF Commands, ReceiveCommand
  <2>4. Commands' = (executing \o inbox) \o <<c>>
    BY <1>1, <2>1 DEF Commands, ReceiveCommand, renderVars, inboxVars
  <2> HIDE DEF c
  <2>5. Commands' = Append(Commands, c)
    BY <2>2, <2>3, <2>4, QueueTypes, AppendIsConcat
  <2> QED
    BY <1>1, <2>5 DEF c, Receives, ReceiveCommand, Events, renderVars, outboxVars, outgoingVars
<1>2. CASE PushCommand
  <2>1. Commands' = (executing \o (inbox \o arriving)) \o <<>>
    BY <1>2 DEF Commands, PushCommand, renderVars
  <2>2. /\ executing \in Seq(Command) /\ inbox \in Seq(Command)
        /\ arriving \in Seq(Command)
    BY QueueTypes
  <2>3. (executing \o (inbox \o arriving)) \o <<>> = (executing \o inbox) \o arriving
    BY <2>2, JoinLast
  <2>4. Commands' = Commands
    BY <2>1, <2>3 DEF Commands
  <2> QED
    BY <1>2, <2>4 DEF Stutters, PushCommand, Events, renderVars, outboxVars, outgoingVars
<1>3. CASE PeerCloses \/ ConnectionBreaks
  BY <1>3 DEF PeerCloses, ConnectionBreaks, Stutters, Commands, Events, serverVars,
     inboxVars, renderVars, outboxVars, outgoingVars
<1>4. CASE Accept \/ OnClientConnected \/ LockInboxServer \/ OnClientDisconnected \/ CloseSocket
  BY <1>4 DEF Accept, OnClientConnected, LockInboxServer, OnClientDisconnected, CloseSocket,
     Stutters, Commands, Events, inboxVars, renderVars, outboxVars, outgoingVars
<1> QED
  BY <1>1, <1>2, <1>3, <1>4 DEF Server


\* While a command is executed it is the front of Commands, and nothing is
\* between the outbox and the event it may get.
LEMMA ExecutingIsFront ==
  ASSUME Inv, rnd = "process", executing' = <<>>, UNCHANGED <<inboxVars, arriving>>
  PROVE  /\ Commands # <<>>
         /\ Head(Commands) = executing[1]
         /\ Commands' = Tail(Commands)
         /\ Events = batch \o outbox
<1> DEFINE c == executing[1]
           r == inbox \o arriving
<1>1. c \in Command /\ executing = <<c>>
  BY ExecutingTyped
<1>2. r \in Seq(Command)
  BY QueueTypes, ConcatProperties
<1>3. /\ inbox \in Seq(Command) /\ arriving \in Seq(Command)
      /\ <<>> \in Seq(Command) /\ <<c>> \in Seq(Command)
  BY <1>1, QueueTypes
<1> HIDE DEF c
<1>4. Commands = <<c>> \o r
  BY <1>1, <1>3, ConcatAssociative DEF Commands
<1>6. Commands' = (<<>> \o inbox) \o arriving
  BY DEF Commands, inboxVars
<1>7. Commands' = r
  BY <1>3, <1>6, ConcatEmptySeq
<1>5. Events = batch \o outbox
  BY QueueTypes, ConcatEmptySeq DEF Events
<1> HIDE DEF r
<1> QED
  BY <1>1, <1>2, <1>4, <1>7, <1>5, FrontOfConcat DEF c

\* The render thread executes the front of Commands, or only moves commands
\* and events from one place to the next.
LEMMA RenderExecutes ==
  ASSUME Inv, Render
  PROVE  Executes \/ Stutters
<1>1. CASE \/ EnterEndScene \/ LockInboxRender \/ NoCommand \/ LockOutboxRender
           \/ OriginalEndScene
  BY <1>1 DEF EnterEndScene, LockInboxRender, NoCommand, LockOutboxRender,
     OriginalEndScene, Stutters,
     Commands, Events, serverVars, inboxVars, outboxVars, outgoingVars
<1>2. CASE PopCommand
  <2>1. /\ inbox # <<>> /\ inbox \in Seq(Command) /\ arriving \in Seq(Command)
        /\ executing = <<>>
    BY <1>2, QueueTypes DEF PopCommand
  <2>2. inbox = <<Head(inbox)>> \o Tail(inbox)
    BY <2>1
  <2>3. Commands' = (<<Head(inbox)>> \o Tail(inbox)) \o arriving
    BY <1>2 DEF Commands, PopCommand, serverVars
  <2>4. Commands = inbox \o arriving
    BY <2>1, ConcatEmptySeq DEF Commands
  <2>5. Commands' = Commands
    BY <2>2, <2>3, <2>4
  <2> QED
    BY <1>2, <2>5 DEF Stutters, PopCommand, Events, serverVars, outboxVars, outgoingVars
<1>3. CASE AnswerCommand
  <2>1. /\ Commands # <<>> /\ Commands' = Tail(Commands)
        /\ Head(Commands) = executing[1] /\ executing[1] \in Command
        /\ Events = batch \o outbox
    BY <1>3, ExecutingIsFront, ExecutingTyped DEF AnswerCommand, serverVars
  <2>2. PICK t \in ProcessCommand(executing[1].shape) \ {NoEvent} :
               answer' = <<[op |-> executing[1].op, type |-> t]>>
    BY <1>3 DEF AnswerCommand
  <2>3. t \in Bridge!AnswersTo(executing[1].shape.type) \cap EventTypes
    BY <2>1, ProcessCommandAnswers DEF Command
  <2> DEFINE e == [op |-> executing[1].op, type |-> t]
  <2>4. e \in Event
    BY <2>1, <2>3 DEF Command, Event
  <2>5. Events' = (batch \o outbox) \o <<e>>
    BY <1>3, <2>2 DEF Events, AnswerCommand, outboxVars, outgoingVars
  <2> HIDE DEF e
  <2>6. Events' = Append(Events, e)
    BY <2>1, <2>4, <2>5, QueueTypes, AppendIsConcat
  <2> QED
    BY <1>3, <2>1, <2>3, <2>6 DEF e, Executes, AnswerCommand, serverVars, outgoingVars
<1>4. CASE LeaveUnanswered \/ ProcessingThrows
  <2>1. /\ Commands # <<>> /\ Commands' = Tail(Commands)
        /\ Head(Commands) = executing[1]
    BY <1>4, ExecutingIsFront DEF LeaveUnanswered, ProcessingThrows, serverVars
  <2> QED
    BY <1>4, <2>1 DEF Executes, LeaveUnanswered, ProcessingThrows, Events, serverVars,
       outboxVars, outgoingVars
<1>6. CASE PushEvent
  <2>1. Events' = (batch \o (outbox \o answer)) \o <<>>
    BY <1>6 DEF Events, PushEvent, outgoingVars
  <2>2. batch \in Seq(Event) /\ outbox \in Seq(Event) /\ answer \in Seq(Event)
    BY QueueTypes
  <2>3. (batch \o (outbox \o answer)) \o <<>> = (batch \o outbox) \o answer
    BY <2>2, JoinLast
  <2>4. Events' = Events
    BY <2>1, <2>3 DEF Events
  <2> QED
    BY <1>6, <2>4 DEF Stutters, PushEvent, Commands, serverVars, inboxVars, outgoingVars
<1> QED
  BY <1>1, <1>2, <1>3, <1>4, <1>6 DEF Render

\* Popping localQueue takes the front of Events.
LEMMA BatchIsFront ==
  ASSUME Inv, batch # <<>>, batch' = Tail(batch), UNCHANGED <<outbox, answer>>
  PROVE  /\ Events # <<>>
         /\ Head(Events) = Head(batch)
         /\ Events' = Tail(Events)
<1> DEFINE e == Head(batch)
           t == Tail(batch)
           r == (t \o outbox) \o answer
<1>1. e \in Event /\ t \in Seq(Event) /\ batch = <<e>> \o t
  BY BatchTyped
<1>2. /\ outbox \in Seq(Event) /\ answer \in Seq(Event) /\ <<e>> \in Seq(Event)
  BY <1>1, QueueTypes
<1>3. Events' = r
  BY DEF Events
<1>4. Events = ((<<e>> \o t) \o outbox) \o answer
  BY <1>1 DEF Events
<1> HIDE DEF e, t
<1>6. t \o outbox \in Seq(Event)
  BY <1>1, <1>2, ConcatProperties
<1>7. (<<e>> \o t) \o outbox = <<e>> \o (t \o outbox)
  BY <1>1, <1>2, ConcatAssociative
<1>5. (<<e>> \o (t \o outbox)) \o answer = <<e>> \o r
  BY <1>1, <1>2, <1>6, ConcatAssociative
<1>8. Events = <<e>> \o r
  BY <1>4, <1>7, <1>5
<1>9. r \in Seq(Event)
  BY <1>2, <1>6, ConcatProperties
<1> HIDE DEF r
<1> QED
  BY <1>1, <1>3, <1>8, <1>9, FrontOfConcat DEF e

\* The outgoing thread takes the front of Events, or moves events from the
\* outbox to localQueue all at once.
LEMMA OutgoingHandsOut ==
  ASSUME Inv, Outgoing
  PROVE  HandsOut \/ Stutters
<1>1. CASE \/ CheckClient \/ LockOutboxOutgoing \/ BatchDone \/ SendingThrows
           \/ StartSend \/ SendSome
  BY <1>1 DEF CheckClient, LockOutboxOutgoing, BatchDone, SendingThrows, StartSend,
     SendSome, Stutters, Commands, Events, serverVars, inboxVars, renderVars, outboxVars
<1>2. CASE SwapOutbox
  <2>1. batch = <<>> /\ outbox \in Seq(Event)
    BY <1>2, QueueTypes DEF SwapOutbox, Inv, OutgoingInv
  <2>2. Events' = (outbox \o <<>>) \o answer
    BY <1>2, <2>1 DEF Events, SwapOutbox, renderVars
  <2>3. Events' = Events
    BY <2>1, <2>2, ConcatEmptySeq DEF Events
  <2> QED
    BY <1>2, <2>3 DEF Stutters, SwapOutbox, Commands, serverVars, inboxVars, renderVars
<1>3. CASE SerializeFails \/ NoClient \/ Discard \/ SendFails
  <2>1. batch # <<>>
    BY <1>3 DEF SerializeFails, NoClient, Discard, SendFails, Inv, OutgoingInv
  <2>2. PICK cause \in Causes : Drop(cause)
    BY <1>3 DEF SerializeFails, NoClient, Discard, SendFails, Causes
  <2>3. Events # <<>> /\ Events' = Tail(Events) /\ Head(Events) = Head(batch)
    BY <2>1, <2>2, BatchIsFront DEF Drop, outboxVars, renderVars
  <2>4. LostOps' = LostOps \cup {Head(Events).op}
    <3> DEFINE d == [op |-> Head(batch).op, session |-> seenSession, cause |-> cause]
    <3>1. lost' = lost \cup {d} /\ d.op = Head(batch).op
      BY <2>2 DEF Drop
    <3> HIDE DEF d
    <3>2. LostOps' = {l.op : l \in lost \cup {d}}
      BY <3>1 DEF LostOps
    <3>3. {l.op : l \in lost \cup {d}} = {l.op : l \in lost} \cup {d.op}
      OBVIOUS
    <3> QED
      BY <2>3, <3>1, <3>2, <3>3 DEF LostOps
  <2>5. UNCHANGED <<nReceived, nExecuted, Commands, silent, sent>>
    BY <2>2 DEF Drop, Commands, serverVars, inboxVars, renderVars
  <2> QED
    BY <2>3, <2>4, <2>5 DEF HandsOut
<1>4. CASE SendRest
  <2>1. batch # <<>>
    BY <1>4 DEF SendRest, Inv, OutgoingInv
  <2>2. Events # <<>> /\ Events' = Tail(Events) /\ Head(Events) = Head(batch)
    BY <1>4, <2>1, BatchIsFront DEF SendRest, outboxVars, renderVars
  <2>3. /\ sent' = sent \cup {Head(Events).op}
        /\ UNCHANGED <<nReceived, nExecuted, Commands, silent, lost>>
    BY <1>4, <2>2 DEF SendRest, Commands, serverVars, inboxVars, renderVars
  <2> QED
    BY <2>2, <2>3 DEF HandsOut
<1> QED
  BY <1>1, <1>2, <1>3, <1>4 DEF Outgoing

\* Every step of the system is one of the four.
LEMMA PipelineStep ==
  ASSUME Inv, [Next]_vars
  PROVE  Receives \/ Executes \/ HandsOut \/ Stutters
<1>1. CASE UNCHANGED vars
  BY <1>1 DEF vars, Stutters, Commands, Events, serverVars, inboxVars, renderVars,
     outboxVars, outgoingVars
<1> QED
  BY <1>1, ServerReceives, RenderExecutes, OutgoingHandsOut DEF Next


-----------------------------------------------------------------------------
(***************************************************************************)
(* Every command is executed once, in order, and has one fate.             *)
(***************************************************************************)

\* The operations of a queue that grows or shrinks by one.
LEMMA OpsOfAppend ==
  ASSUME NEW q \in Seq(Event), NEW e \in Event
  PROVE  OpsOf(Append(q, e)) = OpsOf(q) \cup {e.op}
<1>1. /\ DOMAIN Append(q, e) = 1 .. Len(q) + 1 /\ DOMAIN q = 1 .. Len(q) /\ Len(q) \in Nat
      /\ \A i \in 1 .. Len(q) : Append(q, e)[i] = q[i]
      /\ Append(q, e)[Len(q) + 1] = e
  BY AppendProperties, LenProperties
<1>2. ASSUME NEW o \in OpsOf(Append(q, e)) PROVE o \in OpsOf(q) \cup {e.op}
  <2>1. PICK i \in 1 .. Len(q) + 1 : o = Append(q, e)[i].op
    BY <1>1, <1>2 DEF OpsOf
  <2> QED
    BY <1>1, <2>1 DEF OpsOf
<1>3. ASSUME NEW o \in OpsOf(q) PROVE o \in OpsOf(Append(q, e))
  <2>1. PICK i \in 1 .. Len(q) : o = q[i].op
    BY <1>1, <1>3 DEF OpsOf
  <2>2. i \in 1 .. Len(q) + 1 /\ o = Append(q, e)[i].op
    BY <1>1, <2>1
  <2> QED
    BY <1>1, <2>2 DEF OpsOf
<1>4. e.op \in OpsOf(Append(q, e))
  <2>1. Len(q) + 1 \in 1 .. Len(q) + 1
    BY <1>1
  <2> QED
    BY <1>1, <2>1 DEF OpsOf
<1> QED
  BY <1>2, <1>3, <1>4

\* Popping a queue takes away its first operation and no other.
LEMMA OpsOfTail ==
  ASSUME NEW q \in Seq(Event), q # <<>>
  PROVE  OpsOf(q) = {Head(q).op} \cup OpsOf(Tail(q))
<1>1. /\ DOMAIN Tail(q) = 1 .. Len(q) - 1 /\ DOMAIN q = 1 .. Len(q) /\ Len(q) \in Nat \ {0}
      /\ \A i \in 1 .. Len(q) - 1 : Tail(q)[i] = q[i + 1]
      /\ Head(q) = q[1]
  BY HeadTailProperties, LenProperties, EmptySeq
<1>2. ASSUME NEW o \in OpsOf(q) PROVE o \in {Head(q).op} \cup OpsOf(Tail(q))
  <2>1. PICK i \in 1 .. Len(q) : o = q[i].op
    BY <1>1, <1>2 DEF OpsOf
  <2>2. CASE i = 1
    BY <1>1, <2>1, <2>2
  <2>3. CASE i # 1
    <3>1. i - 1 \in 1 .. Len(q) - 1 /\ o = Tail(q)[i - 1].op
      BY <1>1, <2>1, <2>3
    <3> QED
      BY <1>1, <3>1 DEF OpsOf
  <2> QED
    BY <2>2, <2>3
<1>3. ASSUME NEW o \in OpsOf(Tail(q)) PROVE o \in OpsOf(q)
  <2>1. PICK i \in 1 .. Len(q) - 1 : o = Tail(q)[i].op
    BY <1>1, <1>3 DEF OpsOf
  <2>2. i + 1 \in 1 .. Len(q) /\ o = q[i + 1].op
    BY <1>1, <2>1
  <2> QED
    BY <1>1, <2>2 DEF OpsOf
<1>4. Head(q).op \in OpsOf(q)
  <2>1. 1 \in 1 .. Len(q)
    BY <1>1
  <2> QED
    BY <1>1, <2>1 DEF OpsOf
<1> QED
  BY <1>2, <1>3, <1>4

\* Commands under way are numbered nExecuted + 1 .. nReceived, in order.
LEMMA ConservedStep ==
  ASSUME Inv, CommandsConserved, [Next]_vars
  PROVE  CommandsConserved'
<1>1. /\ Commands \in Seq(Command) /\ nReceived \in Nat /\ nExecuted \in Nat
  BY QueueTypes DEF Inv, ServerInv, ServerTypes, RenderInv, RenderTypes
<1>2. DOMAIN Commands = 1 .. Len(Commands) /\ Len(Commands) \in Nat
  BY <1>1, LenProperties
<1>3. CASE Receives
  <2>1. PICK s \in Shapes : Commands' = Append(Commands, [op |-> nReceived + 1, shape |-> s])
    BY <1>3 DEF Receives
  <2> DEFINE c == [op |-> nReceived + 1, shape |-> s]
  <2>2. c \in Command /\ c.op = nReceived + 1
    BY <1>1 DEF Command
  <2>3. /\ nReceived' = nReceived + 1 /\ nExecuted' = nExecuted
        /\ Commands' = Append(Commands, c)
    BY <1>3, <2>1 DEF Receives
  <2> HIDE DEF c
  <2>4. /\ Len(Commands') = Len(Commands) + 1
        /\ \A i \in 1 .. Len(Commands) : Commands'[i] = Commands[i]
        /\ Commands'[Len(Commands) + 1] = c
        /\ Commands' \in Seq(Command)
    BY <1>1, <2>2, <2>3, AppendProperties
  <2>5. DOMAIN Commands' = 1 .. Len(Commands) + 1
    BY <2>4, LenProperties
  <2> QED
    BY <1>1, <1>2, <2>2, <2>3, <2>4, <2>5 DEF CommandsConserved
<1>4. CASE Executes
  <2>1. Commands # <<>> /\ Commands' = Tail(Commands)
    BY <1>4 DEF Executes
  <2>2. nReceived' = nReceived /\ nExecuted' = nExecuted + 1
    BY <1>4 DEF Executes
  <2>3. /\ Len(Commands') = Len(Commands) - 1
        /\ \A i \in 1 .. Len(Commands) - 1 : Commands'[i] = Commands[i + 1]
        /\ Commands' \in Seq(Command)
    BY <1>1, <2>1, HeadTailProperties
  <2>4. DOMAIN Commands' = 1 .. Len(Commands) - 1
    BY <2>3, LenProperties
  <2>5. nReceived' = nExecuted' + Len(Commands')
    BY <1>1, <1>2, <2>2, <2>3 DEF CommandsConserved
  <2>6. ASSUME NEW i \in 1 .. Len(Commands) - 1
        PROVE  Commands'[i].op = nExecuted' + i
    <3>1. i + 1 \in 1 .. Len(Commands)
      BY <1>2
    <3>2. Commands[i + 1].op = nExecuted + (i + 1)
      BY <1>2, <3>1 DEF CommandsConserved
    <3> QED
      BY <1>1, <2>2, <2>3, <3>2
  <2> QED
    BY <2>4, <2>5, <2>6 DEF CommandsConserved
<1>6. CASE HandsOut \/ Stutters
  BY <1>6 DEF HandsOut, Stutters, CommandsConserved
<1> QED
  BY <1>3, <1>4, <1>6, PipelineStep

\* From the socket to the render thread no command is dropped, duplicated or
\* overtaken, for any number of commands, clients and interleavings.
THEOREM Conserved == Spec => []CommandsConserved
<1>1. Init => CommandsConserved
  <2> SUFFICES ASSUME Init PROVE CommandsConserved
    OBVIOUS
  <2>1. Commands = <<>>
    BY ConcatEmptySeq, InitInv, QueueTypes DEF Init, Commands
  <2> QED
    BY <2>1 DEF Init, CommandsConserved
<1> QED
  BY <1>1, ConservedStep, InvCorrect, PTL DEF Spec


\* Answers under way are numbered at most nExecuted, and an operation that is
\* about to be executed has no fate yet.
LEMMA NextOperation ==
  ASSUME Inv, CommandsConserved, EveryCommandAccountedFor, Commands # <<>>
  PROVE  /\ Head(Commands) \in Command
         /\ Head(Commands).op = nExecuted + 1
         /\ nExecuted + 1 \notin silent \cup sent \cup LostOps \cup OpsOf(Events)
<1>1. Commands \in Seq(Command) /\ nExecuted \in Nat
  BY QueueTypes DEF Inv, RenderInv, RenderTypes
<1>2. /\ Head(Commands) \in Command /\ Head(Commands) = Commands[1]
      /\ 1 \in DOMAIN Commands
  BY <1>1, HeadTailProperties, LenProperties, EmptySeq
<1>3. Commands[1].op = nExecuted + 1
  BY <1>2 DEF CommandsConserved
<1>4. nExecuted + 1 \notin 1 .. nExecuted
  BY <1>1
<1> QED
  BY <1>2, <1>3, <1>4 DEF EveryCommandAccountedFor

\* One more command, one more fate.
LEMMA AccountedStep ==
  ASSUME Inv, CommandsConserved, EveryCommandAccountedFor, AnswersInOrder, [Next]_vars
  PROVE  EveryCommandAccountedFor'
<1>1. /\ Events \in Seq(Event) /\ nExecuted \in Nat
  BY QueueTypes DEF Inv, RenderInv, RenderTypes
<1>2. CASE Receives \/ Stutters
  BY <1>2 DEF Receives, Stutters, EveryCommandAccountedFor, LostOps
<1>3. CASE Executes
  <2>1. /\ Commands # <<>> /\ nExecuted' = nExecuted + 1
        /\ UNCHANGED <<sent, lost>>
    BY <1>3 DEF Executes
  <2>2. /\ Head(Commands).op = nExecuted + 1
        /\ nExecuted + 1 \notin silent \cup sent \cup LostOps \cup OpsOf(Events)
    BY <2>1, NextOperation
  <2>3. 1 .. nExecuted' = (1 .. nExecuted) \cup {nExecuted + 1}
    BY <1>1, <2>1
  <2>4. LostOps' = LostOps
    BY <2>1 DEF LostOps
  <2>5. CASE UNCHANGED Events /\ silent' = silent \cup {Head(Commands).op}
    BY <2>1, <2>2, <2>3, <2>4, <2>5 DEF EveryCommandAccountedFor
  <2>6. CASE /\ \E t \in Bridge!AnswersTo(Head(Commands).shape.type) \cap EventTypes :
                  Events' = Append(Events, [op |-> Head(Commands).op, type |-> t])
             /\ UNCHANGED silent
    <3>1. PICK t \in EventTypes : Events' = Append(Events, [op |-> nExecuted + 1, type |-> t])
      BY <2>2, <2>6
    <3> DEFINE e == [op |-> nExecuted + 1, type |-> t]
    <3>2. e \in Event /\ e.op = nExecuted + 1
      BY <1>1 DEF Event
    <3>3. Events' = Append(Events, e)
      BY <3>1
    <3> HIDE DEF e
    <3>4. OpsOf(Events)' = OpsOf(Events) \cup {nExecuted + 1}
      BY <1>1, <3>2, <3>3, OpsOfAppend DEF OpsOf
    <3> QED
      BY <2>1, <2>2, <2>3, <2>4, <2>6, <3>4 DEF EveryCommandAccountedFor
  <2> QED
    BY <1>3, <2>5, <2>6 DEF Executes
<1>4. CASE HandsOut
  <2> DEFINE o == Head(Events).op
  <2>1. /\ Events # <<>> /\ Events' = Tail(Events)
        /\ UNCHANGED <<nExecuted, silent>>
    BY <1>4 DEF HandsOut
  <2>2. OpsOf(Events) = {o} \cup OpsOf(Events)'
    BY <1>1, <2>1, OpsOfTail DEF OpsOf
  <2>3. o \notin OpsOf(Events)'
    <3>1. /\ Len(Events) \in Nat \ {0}
          /\ DOMAIN Events = 1 .. Len(Events) /\ Head(Events) = Events[1]
      BY <1>1, <2>1, LenProperties, EmptySeq
    <3>2. /\ DOMAIN Events' = 1 .. Len(Events) - 1
          /\ \A i \in 1 .. Len(Events) - 1 : Events'[i] = Events[i + 1]
      BY <1>1, <2>1, HeadTailProperties, LenProperties
    <3>3. ASSUME NEW i \in 1 .. Len(Events) - 1 PROVE Events'[i].op # o
      <4>1. 1 \in DOMAIN Events /\ i + 1 \in DOMAIN Events /\ 1 < i + 1
        BY <3>1
      <4>2. Events[1].op < Events[i + 1].op
        BY <4>1 DEF AnswersInOrder
      <4>3. Events[1] \in Event
        BY <1>1, <4>1, <3>1, ElementOfSeq
      <4>4. Events[1].op \in Nat
        BY <4>3 DEF Event
      <4> QED
        BY <3>1, <3>2, <4>2, <4>4
    <3> QED
      BY <3>2, <3>3 DEF OpsOf
  <2>4. o \in OpsOf(Events)
    BY <2>2
  <2> HIDE DEF o
  <2>5. CASE sent' = sent \cup {o} /\ UNCHANGED lost
    <3>1. LostOps' = LostOps
      BY <2>5 DEF LostOps
    <3> QED
      BY <2>1, <2>2, <2>3, <2>4, <2>5, <3>1 DEF EveryCommandAccountedFor
  <2>6. CASE UNCHANGED sent /\ LostOps' = LostOps \cup {o}
    BY <2>1, <2>2, <2>3, <2>4, <2>6 DEF EveryCommandAccountedFor
  <2> QED
    BY <1>4, <2>5, <2>6 DEF HandsOut, o
<1> QED
  BY <1>2, <1>3, <1>4, PipelineStep

\* A new answer comes last, and the one that leaves was first.
LEMMA InOrderStep ==
  ASSUME Inv, CommandsConserved, EveryCommandAccountedFor, AnswersInOrder, [Next]_vars
  PROVE  AnswersInOrder'
<1>1. /\ Events \in Seq(Event) /\ nExecuted \in Nat /\ Len(Events) \in Nat
      /\ DOMAIN Events = 1 .. Len(Events)
  BY QueueTypes, LenProperties DEF Inv, RenderInv, RenderTypes
<1>2. \A i \in 1 .. Len(Events) : Events[i].op \in Nat /\ Events[i].op <= nExecuted
  <2> SUFFICES ASSUME NEW i \in 1 .. Len(Events)
               PROVE  Events[i].op \in 1 .. nExecuted
    BY <1>1
  <2>1. Events[i].op \in OpsOf(Events)
    BY <1>1 DEF OpsOf
  <2> QED
    BY <2>1 DEF EveryCommandAccountedFor
<1>3. \A o \in sent \cup LostOps : o \in Nat /\ o <= nExecuted
  <2> SUFFICES ASSUME NEW o \in sent \cup LostOps
               PROVE  o \in 1 .. nExecuted
    BY <1>1
  <2> QED
    BY DEF EveryCommandAccountedFor
<1>4. CASE Receives \/ Stutters
  BY <1>4 DEF Receives, Stutters, AnswersInOrder, LostOps
<1>6. CASE Executes
  <2>1. /\ Commands # <<>> /\ UNCHANGED <<sent, lost>>
    BY <1>6 DEF Executes
  <2>2. Head(Commands).op = nExecuted + 1
    BY <2>1, NextOperation
  <2>3. LostOps' = LostOps
    BY <2>1 DEF LostOps
  <2>4. CASE UNCHANGED Events
    BY <2>1, <2>3, <2>4 DEF AnswersInOrder
  <2>5. CASE \E t \in EventTypes : Events' = Append(Events, [op |-> nExecuted + 1, type |-> t])
    <3>1. PICK t \in EventTypes : Events' = Append(Events, [op |-> nExecuted + 1, type |-> t])
      BY <2>5
    <3> DEFINE e == [op |-> nExecuted + 1, type |-> t]
    <3>2. e \in Event /\ e.op = nExecuted + 1
      BY <1>1 DEF Event
    <3>3. Events' = Append(Events, e)
      BY <3>1
    <3> HIDE DEF e
    <3>4. /\ \A i \in 1 .. Len(Events) : Events'[i] = Events[i]
          /\ Events'[Len(Events) + 1] = e
          /\ DOMAIN Events' = 1 .. Len(Events) + 1
      BY <1>1, <3>2, <3>3, AppendProperties, LenProperties
    <3>5. ASSUME NEW i \in 1 .. Len(Events) + 1, NEW j \in 1 .. Len(Events) + 1, i < j
          PROVE  Events'[i].op < Events'[j].op
      <4>1. i \in 1 .. Len(Events)
        BY <1>1, <3>5
      <4>2. CASE j \in 1 .. Len(Events)
        BY <1>1, <3>4, <3>5, <4>1, <4>2 DEF AnswersInOrder
      <4>3. CASE j = Len(Events) + 1
        BY <1>1, <1>2, <3>2, <3>4, <4>1, <4>3
      <4> QED
        BY <1>1, <4>2, <4>3
    <3>6. ASSUME NEW i \in 1 .. Len(Events) + 1, NEW o \in sent \cup LostOps
          PROVE  o < Events'[i].op
      <4>1. CASE i \in 1 .. Len(Events)
        BY <1>1, <3>4, <4>1 DEF AnswersInOrder
      <4>2. CASE i = Len(Events) + 1
        BY <1>1, <1>3, <3>2, <3>4, <4>2
      <4> QED
        BY <1>1, <4>1, <4>2
    <3> QED
      BY <2>1, <2>3, <3>4, <3>5, <3>6 DEF AnswersInOrder
  <2> QED
    BY <1>6, <2>2, <2>4, <2>5 DEF Executes
<1>7. CASE HandsOut
  <2>1. /\ Events # <<>> /\ Events' = Tail(Events)
        /\ (sent \cup LostOps)' = sent \cup LostOps \cup {Head(Events).op}
    BY <1>7 DEF HandsOut, LostOps
  <2>2. /\ \A i \in 1 .. Len(Events) - 1 : Events'[i] = Events[i + 1]
        /\ DOMAIN Events' = 1 .. Len(Events) - 1
        /\ Head(Events) = Events[1]
    BY <1>1, <2>1, HeadTailProperties, LenProperties
  <2>3. ASSUME NEW i \in 1 .. Len(Events) - 1
        PROVE  i + 1 \in DOMAIN Events /\ 1 \in DOMAIN Events /\ 1 < i + 1
    BY <1>1
  <2>4. ASSUME NEW i \in 1 .. Len(Events) - 1, NEW j \in 1 .. Len(Events) - 1, i < j
        PROVE  Events'[i].op < Events'[j].op
    BY <2>2, <2>3, <2>4 DEF AnswersInOrder
  <2>5. ASSUME NEW i \in 1 .. Len(Events) - 1, NEW o \in (sent \cup LostOps)'
        PROVE  o < Events'[i].op
    BY <2>1, <2>2, <2>3 DEF AnswersInOrder
  <2> QED
    BY <2>2, <2>4, <2>5 DEF AnswersInOrder
<1> QED
  BY <1>4, <1>6, <1>7, PipelineStep

\* Every executed command has exactly one fate, and answers keep the order of
\* their commands through the two queues and the swap, for any number of
\* commands, clients and interleavings.
THEOREM AccountedFor == Spec => [](EveryCommandAccountedFor /\ AnswersInOrder)
<1>1. Init => EveryCommandAccountedFor /\ AnswersInOrder
  <2> SUFFICES ASSUME Init PROVE EveryCommandAccountedFor /\ AnswersInOrder
    OBVIOUS
  <2>1. Events = <<>>
    BY ConcatEmptySeq, InitInv, QueueTypes DEF Init, Events
  <2>2. OpsOf(Events) = {} /\ LostOps = {}
    BY <2>1 DEF Init, OpsOf, LostOps
  <2>3. 1 .. nExecuted = {}
    BY DEF Init
  <2>4. EveryCommandAccountedFor
    BY <2>2, <2>3 DEF Init, EveryCommandAccountedFor
  <2>5. AnswersInOrder
    BY <2>1 DEF AnswersInOrder
  <2> QED
    BY <2>4, <2>5
<1>2. /\ Inv /\ CommandsConserved /\ EveryCommandAccountedFor /\ AnswersInOrder
      /\ [Next]_vars
      => EveryCommandAccountedFor' /\ AnswersInOrder'
  BY AccountedStep, InOrderStep
<1> QED
  BY <1>1, <1>2, InvCorrect, Conserved, PTL DEF Spec

\* The events that wait in batch and outbox, and the one that is being made, carry
\* rising operation numbers, and whatever was sent or lost is older than all of them.
THEOREM AnswersOrdered == Spec => []AnswersInOrder
<1>1. EveryCommandAccountedFor /\ AnswersInOrder => AnswersInOrder
  OBVIOUS
<1> QED
  BY <1>1, AccountedFor, PTL

-----------------------------------------------------------------------------
(***************************************************************************)
(* Refinement.                                                             *)
(***************************************************************************)

\* The agent with its three threads, two queues and their locks implements
\* the bridge: every step is one step of the bridge, or none.
THEOREM Refinement == Spec => BridgeSpec
<1>1. Init => Bridge!Init
  <2> SUFFICES ASSUME Init PROVE Bridge!Init
    OBVIOUS
  <2>1. Commands = <<>> /\ Events = <<>>
    BY ConcatEmptySeq, InitInv, QueueTypes DEF Init, Commands, Events
  <2> QED
    BY <2>1 DEF Init, Bridge!Init
<1>2. Inv /\ CommandsConserved /\ [Next]_vars => [Bridge!Next]_(Bridge!vars)
  <2> SUFFICES ASSUME Inv, CommandsConserved, [Next]_vars
               PROVE  [Bridge!Next]_(Bridge!vars)
    OBVIOUS
  <2>1. CASE Receives
    <3>1. nExecuted + Len(Commands) + 1 = nReceived + 1
      BY DEF CommandsConserved
    <3>2. \E s \in Shapes :
            Commands' = Append(Commands, [op |-> nExecuted + Len(Commands) + 1, shape |-> s])
      BY <2>1, <3>1 DEF Receives
    <3>3. UNCHANGED <<nExecuted, Events>>
      BY <2>1 DEF Receives
    <3> QED
      BY <3>2, <3>3 DEF Bridge!Receive, Bridge!Next
  <2>2. CASE Executes
    BY <2>2 DEF Executes, Bridge!Execute, Bridge!Next
  <2>3. CASE HandsOut
    BY <2>3 DEF HandsOut, Bridge!HandOut, Bridge!Next
  <2>4. CASE Stutters
    BY <2>4 DEF Stutters, Bridge!vars
  <2> QED
    BY <2>1, <2>2, <2>3, <2>4, PipelineStep
<1> QED
  BY <1>1, <1>2, InvCorrect, Conserved, PTL DEF Spec, BridgeSpec, Bridge!Spec


-----------------------------------------------------------------------------
(***************************************************************************)
(* Who loses an answer.                                                    *)
(***************************************************************************)

\* m_currentClient is the open socket exactly while handleClient() runs.
ClientInv ==
  /\ srv = "accept" => openSocket = INVALID_SOCKET /\ currentClient = INVALID_SOCKET
                       /\ link = "none"
  /\ srv = "connected" => openSocket \in Handles /\ currentClient = INVALID_SOCKET
  /\ srv \in {"recv", "lockInbox", "push"} =>
       openSocket \in Handles /\ currentClient = openSocket
  /\ srv = "close" => currentClient = INVALID_SOCKET /\ link # "up"

\* A client seen by the outgoing thread is still being handled or gone, and
\* the handle that sendData() uses is its own unless it is gone.
SeenInv ==
  /\ seenSession <= session
  /\ \A l \in lost : l.session <= session
  /\ out # "check" => Departed(seenSession) \/ srv \in {"recv", "lockInbox", "push"}
  /\ out = "send" => Departed(seenSession) \/ target = currentClient

\* What send() did not take was meant for a client that is going or gone.
LostInv == \A l \in lost : l.cause = "send" => Departed(l.session)

\* Only the server thread changes m_currentClient.
LEMMA ClientStep ==
  ASSUME Inv, ClientInv, [Next]_vars
  PROVE  ClientInv'
<1> USE HandlesAssumption DEF ClientInv
<1>1. CASE PeerCloses \/ ConnectionBreaks
  BY <1>1 DEF PeerCloses, ConnectionBreaks, serverVars
<1>2. CASE Accept
  BY <1>2 DEF Accept
<1>3. CASE OnClientConnected
  BY <1>3 DEF OnClientConnected
<1>4. CASE ReceiveCommand \/ LockInboxServer \/ PushCommand
  BY <1>4 DEF ReceiveCommand, LockInboxServer, PushCommand, netVars
<1>6. CASE OnClientDisconnected
  BY <1>6 DEF OnClientDisconnected
<1>7. CASE CloseSocket
  BY <1>7 DEF CloseSocket
<1>5. CASE Render \/ Outgoing \/ UNCHANGED vars
  <2>1. UNCHANGED <<netVars, serverVars>>
    BY <1>5 DEF Render, EnterEndScene, LockInboxRender, NoCommand, PopCommand, AnswerCommand,
       LeaveUnanswered, ProcessingThrows, LockOutboxRender, PushEvent, OriginalEndScene,
       Outgoing, CheckClient, LockOutboxOutgoing, SwapOutbox, BatchDone, SerializeFails,
       NoClient, SendingThrows, Discard, StartSend, SendSome, SendRest, SendFails, Drop, vars
  <2> QED
    BY <2>1 DEF netVars, serverVars
<1> QED
  BY <1>1, <1>2, <1>3, <1>4, <1>6, <1>7, <1>5 DEF Next, Server

\* A client that is gone does not come back: a new connection is a new session.
LEMMA GoneStays ==
  ASSUME Inv, [Next]_vars, NEW s \in 0 .. MaxSessions, s <= session
  PROVE  /\ session <= session'
         /\ Departed(s) => Departed(s)'
<1> USE DEF Departed
<1>1. session \in Nat
  BY BoundsAssumption DEF Inv, NetTypes
<1>2. CASE PeerCloses \/ ConnectionBreaks
  BY <1>1, <1>2 DEF PeerCloses, ConnectionBreaks
<1>3. CASE Accept
  BY <1>1, <1>3, BoundsAssumption DEF Accept
<1>4. CASE OnClientConnected \/ OnClientDisconnected \/ CloseSocket
  BY <1>1, <1>4 DEF OnClientConnected, OnClientDisconnected, CloseSocket
<1>6. CASE UNCHANGED netVars
  BY <1>1, <1>6 DEF netVars
<1>7. \/ PeerCloses \/ ConnectionBreaks \/ Accept \/ OnClientConnected
      \/ OnClientDisconnected \/ CloseSocket \/ UNCHANGED netVars
  BY DEF Next, Server, ReceiveCommand, LockInboxServer, PushCommand, Render,
     EnterEndScene, LockInboxRender, NoCommand, PopCommand, AnswerCommand,
     LeaveUnanswered, ProcessingThrows, LockOutboxRender, PushEvent, OriginalEndScene,
     Outgoing, CheckClient, LockOutboxOutgoing, SwapOutbox, BatchDone, SerializeFails,
     NoClient, SendingThrows, Discard, StartSend, SendSome, SendRest, SendFails, Drop, vars
<1> QED
  BY <1>2, <1>3, <1>4, <1>6, <1>7

\* A client that the outgoing thread has seen is handled by the server thread
\* until it is gone.
LEMMA SeenStep ==
  ASSUME Inv, ClientInv, SeenInv, LostInv, [Next]_vars
  PROVE  SeenInv' /\ LostInv'
<1>1. /\ session \in 0 .. MaxSessions /\ seenSession \in 0 .. MaxSessions
      /\ \A l \in lost : l.session \in 0 .. MaxSessions
      /\ target \in Handles \cup {INVALID_SOCKET}
      /\ srv \in {"accept", "connected", "recv", "lockInbox", "push", "close"}
      /\ out \in {"check", "lockOutbox", "swap", "next", "send", "discard"}
  BY DEF Inv, NetTypes, ServerInv, ServerTypes, OutgoingInv, OutgoingTypes
<1>2. session <= session' /\ session' \in 0 .. MaxSessions
  BY <1>1, GoneStays, NextInv DEF Inv, NetTypes
<1>3. Departed(seenSession) => seenSession < session' \/ link' # "up"
  BY <1>1, GoneStays DEF SeenInv, Departed
<1>4. \A l \in lost : Departed(l.session) => l.session < session' \/ link' # "up"
  BY <1>1, GoneStays DEF SeenInv, Departed
<1>6. UNCHANGED lost => LostInv' /\ \A l \in lost' : l.session <= session'
  <2>1. \A l \in lost : l.session <= session'
    BY <1>1, <1>2 DEF SeenInv
  <2> QED
    BY <1>4, <2>1 DEF LostInv, Departed
<1>7. CASE UNCHANGED outgoingVars
  <2>1. UNCHANGED <<lost, seenSession, target, out>>
    BY <1>7 DEF outgoingVars
  <2>2. seenSession' <= session'
    BY <1>1, <1>2, <2>1 DEF SeenInv
  <2>3. CASE Departed(seenSession)
    BY <1>3, <1>6, <2>1, <2>2, <2>3 DEF SeenInv, Departed
  <2>4. CASE ~ Departed(seenSession) /\ UNCHANGED <<srv, currentClient>>
    BY <1>6, <2>1, <2>2, <2>4 DEF SeenInv, Departed
  <2>5. CASE ~ Departed(seenSession) /\ out # "check" /\ ~ UNCHANGED <<srv, currentClient>>
    <3>1. srv \in {"recv", "lockInbox", "push"} /\ link = "up"
      BY <2>5 DEF SeenInv, Departed
    <3>2. ReceiveCommand \/ LockInboxServer \/ PushCommand
      BY <2>5, <3>1 DEF Next, PeerCloses, ConnectionBreaks, Server, Accept,
         OnClientConnected, OnClientDisconnected, CloseSocket, Render, EnterEndScene, LockInboxRender,
         NoCommand, PopCommand, AnswerCommand, LeaveUnanswered, ProcessingThrows,
         LockOutboxRender, PushEvent, OriginalEndScene, Outgoing, CheckClient,
         LockOutboxOutgoing, SwapOutbox, BatchDone, SerializeFails, NoClient,
         SendingThrows, Discard, StartSend,
         SendSome, SendRest, SendFails, Drop, vars, netVars, serverVars
    <3>3. srv' \in {"recv", "lockInbox", "push"} /\ UNCHANGED netVars
      BY <3>2 DEF ReceiveCommand, LockInboxServer, PushCommand
    <3> QED
      BY <1>6, <2>1, <2>2, <3>3 DEF SeenInv, Departed, netVars
  <2>6. CASE out = "check"
    BY <1>6, <2>1, <2>2, <2>6 DEF SeenInv
  <2> QED
    BY <2>3, <2>4, <2>5, <2>6
<1>5. CASE Outgoing
  <2>1. UNCHANGED <<netVars, srv>>
    BY <1>5 DEF Outgoing, CheckClient, LockOutboxOutgoing, SwapOutbox, BatchDone,
       SerializeFails, NoClient, SendingThrows, Discard, StartSend, SendSome, SendRest, SendFails, Drop, serverVars
  <2>2. UNCHANGED <<session, link, currentClient, openSocket, srv>>
    BY <2>1 DEF netVars
  <2>3. currentClient # INVALID_SOCKET => srv \in {"recv", "lockInbox", "push"}
    BY <1>1 DEF ClientInv
  <2>4. CASE CheckClient
    BY <1>1, <1>6, <2>2, <2>3, <2>4 DEF CheckClient, SeenInv
  <2>5. CASE LockOutboxOutgoing \/ SwapOutbox \/ BatchDone \/ SendingThrows
             \/ SendSome \/ SendRest
    <3>1. UNCHANGED <<lost, seenSession, target>> /\ out # "check"
          /\ (out' = "send" => out = "send")
      BY <2>5 DEF LockOutboxOutgoing, SwapOutbox, BatchDone, SendingThrows, SendSome,
         SendRest
    <3> QED
      BY <1>6, <2>2, <3>1 DEF SeenInv, Departed
  <2>6. CASE StartSend
    BY <1>1, <1>6, <2>2, <2>3, <2>6 DEF StartSend, SeenInv
  <2>7. CASE SerializeFails \/ NoClient \/ Discard \/ SendFails
    <3>1. PICK cause \in Causes :
            Drop(cause) /\ (cause = "send" => NoClient \/ SendFails)
      BY <2>7 DEF SerializeFails, NoClient, Discard, SendFails, Causes
    <3> DEFINE d == [op |-> Head(batch).op, session |-> seenSession, cause |-> cause]
    <3>2. /\ lost' = lost \cup {d} /\ UNCHANGED seenSession
          /\ out # "check" /\ out' # "send"
      <4>1. lost' = lost \cup {d} /\ UNCHANGED seenSession
        BY <3>1 DEF Drop
      <4>2. out # "check" /\ out' # "send"
        BY <2>7 DEF SerializeFails, NoClient, Discard, SendFails
      <4> QED
        BY <4>1, <4>2
    <3>3. cause = "send" => Departed(seenSession)
      <4>1. CASE NoClient
        BY <4>1, HandlesAssumption DEF NoClient, SeenInv, ClientInv, Departed
      <4>2. CASE SendFails
        BY <4>2 DEF SendFails, Refused, SeenInv, ClientInv, Departed
      <4> QED
        BY <3>1, <4>1, <4>2
    <3>4. d.session = seenSession /\ d.cause = cause
      OBVIOUS
    <3> HIDE DEF d
    <3>5. LostInv'
      BY <2>2, <3>2, <3>3, <3>4 DEF LostInv, Departed
    <3>6. SeenInv'
      BY <2>2, <3>2, <3>4 DEF SeenInv, Departed
    <3> QED
      BY <3>5, <3>6
  <2> QED
    BY <1>5, <2>4, <2>5, <2>6, <2>7 DEF Outgoing
<1>8. CASE ~ Outgoing
  <2>1. UNCHANGED outgoingVars
    BY <1>8 DEF Next, PeerCloses, ConnectionBreaks, Server, Accept,
       OnClientConnected, ReceiveCommand, LockInboxServer, PushCommand,
       OnClientDisconnected, CloseSocket, Render, EnterEndScene, LockInboxRender, NoCommand, PopCommand,
       AnswerCommand, LeaveUnanswered, ProcessingThrows, LockOutboxRender, PushEvent,
       OriginalEndScene, vars
  <2> QED
    BY <1>7, <2>1
<1> QED
  BY <1>5, <1>8

\* Whatever the interleaving: an answer that send() did not take was meant for a
\* client that is leaving or has left, and sendData() holds a handle that is not
\* the open connection's, and may be that of a socket of the game, for such a
\* client's answer only.
THEOREM LostToDeparted == Spec => []LostOnlyToDepartedClient
<1>1. Init => ClientInv /\ SeenInv /\ LostInv
  BY DEF Init, ClientInv, SeenInv, LostInv
<1>2. /\ Inv /\ ClientInv /\ SeenInv /\ LostInv /\ [Next]_vars
      => ClientInv' /\ SeenInv' /\ LostInv'
  BY ClientStep, SeenStep
<1>3. ClientInv /\ SeenInv /\ LostInv => LostOnlyToDepartedClient
  BY DEF ClientInv, SeenInv, LostInv, LostOnlyToDepartedClient
<1> QED
  BY <1>1, <1>2, <1>3, InvCorrect, PTL DEF Spec

-----------------------------------------------------------------------------
(***************************************************************************)
(* Framing.                                                                *)
(***************************************************************************)
Live == link \in {"up", "closing"}

Fits(a, b) ==
  \/ a.op = b.op /\ b.piece = a.piece + 1
  \/ a.op < b.op /\ a.piece = Pieces /\ b.piece = 1

Last(q) == q[Len(q)]

\* On a live connection that was written to, sendData() uses the handle of that
\* connection, and the last thing written is the end of a frame or the part of
\* the current one that sendData() has counted.
StreamInv ==
  /\ Live => session >= 1
  /\ \A s \in 1 .. MaxSessions : s > session => stream[s] = <<>>
  /\ out # "send" => sentPieces = 0
  /\ Live /\ stream[session] # <<>> /\ out = "send" => target = openSocket
  /\ Live /\ stream[session] # <<>> =>
       IF sentPieces > 0
       THEN Last(stream[session]) = [op |-> Head(batch).op, piece |-> sentPieces]
       ELSE Last(stream[session]).piece = Pieces /\ Last(stream[session]).op \in sent

\* Sequences: consecutive elements of p \o q fit if those of p and of q do
\* and the last of p fits the first of q.
LEMMA FitsConcat ==
  ASSUME NEW p \in Seq(Piece), NEW q \in Seq(Piece), q # <<>>,
         \A i \in 1 .. Len(p) - 1 : Fits(p[i], p[i + 1]),
         \A i \in 1 .. Len(q) - 1 : Fits(q[i], q[i + 1]),
         p # <<>> => Fits(Last(p), q[1])
  PROVE  /\ p \o q \in Seq(Piece) /\ p \o q # <<>>
         /\ Last(p \o q) = Last(q)
         /\ \A i \in 1 .. Len(p \o q) - 1 : Fits((p \o q)[i], (p \o q)[i + 1])
<1> DEFINE r == p \o q
<1>1. /\ Len(p) \in Nat /\ Len(q) \in Nat \ {0}
      /\ p # <<>> <=> Len(p) # 0
      /\ r \in Seq(Piece)
      /\ Len(r) = Len(p) + Len(q)
      /\ \A i \in 1 .. Len(p) + Len(q) : r[i] = IF i <= Len(p) THEN p[i] ELSE q[i - Len(p)]
  BY ConcatProperties, LenProperties, EmptySeq
<1> HIDE DEF r
<1>2. r # <<>>
  BY <1>1
<1>3. Last(r) = Last(q)
  <2>1. Len(r) \in 1 .. Len(p) + Len(q) /\ ~ (Len(r) <= Len(p)) /\ Len(r) - Len(p) = Len(q)
    BY <1>1
  <2> QED
    BY <1>1, <2>1 DEF Last
<1>4. ASSUME NEW i \in 1 .. Len(r) - 1 PROVE Fits(r[i], r[i + 1])
  <2>1. i \in 1 .. Len(p) + Len(q) /\ i + 1 \in 1 .. Len(p) + Len(q)
    BY <1>1
  <2>2. CASE i + 1 <= Len(p)
    <3>1. r[i] = p[i] /\ r[i + 1] = p[i + 1] /\ i \in 1 .. Len(p) - 1
      BY <1>1, <2>1, <2>2
    <3> QED
      BY <3>1
  <2>3. CASE i = Len(p)
    <3>1. r[i] = Last(p) /\ r[i + 1] = q[1] /\ p # <<>>
      BY <1>1, <2>1, <2>3 DEF Last
    <3> QED
      BY <3>1
  <2>4. CASE i > Len(p)
    <3>1. r[i] = q[i - Len(p)] /\ r[i + 1] = q[i + 1 - Len(p)]
      BY <1>1, <2>1, <2>4
    <3>2. i - Len(p) \in 1 .. Len(q) - 1 /\ i + 1 - Len(p) = (i - Len(p)) + 1
      BY <1>1, <2>4
    <3> QED
      BY <3>1, <3>2
  <2> QED
    BY <1>1, <2>1, <2>2, <2>3, <2>4
<1> QED
  BY <1>1, <1>2, <1>3, <1>4 DEF r

\* What WritePieces(k) does to the stream of the current session, if sendData()
\* has its handle.
LEMMA WritePiecesFits ==
  ASSUME Inv, AnswersInOrder, StreamInv, FramesWholeInside,
         out = "send", CanSend, target = openSocket,
         NEW k \in 1 .. Pieces - sentPieces, WritePieces(k)
  PROVE  /\ FramesWholeInside'
         /\ \A s \in 1 .. MaxSessions : s # session => stream'[s] = stream[s]
         /\ stream'[session] # <<>>
         /\ Last(stream'[session]) = [op |-> Head(batch).op, piece |-> sentPieces + k]
<1> DEFINE op == Head(batch).op
           new == [i \in 1 .. k |-> [op |-> op, piece |-> sentPieces + i]]
           old == stream[session]
<1>1. /\ batch # <<>> /\ session \in 1 .. MaxSessions
      /\ sentPieces \in 0 .. Pieces - 1
      /\ stream \in [1 .. MaxSessions -> Seq(Piece)]
  BY BoundsAssumption DEF Inv, NetTypes, OutgoingInv, OutgoingTypes, StreamInv, CanSend, Live
<1>2. op \in Nat
  BY <1>1, BatchTyped DEF Event
<1>3. /\ new \in Seq(Piece) /\ Len(new) = k /\ new # <<>>
      /\ \A i \in 1 .. k : new[i] = [op |-> op, piece |-> sentPieces + i]
  <2>1. k \in Nat \ {0} /\ \A i \in 1 .. k : sentPieces + i \in 1 .. Pieces
    BY <1>1, PiecesAssumption
  <2>2. \A i \in 1 .. k : [op |-> op, piece |-> sentPieces + i] \in Piece
    BY <1>2, <2>1 DEF Piece
  <2> HIDE DEF op
  <2> QED
    BY <2>1, <2>2
<1>4. stream' = [stream EXCEPT ![session] = old \o new]
  BY DEF WritePieces, Write
<1>6. \A a \in sent : a < op
  <2>1. Events # <<>> /\ Head(Events) = Head(batch)
    <3>1. batch \in Seq(Event) /\ outbox \in Seq(Event) /\ answer \in Seq(Event)
      BY QueueTypes
    <3>2. Events = batch \o (outbox \o answer)
      BY <3>1, ConcatAssociative DEF Events
    <3>3. outbox \o answer \in Seq(Event)
      BY <3>1, ConcatProperties
    <3>4. Len(batch) \in Nat \ {0} /\ Len(outbox \o answer) \in Nat
      BY <1>1, <3>1, <3>3, LenProperties, EmptySeq
    <3>5. Len(Events) = Len(batch) + Len(outbox \o answer) /\ Events[1] = batch[1]
      BY <3>1, <3>2, <3>3, <3>4, ConcatProperties
    <3> QED
      BY <1>1, <3>1, <3>4, <3>5, QueueTypes, EmptySeq
  <2>2. 1 \in DOMAIN Events /\ Head(Events) = Events[1]
    BY <2>1, QueueTypes, LenProperties, EmptySeq
  <2> QED
    BY <2>1, <2>2 DEF AnswersInOrder
<1> HIDE DEF op, new
<1>7. old \in Seq(Piece) /\ \A i \in 1 .. Len(old) - 1 : Fits(old[i], old[i + 1])
  BY <1>1 DEF FramesWholeInside, Fits
<1>5. \A i \in 1 .. Len(new) - 1 : Fits(new[i], new[i + 1])
  BY <1>1, <1>3, PiecesAssumption DEF Fits
<1>8. old # <<>> => Fits(Last(old), new[1])
  <2> SUFFICES ASSUME old # <<>> PROVE Fits(Last(old), new[1])
    OBVIOUS
  <2>1. new[1].op = op /\ new[1].piece = sentPieces + 1
    BY <1>3
  <2>2. CASE sentPieces > 0
    BY <2>1, <2>2 DEF StreamInv, CanSend, Live, Fits, op
  <2>3. CASE sentPieces = 0
    BY <1>1, <1>6, <2>1, <2>3 DEF StreamInv, CanSend, Live, Fits
  <2> QED
    BY <1>1, <2>2, <2>3
<1>9. /\ old \o new # <<>> /\ Last(old \o new) = Last(new)
      /\ \A i \in 1 .. Len(old \o new) - 1 : Fits((old \o new)[i], (old \o new)[i + 1])
  BY <1>3, <1>7, <1>5, <1>8, FitsConcat
<1> HIDE DEF old
<1>10. /\ stream'[session] = old \o new
       /\ \A s \in 1 .. MaxSessions : s # session => stream'[s] = stream[s]
       /\ DOMAIN stream' = 1 .. MaxSessions
  BY <1>1, <1>4
<1>11. FramesWholeInside'
  <2> SUFFICES ASSUME NEW s \in 1 .. MaxSessions, NEW i \in 1 .. Len(stream'[s]) - 1
               PROVE  Fits(stream'[s][i], stream'[s][i + 1])
    BY <1>10 DEF FramesWholeInside, Fits
  <2>1. CASE s = session
    BY <1>9, <1>10, <2>1
  <2>2. CASE s # session
    BY <1>1, <1>10, <2>2 DEF FramesWholeInside, Fits
  <2> QED
    BY <2>1, <2>2
<1>12. Last(new) = [op |-> op, piece |-> sentPieces + k]
  BY <1>3 DEF Last
<1> QED
  BY <1>9, <1>10, <1>11, <1>12 DEF op


\* The connection decides: a new one has an empty stream, a dead one is not
\* written to.
LEMMA StreamStep ==
  ASSUME Inv, ClientInv, AnswersInOrder, StreamInv, FramesWholeInside, [Next]_vars
  PROVE  StreamInv' /\ FramesWholeInside'
<1>1. /\ session \in 0 .. MaxSessions /\ MaxSessions \in Nat
      /\ sentPieces \in 0 .. Pieces - 1 /\ Pieces \in Nat \ {0}
      /\ stream \in [1 .. MaxSessions -> Seq(Piece)]
      /\ out = "send" => batch # <<>>
  BY BoundsAssumption, PiecesAssumption DEF Inv, NetTypes, OutgoingInv, OutgoingTypes
<1>7. currentClient # INVALID_SOCKET => currentClient = openSocket
  BY DEF ClientInv, Inv, ServerInv, ServerTypes
<1>2. UNCHANGED stream => FramesWholeInside'
  BY DEF FramesWholeInside
<1>3. CASE UNCHANGED outgoingVars
  <2>1. UNCHANGED <<out, batch, target, sentPieces, sent, stream>>
    BY <1>3 DEF outgoingVars
  <2>2. CASE UNCHANGED <<session, link, openSocket>>
    BY <1>2, <2>1, <2>2 DEF StreamInv, Live
  <2>3. CASE PeerCloses \/ ConnectionBreaks
    BY <1>2, <2>1, <2>3 DEF StreamInv, Live, PeerCloses, ConnectionBreaks
  <2>4. CASE CloseSocket
    BY <1>2, <2>1, <2>4 DEF StreamInv, Live, CloseSocket
  <2>5. CASE Accept
    <3>1. session' = session + 1 /\ session' \in 1 .. MaxSessions
      BY <1>1, <2>5 DEF Accept
    <3>2. stream[session'] = <<>>
      BY <1>1, <3>1 DEF StreamInv
    <3> QED
      BY <1>1, <1>2, <2>1, <3>1, <3>2 DEF StreamInv, Live
  <2>6. \/ UNCHANGED <<session, link, openSocket>> \/ PeerCloses \/ ConnectionBreaks
        \/ CloseSocket \/ Accept
    BY DEF Next, Server, OnClientConnected, ReceiveCommand, LockInboxServer, PushCommand,
       OnClientDisconnected, Render,
       EnterEndScene, LockInboxRender, NoCommand, PopCommand, AnswerCommand,
       LeaveUnanswered, ProcessingThrows, LockOutboxRender, PushEvent, OriginalEndScene,
       Outgoing, CheckClient, LockOutboxOutgoing, SwapOutbox, BatchDone, SerializeFails,
       NoClient, SendingThrows, Discard, StartSend, SendSome, SendRest, SendFails, Drop, vars, netVars
  <2> QED
    BY <2>2, <2>3, <2>4, <2>5, <2>6
<1>4. CASE Outgoing
  <2>1. UNCHANGED <<session, link, openSocket>>
    BY <1>4 DEF Outgoing, CheckClient, LockOutboxOutgoing, SwapOutbox, BatchDone,
       SerializeFails, NoClient, SendingThrows, Discard, StartSend, SendSome, SendRest, SendFails, Drop, netVars
  <2>2. CASE CheckClient \/ LockOutboxOutgoing \/ SwapOutbox \/ BatchDone \/ SendingThrows
    <3>1. UNCHANGED <<stream, sentPieces, sent>> /\ out # "send" /\ out' # "send"
      BY <2>2 DEF CheckClient, LockOutboxOutgoing, SwapOutbox, BatchDone, SendingThrows
    <3> QED
      BY <1>2, <2>1, <3>1 DEF StreamInv, Live
  <2>3. CASE StartSend
    <3>1. UNCHANGED <<stream, sent>> /\ sentPieces' = 0 /\ sentPieces = 0
      BY <2>3 DEF StartSend, StreamInv
    <3>2. target' = openSocket
      BY <1>7, <2>3 DEF StartSend, ClientInv
    <3> QED
      BY <1>2, <2>1, <3>1, <3>2 DEF StreamInv, Live
  <2>4. CASE SerializeFails \/ NoClient \/ Discard
    <3>1. UNCHANGED <<stream, sent, sentPieces>> /\ out # "send" /\ out' # "send"
      BY <2>4 DEF SerializeFails, NoClient, Discard, Drop
    <3> QED
      BY <1>2, <2>1, <3>1 DEF StreamInv, Live
  <2>5. CASE SendFails
    <3>1. /\ UNCHANGED <<stream, sent>> /\ sentPieces' = 0
          /\ out = "send" /\ out' = "next" /\ Refused
      BY <2>5 DEF SendFails, Drop
    <3>2. ~ (Live /\ stream[session] # <<>>)
      BY <3>1 DEF StreamInv, Refused, Live
    <3> QED
      BY <1>2, <2>1, <3>1, <3>2 DEF StreamInv, Live
  <2>8. CASE target # openSocket /\ (SendSome \/ SendRest)
    <3>1. stream' = stream
      BY <2>8 DEF SendSome, SendRest, WritePieces, Write
    <3>2. out = "send"
      BY <2>8 DEF SendSome, SendRest
    <3>3. ~ (Live /\ stream[session] # <<>>)
      BY <2>8, <3>2 DEF StreamInv
    <3>4. out' # "send" => sentPieces' = 0
      BY <2>8 DEF SendSome, SendRest
    <3> QED
      BY <1>2, <2>1, <3>1, <3>3, <3>4 DEF StreamInv, Live
  <2>6. CASE target = openSocket /\ SendSome
    <3>1. out = "send" /\ CanSend /\ UNCHANGED <<out, batch, target, sent>>
      BY <2>6 DEF SendSome
    <3>2. PICK k \in 1 .. Pieces - 1 - sentPieces :
            WritePieces(k) /\ sentPieces' = sentPieces + k
      BY <2>6 DEF SendSome
    <3>3. k \in 1 .. Pieces - sentPieces
      BY <1>1
    <3>4. /\ FramesWholeInside'
          /\ \A s \in 1 .. MaxSessions : s # session => stream'[s] = stream[s]
          /\ Last(stream'[session]) = [op |-> Head(batch).op, piece |-> sentPieces + k]
      BY <2>6, <3>1, <3>2, <3>3, WritePiecesFits
    <3>5. sentPieces' > 0
      BY <1>1, <3>2
    <3>6. \A s \in 1 .. MaxSessions : s > session => stream'[s] = <<>>
      BY <1>1, <3>4 DEF StreamInv
    <3> QED
      BY <2>1, <2>6, <3>1, <3>2, <3>4, <3>5, <3>6 DEF StreamInv, Live
  <2>7. CASE target = openSocket /\ SendRest
    <3>1. /\ out = "send" /\ CanSend /\ out' = "next" /\ sentPieces' = 0
          /\ WritePieces(Pieces - sentPieces) /\ sent' = sent \cup {Head(batch).op}
      BY <2>7 DEF SendRest
    <3>2. Pieces - sentPieces \in 1 .. Pieces - sentPieces
          /\ sentPieces + (Pieces - sentPieces) = Pieces
      BY <1>1
    <3>3. /\ FramesWholeInside'
          /\ \A s \in 1 .. MaxSessions : s # session => stream'[s] = stream[s]
          /\ Last(stream'[session]) = [op |-> Head(batch).op, piece |-> Pieces]
      BY <2>7, <3>1, <3>2, WritePiecesFits
    <3>4. \A s \in 1 .. MaxSessions : s > session => stream'[s] = <<>>
      BY <1>1, <3>3 DEF StreamInv
    <3>5. /\ Last(stream'[session]).piece = Pieces
          /\ Last(stream'[session]).op \in sent'
      BY <3>1, <3>3
    <3> QED
      BY <2>1, <3>1, <3>3, <3>4, <3>5 DEF StreamInv, Live
  <2> QED
    BY <1>4, <2>2, <2>3, <2>4, <2>5, <2>6, <2>7, <2>8 DEF Outgoing
<1>6. CASE ~ Outgoing
  <2>1. UNCHANGED outgoingVars
    BY <1>6 DEF Next, PeerCloses, ConnectionBreaks, Server, Accept,
       OnClientConnected, ReceiveCommand, LockInboxServer, PushCommand,
       OnClientDisconnected, CloseSocket, Render, EnterEndScene, LockInboxRender, NoCommand, PopCommand,
       AnswerCommand, LeaveUnanswered, ProcessingThrows, LockOutboxRender, PushEvent,
       OriginalEndScene, vars
  <2> QED
    BY <1>3, <2>1
<1> QED
  BY <1>4, <1>6

\* Whatever send() takes at a time, and however handles are reused, a
\* connection carries whole frames one after the other, except that its first
\* may be the rest of a frame begun on an earlier connection, and its last may
\* be cut off.
THEOREM FramesWhole == Spec => []FramesWholeInside
<1>1. Init => ClientInv /\ StreamInv /\ FramesWholeInside
  <2> SUFFICES ASSUME Init PROVE ClientInv /\ StreamInv /\ FramesWholeInside
    OBVIOUS
  <2>1. \A s \in 1 .. MaxSessions : stream[s] = <<>>
    BY DEF Init
  <2>2. DOMAIN stream = 1 .. MaxSessions
    BY DEF Init
  <2>3. FramesWholeInside
    BY <2>1, <2>2 DEF FramesWholeInside
  <2>4. ClientInv /\ StreamInv
    BY <2>1 DEF Init, ClientInv, StreamInv, Live
  <2> QED
    BY <2>3, <2>4
<1>2. /\ Inv /\ ClientInv /\ AnswersInOrder /\ StreamInv /\ FramesWholeInside
      /\ [Next]_vars
      => ClientInv' /\ StreamInv' /\ FramesWholeInside'
  BY ClientStep, StreamStep
<1> QED
  BY <1>1, <1>2, InvCorrect, AccountedFor, PTL DEF Spec

\* Piece p was written to connection r.
WrittenTo(p, r) == \E i \in 1 .. Len(stream[r]) : stream[r][i] = p

\* Piece p was written to a connection before s, or to a socket of the game.
Elsewhere(p, s) == p \in strayed \/ \E r \in 1 .. s - 1 : WrittenTo(p, r)

\* What a controller reads first is the beginning of a frame, or the rest of a frame of
\* which every earlier piece was written elsewhere.
StreamsContinue ==
  \A s \in 1 .. MaxSessions :
    stream[s] # <<>> =>
      \A n \in 1 .. stream[s][1].piece - 1 :
        Elsewhere([op |-> stream[s][1].op, piece |-> n], s)

\* What sendData() has counted of the current frame has been written somewhere.
CountedInv ==
  \A n \in 1 .. sentPieces : Elsewhere([op |-> Head(batch).op, piece |-> n], session + 1)

\* What was written stays written.
Grows ==
  /\ strayed \subseteq strayed'
  /\ \A r \in 1 .. MaxSessions : \A p : WrittenTo(p, r) => WrittenTo(p, r)'

\* The first piece of a stream stays what it is; that of a new one is the next to be sent.
\* The k pieces that send() takes are written to the current connection, or elsewhere.
LEMMA WritePiecesFirst ==
  ASSUME Inv, StreamInv, out = "send", CanSend,
         NEW k \in 1 .. Pieces - sentPieces, WritePieces(k), NEW o, o = Head(batch).op
  PROVE  /\ Grows
         /\ \A s \in 1 .. MaxSessions :
              \/ stream'[s] = stream[s]
              \/ s = session /\ stream[s] # <<>> /\ stream'[s][1] = stream[s][1]
              \/ /\ s = session /\ stream[s] = <<>>
                 /\ stream'[s][1] = [op |-> o, piece |-> sentPieces + 1]
         /\ \A c \in sentPieces + 1 .. sentPieces + k :
              \/ [op |-> o, piece |-> c] \in strayed'
              \/ \E r \in 1 .. MaxSessions :
                   r = session /\ WrittenTo([op |-> o, piece |-> c], r)'
<1> DEFINE new == [i \in 1 .. k |-> [op |-> o, piece |-> sentPieces + i]]
<1>1. /\ batch # <<>> /\ session \in 0 .. MaxSessions /\ MaxSessions \in Nat
      /\ sentPieces \in 0 .. Pieces - 1
      /\ stream \in [1 .. MaxSessions -> Seq(Piece)]
  BY BoundsAssumption DEF Inv, NetTypes, OutgoingInv, OutgoingTypes
<1>2. o \in Nat
  BY <1>1, BatchTyped DEF Event
<1>3. /\ new \in Seq(Piece) /\ Len(new) = k /\ k \in Nat \ {0} /\ DOMAIN new = 1 .. k
      /\ \A i \in 1 .. k : new[i] = [op |-> o, piece |-> sentPieces + i]
  <2>1. k \in Nat \ {0} /\ \A i \in 1 .. k : sentPieces + i \in 1 .. Pieces
    BY <1>1, PiecesAssumption
  <2>2. \A i \in 1 .. k : [op |-> o, piece |-> sentPieces + i] \in Piece
    BY <1>2, <2>1 DEF Piece
  <2> QED
    BY <2>1, <2>2
<1>4. Write(new)
  BY DEF WritePieces
<1> HIDE DEF new
<1>5. ASSUME NEW c \in sentPieces + 1 .. sentPieces + k
      PROVE  \E i \in 1 .. k : new[i] = [op |-> o, piece |-> c]
  <2>1. c - sentPieces \in 1 .. k /\ sentPieces + (c - sentPieces) = c
    BY <1>1, <1>3
  <2> QED
    BY <1>3, <2>1
<1>6. CASE target # openSocket
  <2>1. stream' = stream /\ strayed' = strayed \cup {new[i] : i \in 1 .. k}
    BY <1>3, <1>4, <1>6 DEF Write
  <2>2. Grows
    BY <2>1 DEF Grows, WrittenTo
  <2>3. \A c \in sentPieces + 1 .. sentPieces + k : [op |-> o, piece |-> c] \in strayed'
    BY <1>5, <2>1
  <2> QED
    BY <2>1, <2>2, <2>3
<1>7. CASE target = openSocket
  <2> DEFINE old == stream[session]
  <2>1. session \in 1 .. MaxSessions
    BY <1>1, <1>7 DEF StreamInv, CanSend, Live
  <2>2. /\ stream'[session] = old \o new
        /\ \A s \in 1 .. MaxSessions : s # session => stream'[s] = stream[s]
        /\ strayed' = strayed
    BY <1>1, <1>4, <1>7, <2>1 DEF Write
  <2>3. old \in Seq(Piece)
    BY <1>1, <2>1
  <2> HIDE DEF old
  <2>4. /\ Len(old) \in Nat /\ (old = <<>> <=> Len(old) = 0)
        /\ Len(old \o new) = Len(old) + k
        /\ \A i \in 1 .. Len(old) + k :
             (old \o new)[i] = IF i <= Len(old) THEN old[i] ELSE new[i - Len(old)]
    <3>1. ASSUME NEW m \in Seq(Piece), NEW l \in Nat, Len(m) = l
          PROVE  /\ Len(old \o m) = Len(old) + l
                 /\ \A i \in 1 .. Len(old) + l :
                      (old \o m)[i] = IF i <= Len(old) THEN old[i] ELSE m[i - Len(old)]
      BY <2>3, <3>1, ConcatProperties
    <3>2. Len(old) \in Nat /\ (old = <<>> <=> Len(old) = 0)
      BY <2>3, EmptySeq, LenProperties
    <3>3. new \in Seq(Piece) /\ k \in Nat /\ Len(new) = k
      BY <1>3
    <3> QED
      BY <3>1, <3>2, <3>3, Zenon
  <2>5. /\ \A i \in 1 .. Len(old) : i \in 1 .. Len(old \o new) /\ (old \o new)[i] = old[i]
        /\ \A i \in 1 .. k : /\ Len(old) + i \in 1 .. Len(old \o new)
                             /\ (old \o new)[Len(old) + i] = new[i]
    BY <1>3, <2>4
  <2>6. ASSUME NEW r \in 1 .. MaxSessions, NEW p, WrittenTo(p, r)
        PROVE  WrittenTo(p, r)'
    <3>1. CASE r = session
      BY <2>2, <2>5, <2>6, <3>1 DEF WrittenTo, old
    <3>2. CASE r # session
      BY <2>2, <2>6, <3>2 DEF WrittenTo
    <3> QED
      BY <3>1, <3>2
  <2>7. Grows
    BY <2>2, <2>6 DEF Grows
  <2>8. ASSUME NEW c \in sentPieces + 1 .. sentPieces + k, NEW r, r = session
        PROVE  WrittenTo([op |-> o, piece |-> c], r)'
    <3>1. PICK i \in 1 .. k : new[i] = [op |-> o, piece |-> c]
      BY <1>5
    <3> QED
      BY <2>2, <2>5, <2>8, <3>1 DEF WrittenTo
  <2>9. /\ old # <<>> => (old \o new)[1] = old[1]
        /\ old = <<>> => (old \o new)[1] = new[1] /\ new[1] = [op |-> o, piece |-> sentPieces + 1]
    BY <1>3, <2>4
  <2> QED
    BY <2>1, <2>2, <2>7, <2>8, <2>9 DEF old
<1> QED
  BY <1>6, <1>7

\* What was elsewhere stays elsewhere, and seen from a later connection too.
LEMMA ElsewhereStays ==
  ASSUME Grows, NEW s \in 1 .. MaxSessions + 1, NEW t \in 1 .. MaxSessions + 1, s <= t,
         MaxSessions \in Nat, NEW p, Elsewhere(p, s)
  PROVE  Elsewhere(p, t)'
<1>1. CASE p \in strayed
  BY <1>1 DEF Grows, Elsewhere
<1>2. ASSUME NEW r \in 1 .. s - 1, WrittenTo(p, r) PROVE Elsewhere(p, t)'
  <2>1. r \in 1 .. MaxSessions /\ r \in 1 .. t - 1
    OBVIOUS
  <2>2. WrittenTo(p, r)'
    BY <1>2, <2>1 DEF Grows
  <2> QED
    BY <2>1, <2>2 DEF Elsewhere
<1> QED
  BY <1>1, <1>2 DEF Elsewhere

\* However many pieces send() takes, and wherever they go, what it writes first to a
\* connection goes on from what was written elsewhere.
LEMMA WriteContinues ==
  ASSUME Inv, StreamInv, CountedInv, StreamsContinue, out = "send", CanSend,
         NEW k \in 1 .. Pieces - sentPieces, WritePieces(k)
  PROVE  StreamsContinue'
<1>1. /\ session \in 0 .. MaxSessions /\ MaxSessions \in Nat /\ sentPieces \in Nat
  BY BoundsAssumption, PiecesAssumption DEF Inv, NetTypes, OutgoingInv, OutgoingTypes
<1>2. PICK o : o = Head(batch).op
  OBVIOUS
<1>3. Grows
  BY <1>2, WritePiecesFirst
<1> SUFFICES ASSUME NEW s \in 1 .. MaxSessions, stream'[s] # <<>>, NEW a, a = stream'[s][1].op,
                    NEW n \in 1 .. stream'[s][1].piece - 1
             PROVE  Elsewhere([op |-> a, piece |-> n], s)'
  BY DEF StreamsContinue, Elsewhere, WrittenTo
<1>4. \/ stream[s] # <<>> /\ stream'[s][1] = stream[s][1]
      \/ s = session /\ stream[s] = <<>> /\ stream'[s][1] = [op |-> o, piece |-> sentPieces + 1]
  BY <1>2, WritePiecesFirst
<1>5. CASE stream[s] # <<>> /\ stream'[s][1] = stream[s][1]
  <2>1. Elsewhere([op |-> a, piece |-> n], s)
    BY <1>5 DEF StreamsContinue
  <2>2. s \in 1 .. MaxSessions + 1 /\ s <= s
    BY <1>1
  <2> QED
    BY <1>1, <1>3, <2>1, <2>2, ElsewhereStays
<1>6. CASE s = session /\ stream[s] = <<>> /\ stream'[s][1] = [op |-> o, piece |-> sentPieces + 1]
  <2>1. a = o /\ n \in 1 .. sentPieces
    BY <1>1, <1>6
  <2>2. Elsewhere([op |-> a, piece |-> n], session + 1)
    BY <1>2, <2>1 DEF CountedInv
  <2>3. \A p : ~ WrittenTo(p, session)
    BY <1>6 DEF WrittenTo
  <2>4. \A r \in 1 .. (session + 1) - 1 : r = session \/ r \in 1 .. s - 1
    BY <1>1, <1>6
  <2>5. Elsewhere([op |-> a, piece |-> n], s)
    BY <2>2, <2>3, <2>4 DEF Elsewhere
  <2>6. s \in 1 .. MaxSessions + 1 /\ s <= s
    BY <1>1
  <2> QED
    BY <1>1, <1>3, <2>5, <2>6, ElsewhereStays
<1> QED
  BY <1>4, <1>5, <1>6

\* sendData() counts what it has written, and forgets it with the handle.
LEMMA CountedStep ==
  ASSUME Inv, StreamInv, CountedInv, StreamsContinue, [Next]_vars
  PROVE  CountedInv' /\ StreamsContinue'
<1>1. /\ session \in 0 .. MaxSessions /\ MaxSessions \in Nat
      /\ sentPieces \in 0 .. Pieces - 1 /\ Pieces \in Nat \ {0}
  BY BoundsAssumption, PiecesAssumption DEF Inv, NetTypes, OutgoingInv, OutgoingTypes
<1>2. ASSUME UNCHANGED <<stream, strayed>> PROVE StreamsContinue'
  BY <1>2 DEF StreamsContinue, Elsewhere, WrittenTo
<1>3. CASE UNCHANGED outgoingVars
  <2>1. UNCHANGED <<batch, sentPieces, stream, strayed>>
    BY <1>3 DEF outgoingVars
  <2>2. session \in Nat /\ session' \in Nat /\ session <= session'
    <3>1. UNCHANGED session \/ Accept
      BY DEF Next, PeerCloses, ConnectionBreaks, Server, OnClientConnected, ReceiveCommand,
         LockInboxServer, PushCommand, OnClientDisconnected, CloseSocket, Render,
         EnterEndScene, LockInboxRender, NoCommand, PopCommand, AnswerCommand,
         LeaveUnanswered, ProcessingThrows, LockOutboxRender, PushEvent, OriginalEndScene,
         Outgoing, CheckClient, LockOutboxOutgoing, SwapOutbox, BatchDone, SerializeFails,
         NoClient, SendingThrows, Discard, StartSend, SendSome, SendRest, SendFails, Drop,
         vars, netVars
    <3> QED
      BY <1>1, <3>1 DEF Accept
  <2>3. \A r \in 1 .. (session + 1) - 1 : r \in 1 .. (session' + 1) - 1
    <3>1. PICK a \in Nat : a = session
      BY <2>2
    <3>2. PICK b \in Nat : b = session'
      BY <2>2
    <3>3. a <= b
      BY <2>2, <3>1, <3>2
    <3>4. \A r \in 1 .. (a + 1) - 1 : r \in 1 .. (b + 1) - 1
      BY <3>3
    <3> QED
      BY <3>1, <3>2, <3>4
  <2>4. CountedInv'
    <3> SUFFICES ASSUME NEW n \in 1 .. sentPieces
                 PROVE  Elsewhere([op |-> Head(batch).op, piece |-> n], session + 1)'
      BY <2>1 DEF CountedInv
    <3>1. Elsewhere([op |-> Head(batch).op, piece |-> n], session + 1)
      BY DEF CountedInv
    <3> QED
      BY <2>1, <2>3, <3>1 DEF Elsewhere, WrittenTo
  <2> QED
    BY <1>2, <2>1, <2>4
<1>4. ASSUME sentPieces' = 0 PROVE CountedInv'
  BY <1>4 DEF CountedInv
<1>5. CASE CheckClient \/ LockOutboxOutgoing \/ SwapOutbox \/ BatchDone \/ SendingThrows
           \/ SerializeFails \/ NoClient \/ Discard
  <2>1. UNCHANGED <<stream, strayed, sentPieces>> /\ out # "send"
    BY <1>5 DEF CheckClient, LockOutboxOutgoing, SwapOutbox, BatchDone, SendingThrows,
       SerializeFails, NoClient, Discard, Drop
  <2> QED
    BY <1>2, <1>4, <2>1 DEF StreamInv
<1>6. CASE StartSend \/ SendFails
  <2>1. UNCHANGED <<stream, strayed>> /\ sentPieces' = 0
    BY <1>6 DEF StartSend, SendFails, Drop
  <2> QED
    BY <1>2, <1>4, <2>1
<1>7. CASE SendSome
  <2>1. out = "send" /\ CanSend /\ UNCHANGED <<batch, session>>
    BY <1>7 DEF SendSome, netVars
  <2>2. PICK k \in 1 .. Pieces - 1 - sentPieces :
          WritePieces(k) /\ sentPieces' = sentPieces + k
    BY <1>7 DEF SendSome
  <2>3. k \in 1 .. Pieces - sentPieces /\ k \in Nat
    BY <1>1
  <2>4. PICK o : o = Head(batch).op
    OBVIOUS
  <2>5. StreamsContinue'
    BY <2>1, <2>2, <2>3, WriteContinues
  <2>6. /\ Grows
        /\ \A c \in sentPieces + 1 .. sentPieces + k :
             \/ [op |-> o, piece |-> c] \in strayed'
             \/ \E r \in 1 .. MaxSessions :
                  r = session /\ WrittenTo([op |-> o, piece |-> c], r)'
    BY <2>1, <2>2, <2>3, <2>4, WritePiecesFirst
  <2>7. ASSUME NEW n \in 1 .. sentPieces + k
        PROVE  Elsewhere([op |-> o, piece |-> n], session + 1)'
    <3>1. CASE n \in 1 .. sentPieces
      <4>1. Elsewhere([op |-> o, piece |-> n], session + 1)
        BY <2>4, <3>1 DEF CountedInv
      <4>2. PICK t : t = session + 1
        OBVIOUS
      <4>3. t \in 1 .. MaxSessions + 1 /\ t <= t
        BY <1>1, <4>2
      <4>4. Elsewhere([op |-> o, piece |-> n], t)'
        BY <1>1, <2>6, <4>1, <4>2, <4>3, ElsewhereStays
      <4> QED
        BY <2>1, <4>2, <4>4 DEF Elsewhere, WrittenTo
    <3>2. CASE n \notin 1 .. sentPieces
      <4>1. n \in sentPieces + 1 .. sentPieces + k
        BY <1>1, <2>3, <3>2
      <4>2. CASE [op |-> o, piece |-> n] \in strayed'
        BY <4>2 DEF Elsewhere
      <4>3. ASSUME NEW r \in 1 .. MaxSessions, r = session,
                   WrittenTo([op |-> o, piece |-> n], r)'
            PROVE  Elsewhere([op |-> o, piece |-> n], session + 1)'
        <5>1. r \in 1 .. (session' + 1) - 1
          BY <1>1, <2>1, <4>3
        <5> QED
          BY <4>3, <5>1 DEF Elsewhere
      <4> QED
        BY <2>6, <4>1, <4>2, <4>3
    <3> QED
      BY <3>1, <3>2
  <2>8. CountedInv'
    BY <2>1, <2>2, <2>4, <2>7 DEF CountedInv, Elsewhere, WrittenTo
  <2> QED
    BY <2>5, <2>8
<1>8. CASE SendRest
  <2>1. /\ out = "send" /\ CanSend /\ sentPieces' = 0 /\ WritePieces(Pieces - sentPieces)
    BY <1>8 DEF SendRest
  <2>2. Pieces - sentPieces \in 1 .. Pieces - sentPieces
    BY <1>1
  <2>3. StreamsContinue'
    BY <2>1, <2>2, WriteContinues
  <2> QED
    BY <1>4, <2>1, <2>3
<1>9. CASE ~ Outgoing
  <2>1. UNCHANGED outgoingVars
    BY <1>9 DEF Next, PeerCloses, ConnectionBreaks, Server, Accept,
       OnClientConnected, ReceiveCommand, LockInboxServer, PushCommand,
       OnClientDisconnected, CloseSocket, Render, EnterEndScene, LockInboxRender,
       NoCommand, PopCommand, AnswerCommand, LeaveUnanswered, ProcessingThrows,
       LockOutboxRender, PushEvent, OriginalEndScene, vars
  <2> QED
    BY <1>3, <2>1
<1> QED
  BY <1>5, <1>6, <1>7, <1>8, <1>9 DEF Outgoing

\* The framing that StreamsStartWithPrefix finds broken is broken in one way only: what a
\* controller reads before its first length prefix is the rest of one frame, and every
\* earlier piece of that frame went to an earlier connection or to a socket of the game,
\* which had the handle while no connection of the agent had it.
THEOREM StreamsGoOn == Spec => []StreamsContinue
<1>1. Init => ClientInv /\ StreamInv /\ FramesWholeInside /\ CountedInv /\ StreamsContinue
  <2> SUFFICES ASSUME Init
               PROVE  /\ ClientInv /\ StreamInv /\ FramesWholeInside
                      /\ CountedInv /\ StreamsContinue
    OBVIOUS
  <2>1. \A s \in 1 .. MaxSessions : stream[s] = <<>>
    BY DEF Init
  <2>2. DOMAIN stream = 1 .. MaxSessions
    BY DEF Init
  <2>3. FramesWholeInside
    BY <2>1, <2>2 DEF FramesWholeInside
  <2>4. ClientInv /\ StreamInv
    BY <2>1 DEF Init, ClientInv, StreamInv, Live
  <2>5. CountedInv /\ StreamsContinue
    BY <2>1 DEF Init, CountedInv, StreamsContinue
  <2> QED
    BY <2>3, <2>4, <2>5
<1>2. /\ Inv /\ ClientInv /\ AnswersInOrder /\ StreamInv /\ FramesWholeInside
      /\ CountedInv /\ StreamsContinue /\ [Next]_vars
      => /\ ClientInv' /\ StreamInv' /\ FramesWholeInside'
         /\ CountedInv' /\ StreamsContinue'
  BY ClientStep, StreamStep, CountedStep
<1> QED
  BY <1>1, <1>2, InvCorrect, AccountedFor, PTL DEF Spec

-----------------------------------------------------------------------------
(***************************************************************************)
(* The two mutexes.                                                        *)
(***************************************************************************)
\* Who holds a mutex is inside what it protects: a push, a swap, or a whole frame of the
\* render thread.  Two threads are never inside together.
HolderInside ==
  /\ inboxMutex = "server" <=> srv = "push"
  /\ inboxMutex = "render" <=> rnd \notin {"idle", "lockInbox"}
  /\ outboxMutex = "render" <=> rnd = "push"
  /\ outboxMutex = "outgoing" <=> out = "swap"

LEMMA MutexServerStep ==
  ASSUME Inv, HolderInside, Server
  PROVE  HolderInside'
<1>1. UNCHANGED <<rnd, out, outboxMutex>>
  BY DEF Server, Accept, OnClientConnected, ReceiveCommand, LockInboxServer, PushCommand,
     OnClientDisconnected, CloseSocket, renderVars, outboxVars, outgoingVars
<1>2. CASE LockInboxServer
  BY <1>1, <1>2 DEF LockInboxServer, HolderInside
<1>3. CASE PushCommand
  BY <1>1, <1>3 DEF PushCommand, HolderInside
<1>4. CASE Accept \/ OnClientConnected \/ ReceiveCommand \/ OnClientDisconnected \/ CloseSocket
  <2>1. inboxMutex' = inboxMutex /\ srv # "push" /\ srv' # "push"
    BY <1>4 DEF Accept, OnClientConnected, ReceiveCommand, OnClientDisconnected, CloseSocket,
       inboxVars
  <2> QED
    BY <1>1, <2>1 DEF HolderInside
<1> QED
  BY <1>2, <1>3, <1>4 DEF Server

LEMMA MutexRenderStep ==
  ASSUME Inv, HolderInside, Render
  PROVE  HolderInside'
<1>1. srv' = srv /\ out' = out
  BY DEF Render, EnterEndScene, LockInboxRender, NoCommand, PopCommand, AnswerCommand, LeaveUnanswered,
     ProcessingThrows, LockOutboxRender, PushEvent, OriginalEndScene, serverVars, outgoingVars
<1>2. CASE LockInboxRender
  BY <1>1, <1>2 DEF LockInboxRender, outboxVars, HolderInside
<1>7. CASE EnterEndScene
  BY <1>1, <1>7 DEF EnterEndScene, inboxVars, outboxVars, HolderInside
<1>3. CASE LockOutboxRender
  BY <1>1, <1>3 DEF LockOutboxRender, inboxVars, HolderInside
<1>4. CASE PushEvent
  BY <1>1, <1>4 DEF PushEvent, inboxVars, HolderInside
<1>5. CASE OriginalEndScene
  BY <1>1, <1>5 DEF OriginalEndScene, outboxVars, HolderInside
<1>6. CASE NoCommand \/ PopCommand \/ AnswerCommand \/ LeaveUnanswered \/ ProcessingThrows
  <2>1. /\ UNCHANGED <<inboxMutex, outboxMutex>>
        /\ rnd \notin {"idle", "lockInbox", "push"} /\ rnd' \notin {"idle", "lockInbox", "push"}
    BY <1>6 DEF NoCommand, PopCommand, AnswerCommand, LeaveUnanswered, ProcessingThrows,
       inboxVars, outboxVars
  <2> QED
    BY <1>1, <2>1 DEF HolderInside
<1> QED
  BY <1>2, <1>3, <1>4, <1>5, <1>6, <1>7 DEF Render

LEMMA MutexOutgoingStep ==
  ASSUME Inv, HolderInside, Outgoing
  PROVE  HolderInside'
<1>1. UNCHANGED <<srv, rnd, inboxMutex>>
  BY DEF Outgoing, CheckClient, LockOutboxOutgoing, SwapOutbox, BatchDone, SerializeFails,
     NoClient, SendingThrows, Discard, StartSend, SendSome, SendRest, SendFails, Drop,
     serverVars, renderVars, inboxVars
<1>2. CASE LockOutboxOutgoing
  BY <1>1, <1>2 DEF LockOutboxOutgoing, HolderInside
<1>3. CASE SwapOutbox
  BY <1>1, <1>3 DEF SwapOutbox, HolderInside
<1>4. CASE ~ LockOutboxOutgoing /\ ~ SwapOutbox
  <2>1. outboxMutex' = outboxMutex /\ out # "swap" /\ out' # "swap"
    BY <1>4 DEF Outgoing, CheckClient, BatchDone, SerializeFails, NoClient, SendingThrows,
       Discard, StartSend, SendSome, SendRest, SendFails, Drop, outboxVars
  <2> QED
    BY <1>1, <2>1 DEF HolderInside
<1> QED
  BY <1>2, <1>3, <1>4

\* No frame, push or swap meets another one that uses the same queue.
THEOREM MutualExclusion == Spec => []HolderInside
<1>1. Init => HolderInside
  BY DEF Init, HolderInside
<1>2. Inv /\ HolderInside /\ [Next]_vars => HolderInside'
  <2> SUFFICES ASSUME Inv, HolderInside, [Next]_vars PROVE HolderInside'
    OBVIOUS
  <2>1. CASE PeerCloses \/ ConnectionBreaks \/ UNCHANGED vars
    BY <2>1 DEF PeerCloses, ConnectionBreaks, vars, serverVars, inboxVars, renderVars,
       outboxVars, outgoingVars, HolderInside
  <2> QED
    BY <2>1, MutexServerStep, MutexRenderStep, MutexOutgoingStep DEF Next
<1> QED
  BY <1>1, <1>2, InvCorrect, PTL DEF Spec

Threads == {"server", "render", "outgoing"}

\* t waits for a mutex that u holds.
WaitsFor(t, u) ==
  \/ t = "server" /\ srv = "lockInbox" /\ inboxMutex = u
  \/ t = "render" /\ rnd = "lockInbox" /\ inboxMutex = u
  \/ t = "render" /\ rnd = "lockOutbox" /\ outboxMutex = u
  \/ t = "outgoing" /\ out = "lockOutbox" /\ outboxMutex = u

\* The threads can be ordered so that each waits for a later one only.
NoCircularWait ==
  \E rank \in [Threads -> 0 .. 2] :
    \A t, u \in Threads : WaitsFor(t, u) => rank[u] < rank[t]

\* The render thread takes the outbox mutex while it holds the inbox mutex, and still the
\* threads never wait for each other in a circle: the outgoing thread holds its mutex for
\* the swap alone and takes no other, and the server thread never takes the outbox's.
THEOREM NoDeadlock == Spec => []NoCircularWait
<1>1. ASSUME Inv, HolderInside PROVE NoCircularWait
  <2>1. \A t, u \in Threads : WaitsFor(t, u) =>
          \/ t = "server" /\ u = "render" /\ srv = "lockInbox"
          \/ t = "render" /\ u = "server" /\ srv = "push" /\ rnd = "lockInbox"
          \/ t = "render" /\ u = "outgoing" /\ rnd = "lockOutbox"
          \/ t = "outgoing" /\ u = "render" /\ rnd = "push"
    <3> SUFFICES ASSUME NEW t \in Threads, NEW u \in Threads, WaitsFor(t, u)
                 PROVE  \/ t = "server" /\ u = "render" /\ srv = "lockInbox"
                        \/ t = "render" /\ u = "server" /\ srv = "push" /\ rnd = "lockInbox"
                        \/ t = "render" /\ u = "outgoing" /\ rnd = "lockOutbox"
                        \/ t = "outgoing" /\ u = "render" /\ rnd = "push"
      OBVIOUS
    <3>1. u \in {"server", "render", "outgoing"}
      BY DEF Threads
    <3>2. inboxMutex \in {"free", "server", "render"} /\ outboxMutex \in {"free", "render", "outgoing"}
      BY <1>1 DEF Inv, InboxTypes, OutboxTypes
    <3>3. CASE t = "server" /\ srv = "lockInbox" /\ inboxMutex = u
      BY <1>1, <3>1, <3>2, <3>3 DEF HolderInside
    <3>4. CASE t = "render" /\ rnd = "lockInbox" /\ inboxMutex = u
      BY <1>1, <3>1, <3>2, <3>4 DEF HolderInside
    <3>5. CASE t = "render" /\ rnd = "lockOutbox" /\ outboxMutex = u
      BY <1>1, <3>1, <3>2, <3>5 DEF HolderInside
    <3>6. CASE t = "outgoing" /\ out = "lockOutbox" /\ outboxMutex = u
      BY <1>1, <3>1, <3>2, <3>6 DEF HolderInside
    <3> QED
      BY <3>3, <3>4, <3>5, <3>6 DEF WaitsFor
  <2>2. CASE srv = "push"
    <3> DEFINE rank == [t \in Threads |-> IF t = "server" THEN 0 ELSE IF t = "render" THEN 1 ELSE 2]
    <3>1. rank \in [Threads -> 0 .. 2]
      BY DEF Threads
    <3>2. rank["server"] = 0 /\ rank["render"] = 1 /\ rank["outgoing"] = 2
      BY DEF Threads
    <3> HIDE DEF rank
    <3>3. rnd \in {"idle", "lockInbox"}
      BY <1>1, <2>2 DEF HolderInside
    <3>4. ASSUME NEW t \in Threads, NEW u \in Threads, WaitsFor(t, u)
          PROVE  rank[u] < rank[t]
      <4>1. t = "render" /\ u = "server"
        BY <2>1, <2>2, <3>3, <3>4
      <4> QED
        BY <3>2, <4>1
    <3> QED
      BY <3>1, <3>4 DEF NoCircularWait
  <2>3. CASE srv # "push" /\ rnd = "push"
    <3> DEFINE rank == [t \in Threads |-> IF t = "render" THEN 0 ELSE IF t = "server" THEN 1 ELSE 2]
    <3>1. rank \in [Threads -> 0 .. 2]
      BY DEF Threads
    <3>2. rank["server"] = 1 /\ rank["render"] = 0 /\ rank["outgoing"] = 2
      BY DEF Threads
    <3> HIDE DEF rank
    <3>3. ASSUME NEW t \in Threads, NEW u \in Threads, WaitsFor(t, u)
          PROVE  rank[u] < rank[t]
      <4>1. t \in {"server", "outgoing"} /\ u = "render"
        BY <2>1, <2>3, <3>3
      <4> QED
        BY <3>2, <4>1
    <3> QED
      BY <3>1, <3>3 DEF NoCircularWait
  <2>4. CASE srv # "push" /\ rnd # "push"
    <3> DEFINE rank == [t \in Threads |-> IF t = "outgoing" THEN 0 ELSE IF t = "render" THEN 1 ELSE 2]
    <3>1. rank \in [Threads -> 0 .. 2]
      BY DEF Threads
    <3>2. rank["server"] = 2 /\ rank["render"] = 1 /\ rank["outgoing"] = 0
      BY DEF Threads
    <3> HIDE DEF rank
    <3>3. ASSUME NEW t \in Threads, NEW u \in Threads, WaitsFor(t, u)
          PROVE  rank[u] < rank[t]
      <4>1. (t = "server" /\ u = "render") \/ (t = "render" /\ u = "outgoing")
        BY <2>1, <2>4, <3>3, Zenon
      <4>2. CASE t = "server" /\ u = "render"
        BY <3>2, <4>2
      <4>3. CASE t = "render" /\ u = "outgoing"
        BY <3>2, <4>3
      <4> QED
        BY <4>1, <4>2, <4>3
    <3> QED
      BY <3>1, <3>3 DEF NoCircularWait
  <2> QED
    BY <2>2, <2>3, <2>4
<1> QED
  BY <1>1, InvCorrect, MutualExclusion, PTL

=============================================================================
