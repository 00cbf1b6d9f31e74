------------------------------ MODULE Framing ------------------------------
(***************************************************************************)
(* The bytes below CommandPipeline's frames: encodeMessage(), extractFrame *)
(* (ProtocolHandler.cpp) and NetworkManager's receive buffer.  A           *)
(* controller writes frames, TCP delivers their bytes cut anywhere, and    *)
(* onDataReceived() appends what recv() returned and takes out every       *)
(* frame that is complete.  Everything on the receiving side happens on    *)
(* the server thread, one connection after the other; the controller       *)
(* encodes with the agent's own encodeMessage().                           *)
(*                                                                         *)
(* A byte is a digit below Radix and a word has PrefixLength digits: 256   *)
(* and 4 in the program, where size_t and uint32_t are both 32 bits wide.  *)
(* Sums of words wrap.                                                     *)
(*                                                                         *)
(* A definition introduced as "Mistake" is a mutation of the one after it. *)
(* No specification uses it; it shows what breaks a property (README).     *)
(***************************************************************************)
EXTENDS Integers, Sequences, SequencesExt

CONSTANTS
  Radix,             \* 256
  Payloads,          \* what a controller puts into a frame
  MaxFrames,         \* bound: frames of a connection
  MaxConnections     \* bound: connections

PrefixLength == 4

\* What a byte of the prefix counts, most significant first.
Place == <<Radix * Radix * Radix, Radix * Radix, Radix, 1>>

Word == Radix * Place[1]

Bytes == 0 .. Radix - 1

\* std::string::max_size() on a 32-bit target.
MaxSize == (Word \div 2) - 1

ASSUME RadixAssumption == Radix \in Nat \ {0, 1}
ASSUME PayloadsAssumption ==
  \A p \in Payloads : p \in Seq(Bytes) /\ Len(p) <= MaxSize - PrefixLength
ASSUME BoundsAssumption == MaxFrames \in Nat /\ MaxConnections \in Nat

VARIABLES
  running,           \* NetworkManager::m_running
  server,            \* where the server thread is
  buffer,            \* NetworkManager::m_receiveBuffer
  frames,            \* handed to onMessageReceived() on this connection
  (*************************************************************************)
  (* The connection and history.                                           *)
  (*************************************************************************)
  wire,              \* bytes written and not received
  sent,              \* payloads written on this connection
  announced,         \* the length of a frame that will never be complete, or -1
  connections,       \* connections accepted
  dropped            \* received bytes of this connection were thrown away

wireVars == <<wire, sent, announced>>
vars == <<running, server, buffer, frames, wireVars, connections, dropped>>

TypeOK ==
  /\ running \in BOOLEAN
  /\ server \in {"accept", "recv", "extract", "thrown"}
  /\ buffer \in Seq(Bytes)
  /\ frames \in Seq(Seq(Bytes))
  /\ wire \in Seq(Bytes)
  /\ sent \in Seq(Payloads)
  /\ announced \in -1 .. Word - 1
  /\ connections \in 0 .. MaxConnections
  /\ dropped \in BOOLEAN

\* startServer() is in TcpServer::start(), its thread accepts already.
Init ==
  /\ running = FALSE
  /\ server = "accept"
  /\ buffer = <<>> /\ frames = <<>>
  /\ wire = <<>> /\ sent = <<>> /\ announced = -1
  /\ connections = 0 /\ dropped = FALSE

-----------------------------------------------------------------------------
(***************************************************************************)
(* ProtocolHandler.                                                        *)
(***************************************************************************)
\* Mistake: a byte takes the whole quotient.
PrefixUnmasked(len) == [i \in 1 .. PrefixLength |-> len \div Place[i]]

\* The four bytes of a length, most significant first.
Prefix(len) == [i \in 1 .. PrefixLength |-> (len \div Place[i]) % Radix]

\* encodeMessage().
Encode(payload) == Prefix(Len(payload) % Word) \o payload

\* The length at the front of a buffer.
PrefixOf(b) ==
  b[1] * Place[1] + b[2] * Place[2] + b[3] * Place[3] + b[4] * Place[4]

\* 4u + len.
FrameSize(b) == (PrefixLength + PrefixOf(b)) % Word

\* extractFrame() goes past its two tests.
HasFrame(b) == Len(b) >= PrefixLength /\ Len(b) >= FrameSize(b)

-----------------------------------------------------------------------------
(***************************************************************************)
(* The controller.                                                         *)
(***************************************************************************)
SendFrame ==
  /\ server \in {"recv", "extract"}
  /\ announced = -1
  /\ Len(sent) < MaxFrames
  /\ \E p \in Payloads :
       /\ wire' = wire \o Encode(p)
       /\ sent' = Append(sent, p)
  /\ UNCHANGED <<running, server, buffer, frames, announced, connections, dropped>>

\* A length that no payload follows.
AnnounceFrame ==
  /\ server \in {"recv", "extract"}
  /\ announced = -1
  /\ \E len \in MaxSize + 1 .. Word - 1 :
       /\ wire' = wire \o Prefix(len)
       /\ announced' = len
  /\ UNCHANGED <<running, server, buffer, frames, sent, connections, dropped>>

-----------------------------------------------------------------------------
(***************************************************************************)
(* NetworkManager.                                                         *)
(***************************************************************************)
\* startServer() after TcpServer::start().
SetRunning ==
  /\ ~ running
  /\ running' = TRUE
  /\ UNCHANGED <<server, buffer, frames, wireVars, connections, dropped>>

\* Mistake: the buffer keeps what it has.
ClearBufferForgotten == UNCHANGED buffer

ClearBuffer == buffer' = <<>>

\* accept() and onClientConnected(); a new stream begins.
OnClientConnected ==
  /\ server = "accept"
  /\ connections < MaxConnections
  /\ connections' = connections + 1
  /\ ClearBuffer
  /\ wire' = <<>> /\ sent' = <<>> /\ announced' = -1 /\ frames' = <<>> /\ dropped' = FALSE
  /\ server' = "recv"
  /\ UNCHANGED running

\* recv() ends, with what is on the wire, and onClientDisconnected().
OnClientDisconnected ==
  /\ server = "recv"
  /\ ClearBuffer
  /\ server' = "accept"
  /\ UNCHANGED <<running, frames, wireVars, connections, dropped>>

\* onDataReceived() appends what recv() returned, or throws it away.
OnDataReceived ==
  /\ server = "recv"
  /\ \E n \in 1 .. Len(wire) :
       /\ wire' = SubSeq(wire, n + 1, Len(wire))
       /\ \/ /\ running
             /\ buffer' = buffer \o SubSeq(wire, 1, n)
             /\ server' = "extract"
             /\ UNCHANGED dropped
          \/ /\ ~ running
             /\ dropped' = TRUE
             /\ UNCHANGED <<buffer, server>>
  /\ UNCHANGED <<running, frames, sent, announced, connections>>

\* A turn of onDataReceived()'s loop: extractFrame() and onMessageReceived().
ExtractFrame ==
  /\ server = "extract"
  /\ HasFrame(buffer)
  /\ PrefixOf(buffer) <= MaxSize
  /\ frames' = Append(frames, SubSeq(buffer, PrefixLength + 1, FrameSize(buffer)))
  /\ buffer' = SubSeq(buffer, FrameSize(buffer) + 1, Len(buffer))
  /\ UNCHANGED <<running, server, wireVars, connections, dropped>>

\* Mistake: frame.assign() is tried as soon as the length is known.
AssignThrowsEarly ==
  /\ server = "extract"
  /\ Len(buffer) >= PrefixLength
  /\ PrefixOf(buffer) > MaxSize
  /\ server' = "thrown"
  /\ UNCHANGED <<running, buffer, frames, wireVars, connections, dropped>>

\* frame.assign(data, len) with a len that no string can have; nothing on the
\* server thread catches std::length_error.
AssignThrows ==
  /\ server = "extract"
  /\ HasFrame(buffer)
  /\ PrefixOf(buffer) > MaxSize
  /\ server' = "thrown"
  /\ UNCHANGED <<running, buffer, frames, wireVars, connections, dropped>>

\* Mistake: one frame for each recv().
LoopLeavesFrames ==
  /\ server = "extract"
  /\ server' = "recv"
  /\ UNCHANGED <<running, buffer, frames, wireVars, connections, dropped>>

LoopEnds ==
  /\ server = "extract"
  /\ ~ HasFrame(buffer)
  /\ server' = "recv"
  /\ UNCHANGED <<running, buffer, frames, wireVars, connections, dropped>>

-----------------------------------------------------------------------------
Controller == SendFrame \/ AnnounceFrame

Extraction == ExtractFrame \/ AssignThrows \/ LoopEnds

Next ==
  \/ Controller \/ SetRunning
  \/ OnClientConnected \/ OnDataReceived \/ Extraction \/ OnClientDisconnected

Spec == Init /\ [][Next]_vars

-----------------------------------------------------------------------------
(***************************************************************************)
(* Properties.                                                             *)
(***************************************************************************)
\* However recv() cuts the stream, and whatever was left of the connection before, what
\* onMessageReceived() gets are the payloads that were written, in order.
FramesAsSent == ~ dropped => IsPrefix(frames, sent)

\* A frame is handed over by the recv() that completes it: when the server
\* thread is back in recv() and the wire is empty nothing complete is left.
NothingHeldBack ==
  (server = "recv" /\ wire = <<>> /\ ~ dropped) => frames = sent

\* The 32-bit sum of extractFrame() goes wrong for the last four lengths only: a
\* longer frame than a string can hold is waited for, not taken out.
ThrowsOnlyOnWrap == (server = "thrown" /\ ~ dropped) => announced >= Word - PrefixLength

-----------------------------------------------------------------------------
(***************************************************************************)
(* The bytes implement the channel of frames.                              *)
(***************************************************************************)
Channel == INSTANCE FrameChannel
             WITH state <- CASE server = "accept" -> "closed"
                             [] server = "thrown" -> "dead"
                             [] OTHER -> "open",
                  poisoned <- announced >= Word - PrefixLength,
                  lost <- dropped

\* onDataReceived() and extractFrame() give onMessageReceived() the channel: whatever recv()
\* cuts, and whatever a connection leaves in the buffer when it ends, what comes out next
\* is the next payload, and a length that throws strikes behind the last one.
ChannelSpec == Channel!Spec

=============================================================================
