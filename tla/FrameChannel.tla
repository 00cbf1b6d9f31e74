---------------------------- MODULE FrameChannel ----------------------------
(***************************************************************************)
(* What the framing promises to onMessageReceived(), without bytes, length *)
(* prefixes or a receive buffer: while a connection is open the payloads   *)
(* that the controller writes come out one at a time, each of them as it   *)
(* was written, in order and once.  Nothing of one connection comes out on *)
(* the next.                                                               *)
(*                                                                         *)
(* The promise has two limits.  A connection may lose its framing, but     *)
(* only before its first payload has come out; what comes out then is      *)
(* anything.  And a controller may write a length that kills the receiver, *)
(* but not before every payload in front of it has come out.               *)
(***************************************************************************)
EXTENDS Integers, Sequences

CONSTANT Payloads

VARIABLES
  state,                \* of the connection: "closed", "open", or "dead" for good
  sent,                 \* payloads written on this connection
  frames,               \* what has come out on it
  poisoned,             \* the length has been written, and nothing after it
  lost                  \* the framing is gone

vars == <<state, sent, frames, poisoned, lost>>

Init == state = "closed" /\ sent = <<>> /\ frames = <<>> /\ ~ poisoned /\ ~ lost

Connect ==
  /\ state = "closed"
  /\ state' = "open"
  /\ sent' = <<>> /\ frames' = <<>> /\ ~ poisoned' /\ ~ lost'

Send ==
  /\ state = "open" /\ ~ poisoned
  /\ \E p \in Payloads : sent' = Append(sent, p)
  /\ UNCHANGED <<state, frames, poisoned, lost>>

Poison ==
  /\ state = "open" /\ ~ poisoned
  /\ poisoned'
  /\ UNCHANGED <<state, sent, frames, lost>>

LoseFraming ==
  /\ state = "open"
  /\ frames = <<>>
  /\ lost'
  /\ UNCHANGED <<state, sent, frames, poisoned>>

\* The next payload, or one that nobody has written.
Deliver ==
  /\ state = "open"
  /\ Len(frames') = Len(frames) + 1
  /\ SubSeq(frames', 1, Len(frames)) = frames
  /\ ~ lost =>
       /\ Len(frames) < Len(sent)
       /\ frames'[Len(frames')] = sent[Len(frames')]
  /\ UNCHANGED <<state, sent, poisoned, lost>>

Die ==
  /\ state = "open"
  /\ ~ lost => poisoned /\ frames = sent
  /\ state' = "dead"
  /\ UNCHANGED <<sent, frames, poisoned, lost>>

Disconnect ==
  /\ state = "open"
  /\ state' = "closed"
  /\ UNCHANGED <<sent, frames, poisoned, lost>>

Next == Connect \/ Send \/ Poison \/ LoseFraming \/ Deliver \/ Die \/ Disconnect

Spec == Init /\ [][Next]_vars

============================================================================
