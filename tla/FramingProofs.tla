--------------------------- MODULE FramingProofs ---------------------------
(***************************************************************************)
(* Proofs about Framing for every radix, every set of payloads and any     *)
(* number of frames and connections.  The prefix gives back the length it  *)
(* was made from (PrefixInverse).  The bytes that are written and not      *)
(* handed over, buffer and wire together, are the frames that are due, one *)
(* behind the other, and at most one prefix without a payload (DueInv).    *)
(*                                                                         *)
(* That a sequence is a concatenation is said without recursion: there is  *)
(* a function from the numbers of the frames to the places where they end. *)
(***************************************************************************)
EXTENDS Framing, TLAPS

-----------------------------------------------------------------------------
(***************************************************************************)
(* The prefix.                                                             *)
(***************************************************************************)
\* A number is the quotient and the remainder it leaves.
LEMMA Division ==
  ASSUME NEW n \in Nat
  PROVE  /\ n \div Radix \in Nat /\ n % Radix \in Bytes
         /\ n = Radix * (n \div Radix) + (n % Radix)
<1>1. n \div Radix \in Nat /\ n % Radix \in Bytes
  BY RadixAssumption DEF Bytes
<1>2. ASSUME NEW q \in Nat, NEW r \in Nat, q = n \div Radix, r = n % Radix
      PROVE  n = Radix * q + r
  BY <1>2, RadixAssumption
<1> QED
  BY <1>1, <1>2 DEF Bytes

\* Division by the radix again and again is division by its powers.
LEMMA DivisionTwice ==
  ASSUME NEW n \in Nat
  PROVE  /\ (n \div Radix) \div Radix = n \div (Radix * Radix)
         /\ ((n \div Radix) \div Radix) \div Radix = n \div (Radix * Radix * Radix)
<1>1. (n \div Radix) \div Radix = n \div (Radix * Radix)
  BY RadixAssumption
<1>2. ((n \div Radix) \div Radix) \div Radix = n \div (Radix * Radix * Radix)
  BY RadixAssumption
<1> QED
  BY <1>1, <1>2

\* A prefix is four bytes, and extractFrame() reads from it what encodeMessage() wrote.
LEMMA PrefixInverse ==
  ASSUME NEW len \in 0 .. Word - 1
  PROVE  /\ Prefix(len) \in Seq(Bytes)
         /\ Len(Prefix(len)) = 4
         /\ PrefixOf(Prefix(len)) = len
<1> DEFINE R == Radix
<1>1. R \in Nat /\ R > 1 /\ len \in Nat /\ len < R * (R * R * R)
  BY RadixAssumption DEF Word, Place
<1>2. PICK a \in Nat, x \in Bytes : a = len \div R /\ x = len % R /\ len = R * a + x
  BY <1>1, Division
<1>3. PICK b \in Nat, y \in Bytes : b = a \div R /\ y = a % R /\ a = R * b + y
  BY <1>1, Division
<1>4. PICK c \in Nat, z \in Bytes : c = b \div R /\ z = b % R /\ b = R * c + z
  BY <1>1, Division
<1>5. PICK d \in Nat, w \in Bytes : d = c \div R /\ w = c % R /\ c = R * d + w
  BY <1>1, Division
<1>6. d = 0
  <2> SUFFICES ASSUME d >= 1 PROVE FALSE
    OBVIOUS
  <2>1. c >= R
    BY <1>1, <1>5 DEF Bytes
  <2>2. b >= R * R
    BY <1>1, <1>4, <2>1 DEF Bytes
  <2>3. a >= R * (R * R)
    BY <1>1, <1>3, <2>2 DEF Bytes
  <2>4. len >= R * (R * (R * R))
    BY <1>1, <1>2, <2>3 DEF Bytes
  <2> QED
    BY <1>1, <2>4
<1>7. c = w
  BY <1>1, <1>5, <1>6 DEF Bytes
<1>8. Prefix(len) = <<w, z, y, x>>
  <2>1. /\ (len \div Place[1]) % R = w
        /\ (len \div Place[2]) % R = z
        /\ (len \div Place[3]) % R = y
    BY <1>1, <1>2, <1>3, <1>4, <1>5, DivisionTwice DEF Place
  <2>2. (len \div Place[4]) % R = x
    BY <1>1, <1>2 DEF Place
  <2>3. Prefix(len) = [i \in 1 .. 4 |-> <<w, z, y, x>>[i]]
    BY <2>1, <2>2 DEF Prefix, PrefixLength
  <2> QED
    BY <2>3
<1>9. PrefixOf(<<w, z, y, x>>) = len
  <2>1. PrefixOf(<<w, z, y, x>>) = w * (R * R * R) + z * (R * R) + y * R + x
    BY <1>1 DEF PrefixOf, Place, Bytes
  <2>2. b = R * w + z
    BY <1>4, <1>7
  <2>3. a = R * (R * w) + R * z + y
    BY <1>1, <1>3, <2>2 DEF Bytes
  <2>4. len = R * (R * (R * w)) + R * (R * z) + R * y + x
    BY <1>1, <1>2, <2>3 DEF Bytes
  <2> QED
    BY <1>1, <2>1, <2>4 DEF Bytes
<1> QED
  BY <1>8, <1>9

-----------------------------------------------------------------------------
(***************************************************************************)
(* Words and frames.                                                       *)
(***************************************************************************)
LEMMA WordFacts ==
  /\ Word \in Nat /\ Word >= 16
  /\ MaxSize \in Nat /\ MaxSize < Word /\ MaxSize >= 7
<1> DEFINE R == Radix
<1>1. R \in Nat /\ R >= 2
  BY RadixAssumption
<1>2. R * R >= 4 /\ R * R \in Nat
  BY <1>1
<1>3. R * R * R >= 8 /\ R * R * R \in Nat
  BY <1>1, <1>2
<1>4. R * (R * R * R) >= 16 /\ R * (R * R * R) \in Nat
  BY <1>1, <1>3
<1>5. Word \in Nat /\ Word >= 16
  BY <1>4 DEF Word, Place
<1> QED
  BY <1>5 DEF MaxSize

LEMMA Concat ==
  ASSUME NEW S, NEW q \in Seq(S), NEW r \in Seq(S)
  PROVE  /\ q \o r \in Seq(S) /\ Len(q \o r) = Len(q) + Len(r)
         /\ \A j \in 1 .. Len(q) : (q \o r)[j] = q[j]
         /\ \A j \in 1 .. Len(r) : (q \o r)[Len(q) + j] = r[j]
OBVIOUS

LEMMA SameElements ==
  ASSUME NEW S, NEW q \in Seq(S), NEW r \in Seq(S), Len(q) = Len(r),
         \A j \in 1 .. Len(q) : q[j] = r[j]
  PROVE  q = r
OBVIOUS

LEMMA EncodeFacts ==
  ASSUME NEW p \in Payloads
  PROVE  /\ p \in Seq(Bytes) /\ Len(p) \in 0 .. Word - 1 /\ Len(p) <= MaxSize - 4
         /\ Encode(p) \in Seq(Bytes) /\ Len(Encode(p)) = 4 + Len(p)
         /\ \A j \in 1 .. 4 : Encode(p)[j] = Prefix(Len(p))[j]
         /\ \A j \in 1 .. Len(p) : Encode(p)[4 + j] = p[j]
<1>1. p \in Seq(Bytes) /\ Len(p) \in Nat /\ Len(p) <= MaxSize - 4
  BY PayloadsAssumption DEF PrefixLength
<1>2. Len(p) \in 0 .. Word - 1 /\ Len(p) % Word = Len(p)
  BY <1>1, WordFacts
<1>3. PICK q \in Seq(Bytes) : q = Prefix(Len(p)) /\ Len(q) = 4
  BY <1>2, PrefixInverse
<1>4. Encode(p) = q \o p
  BY <1>2, <1>3 DEF Encode
<1>5. /\ Encode(p) \in Seq(Bytes) /\ Len(Encode(p)) = Len(q) + Len(p)
      /\ \A j \in 1 .. Len(q) : Encode(p)[j] = q[j]
      /\ \A j \in 1 .. Len(p) : Encode(p)[Len(q) + j] = p[j]
  BY <1>1, <1>4, Concat
<1> QED
  BY <1>1, <1>2, <1>3, <1>5

\* The length that is read depends on the first four bytes only.
LEMMA PrefixOfFront ==
  ASSUME NEW b, NEW c, \A j \in 1 .. 4 : b[j] = c[j]
  PROVE  PrefixOf(b) = PrefixOf(c)
<1>1. b[1] = c[1] /\ b[2] = c[2] /\ b[3] = c[3] /\ b[4] = c[4]
  OBVIOUS
<1> QED
  BY <1>1 DEF PrefixOf

-----------------------------------------------------------------------------
(***************************************************************************)
(* The invariant.                                                          *)
(***************************************************************************)
\* What has been written and not handed over.
Due == buffer \o wire

\* ends[i] is where the i-th frame ends in Due, for the frames that are due.
Ends(ends) ==
  /\ ends \in [Nat -> Int]
  /\ ends[Len(frames)] = 0
  /\ \A i, j \in Len(frames) .. Len(sent) : i <= j => ends[i] <= ends[j]
  /\ \A i \in Len(frames) + 1 .. Len(sent) : ends[i] = ends[i - 1] + Len(Encode(sent[i]))
  /\ Len(Due) = ends[Len(sent)] + (IF announced = -1 THEN 0 ELSE 4)

FramesDue(ends) ==
  \A i \in Len(frames) + 1 .. Len(sent) : \A j \in 1 .. Len(Encode(sent[i])) :
    Due[ends[i - 1] + j] = Encode(sent[i])[j]

PrefixDue(ends) ==
  announced # -1 => \A j \in 1 .. 4 : Due[ends[Len(sent)] + j] = Prefix(announced)[j]

DueInv ==
  ~ dropped /\ server \in {"recv", "extract"} =>
    \E ends : Ends(ends) /\ FramesDue(ends) /\ PrefixDue(ends)

\* FramesAsSent frame by frame.
HandedInv ==
  ~ dropped => /\ Len(frames) <= Len(sent)
               /\ \A i \in 1 .. Len(frames) : frames[i] = sent[i]

AnnouncedInv == announced # -1 => announced > MaxSize

\* onDataReceived() comes back with no complete frame left.
ReceivingInv == server = "recv" => ~ HasFrame(buffer)

Inv == TypeOK /\ AnnouncedInv /\ HandedInv /\ ReceivingInv /\ DueInv /\ ThrowsOnlyOnWrap

LEMMA InitInv == Init => Inv
<1> SUFFICES ASSUME Init PROVE Inv
  OBVIOUS
<1>1. TypeOK
  <2>1. <<>> \in Seq(Bytes) /\ <<>> \in Seq(Seq(Bytes)) /\ <<>> \in Seq(Payloads)
    OBVIOUS
  <2>2. -1 \in -1 .. Word - 1 /\ 0 \in 0 .. MaxConnections
    BY BoundsAssumption, WordFacts
  <2> QED
    BY <2>1, <2>2 DEF Init, TypeOK
<1> QED
  BY <1>1 DEF Init, Inv, AnnouncedInv, HandedInv, ReceivingInv, DueInv, ThrowsOnlyOnWrap

LEMMA DueFacts ==
  ASSUME TypeOK
  PROVE  /\ Due \in Seq(Bytes) /\ Len(Due) = Len(buffer) + Len(wire)
         /\ \A j \in 1 .. Len(buffer) : Due[j] = buffer[j]
         /\ \A j \in 1 .. Len(wire) : Due[Len(buffer) + j] = wire[j]
  BY Concat DEF TypeOK, Due

-----------------------------------------------------------------------------
(***************************************************************************)
(* What the buffer begins with.                                            *)
(***************************************************************************)
\* When the buffer has a length at its front it is that of the first frame that is due,
\* or the one that was announced, with nothing behind it.
LEMMA BufferFront ==
  ASSUME Inv, ~ dropped, server \in {"recv", "extract"}, Len(buffer) >= 4,
         NEW ends, Ends(ends), FramesDue(ends), PrefixDue(ends)
  PROVE  \/ /\ Len(frames) < Len(sent)
            /\ PrefixOf(buffer) = Len(sent[Len(frames) + 1])
            /\ FrameSize(buffer) = Len(Encode(sent[Len(frames) + 1]))
            /\ ends[Len(frames) + 1] = FrameSize(buffer)
         \/ /\ Len(frames) = Len(sent) /\ announced # -1
            /\ PrefixOf(buffer) = announced
            /\ Len(buffer) < 5 /\ wire = <<>>
<1>1. /\ buffer \in Seq(Bytes) /\ wire \in Seq(Bytes)
      /\ Len(frames) \in Nat /\ Len(sent) \in Nat
      /\ Len(frames) <= Len(sent)
      /\ sent \in Seq(Payloads)
  BY DEF Inv, TypeOK, HandedInv
<1>2. Len(Due) = Len(buffer) + Len(wire) /\ \A j \in 1 .. 4 : Due[j] = buffer[j]
  BY <1>1, DueFacts DEF Inv
<1>3. CASE Len(frames) < Len(sent)
  <2>1. PICK k \in 1 .. Len(sent) : k = Len(frames) + 1
    BY <1>1, <1>3
  <2>2. PICK p \in Payloads : p = sent[k]
    BY <1>1, <2>1
  <2>3. /\ Len(Encode(p)) = 4 + Len(p) /\ Len(p) \in Nat /\ Len(p) <= MaxSize - 4
        /\ PrefixOf(Prefix(Len(p))) = Len(p)
        /\ \A j \in 1 .. 4 : Encode(p)[j] = Prefix(Len(p))[j]
    BY EncodeFacts, PrefixInverse
  <2>4. ends[k - 1] = 0 /\ ends[k] = ends[k - 1] + Len(Encode(p))
    <3>1. k \in Len(frames) + 1 .. Len(sent) /\ k - 1 = Len(frames)
      BY <1>1, <2>1
    <3>2. ends[k - 1] = 0
      BY <3>1 DEF Ends
    <3>3. ends[k] = ends[k - 1] + Len(Encode(sent[k]))
      BY <3>1 DEF Ends
    <3> QED
      BY <2>2, <3>2, <3>3
  <2>5. \A j \in 1 .. Len(Encode(p)) : Due[0 + j] = Encode(p)[j]
    <3>1. k \in Len(frames) + 1 .. Len(sent)
      BY <1>1, <2>1
    <3> QED
      BY <2>2, <2>4, <3>1, Zenon DEF FramesDue
  <2>6. \A j \in 1 .. 4 : Due[j] = Encode(p)[j]
    BY <2>3, <2>5
  <2>7. PrefixOf(buffer) = Len(p)
    <3>1. \A j \in 1 .. 4 : buffer[j] = Prefix(Len(p))[j]
      BY <1>2, <2>3, <2>6
    <3> QED
      BY <3>1, <2>3, PrefixOfFront
  <2>8. FrameSize(buffer) = 4 + Len(p)
    <3>1. ASSUME NEW n \in Nat, n <= MaxSize - 4 PROVE (4 + n) % Word = 4 + n
      BY <3>1, WordFacts
    <3> QED
      BY <3>1, <2>3, <2>7 DEF FrameSize, PrefixLength
  <2> QED
    BY <1>3, <2>1, <2>2, <2>3, <2>4, <2>7, <2>8
<1>4. CASE Len(frames) = Len(sent)
  <2>1. ends[Len(sent)] = 0 /\ Len(Due) = IF announced = -1 THEN 0 ELSE 4
    BY <1>1, <1>4 DEF Ends
  <2>2. /\ announced # -1
        /\ Len(buffer) < 5 /\ wire = <<>>
    <3>1. ASSUME NEW b \in Nat, NEW w \in Nat, b = Len(buffer), w = Len(wire)
          PROVE  announced # -1 /\ b < 5 /\ w = 0
      BY <1>2, <2>1, <3>1
    <3> QED
      BY <1>1, <3>1
  <2>3. announced \in 0 .. Word - 1
    BY <2>2, WordFacts DEF Inv, TypeOK
  <2>4. \A j \in 1 .. 4 : buffer[j] = Prefix(announced)[j]
    BY <1>2, <2>1, <2>2 DEF PrefixDue
  <2>5. PrefixOf(buffer) = announced
    BY <2>3, <2>4, PrefixInverse, PrefixOfFront
  <2> QED
    BY <1>1, <1>4, <2>2, <2>5
<1> QED
  BY <1>1, <1>3, <1>4

-----------------------------------------------------------------------------
(***************************************************************************)
(* What the steps do to the bytes that are due.                            *)
(***************************************************************************)
LEMMA Grows ==
  ASSUME TypeOK, NEW e \in Seq(Bytes), wire' = wire \o e, buffer' = buffer
  PROVE  /\ wire' \in Seq(Bytes)
         /\ Len(Due') = Len(Due) + Len(e)
         /\ \A j \in 1 .. Len(Due) : Due'[j] = Due[j]
         /\ \A j \in 1 .. Len(e) : Due'[Len(Due) + j] = e[j]
<1>1. buffer \in Seq(Bytes) /\ wire \in Seq(Bytes)
  BY DEF TypeOK
<1>2. PICK w \in Seq(Bytes) : w = wire \o e
  BY <1>1, Concat
<1>3. /\ Len(w) = Len(wire) + Len(e)
      /\ \A j \in 1 .. Len(wire) : w[j] = wire[j]
      /\ \A j \in 1 .. Len(e) : w[Len(wire) + j] = e[j]
  BY <1>1, <1>2, Concat
<1>4. Due' = buffer \o w
  BY <1>2 DEF Due
<1>5. /\ Len(Due') = Len(buffer) + Len(w)
      /\ \A j \in 1 .. Len(buffer) : Due'[j] = buffer[j]
      /\ \A j \in 1 .. Len(w) : Due'[Len(buffer) + j] = w[j]
  BY <1>1, <1>4, Concat
<1>6. /\ Len(Due) = Len(buffer) + Len(wire)
      /\ \A j \in 1 .. Len(buffer) : Due[j] = buffer[j]
      /\ \A j \in 1 .. Len(wire) : Due[Len(buffer) + j] = wire[j]
  BY DueFacts
<1>7. ASSUME NEW j \in 1 .. Len(Due) PROVE Due'[j] = Due[j]
  <2>1. CASE j <= Len(buffer)
    BY <1>1, <1>5, <1>6, <2>1
  <2>2. CASE j > Len(buffer)
    <3>1. PICK i \in 1 .. Len(wire) : j = Len(buffer) + i
      <4>1. j - Len(buffer) \in 1 .. Len(wire) /\ j = Len(buffer) + (j - Len(buffer))
        BY <1>1, <1>6, <2>2
      <4> QED
        BY <4>1
    <3>2. i \in 1 .. Len(w)
      BY <1>1, <1>3
    <3> QED
      BY <1>3, <1>5, <1>6, <3>1, <3>2
  <2> QED
    BY <1>1, <2>1, <2>2
<1>8. ASSUME NEW j \in 1 .. Len(e) PROVE Due'[Len(Due) + j] = e[j]
  <2>1. Len(wire) + j \in 1 .. Len(w) /\ Len(Due) + j = Len(buffer) + (Len(wire) + j)
    BY <1>1, <1>3, <1>6
  <2> QED
    BY <1>3, <1>5, <2>1
<1>9. Len(Due') = Len(Due) + Len(e)
  BY <1>1, <1>3, <1>5, <1>6
<1> QED
  BY <1>2, <1>7, <1>8, <1>9

LEMMA Moves ==
  ASSUME TypeOK, NEW n \in 1 .. Len(wire),
         buffer' = buffer \o SubSeq(wire, 1, n), wire' = SubSeq(wire, n + 1, Len(wire))
  PROVE  buffer' \in Seq(Bytes) /\ wire' \in Seq(Bytes) /\ Due' = Due
<1>1. buffer \in Seq(Bytes) /\ wire \in Seq(Bytes)
  BY DEF TypeOK
<1>2. PICK q \in Seq(Bytes), r \in Seq(Bytes) :
        /\ q = SubSeq(wire, 1, n) /\ r = SubSeq(wire, n + 1, Len(wire))
        /\ wire = q \o r
  <2>1. /\ SubSeq(wire, 1, n) \in Seq(Bytes) /\ SubSeq(wire, n + 1, Len(wire)) \in Seq(Bytes)
        /\ wire = SubSeq(wire, 1, n) \o SubSeq(wire, n + 1, Len(wire))
    BY <1>1
  <2> QED
    BY <2>1
<1>3. buffer \o (q \o r) = (buffer \o q) \o r
  BY <1>1, SMTT(30)
<1>4. buffer \o q \in Seq(Bytes)
  BY <1>1, Concat
<1>5. buffer' = buffer \o q /\ wire' = r
  BY <1>2
<1>6. Due' = (buffer \o q) \o r /\ Due = buffer \o (q \o r)
  BY <1>2, <1>5 DEF Due
<1> QED
  BY <1>3, <1>4, <1>5, <1>6

LEMMA Shrinks ==
  ASSUME TypeOK, NEW m \in 0 .. Len(buffer),
         buffer' = SubSeq(buffer, m + 1, Len(buffer)), wire' = wire
  PROVE  /\ buffer' \in Seq(Bytes)
         /\ Len(Due') = Len(Due) - m
         /\ \A j \in 1 .. Len(Due) - m : Due'[j] = Due[m + j]
<1>1. buffer \in Seq(Bytes) /\ wire \in Seq(Bytes)
  BY DEF TypeOK
<1>2. PICK b \in Seq(Bytes) :
        /\ b = buffer' /\ Len(b) = Len(buffer) - m
        /\ \A j \in 1 .. Len(b) : b[j] = buffer[m + j]
  <2>1. ASSUME NEW b \in Seq(Bytes), NEW k \in 0 .. Len(b)
        PROVE  /\ SubSeq(b, k + 1, Len(b)) \in Seq(Bytes)
               /\ Len(SubSeq(b, k + 1, Len(b))) = Len(b) - k
               /\ \A j \in 1 .. Len(b) - k : SubSeq(b, k + 1, Len(b))[j] = b[k + j]
    OBVIOUS
  <2>2. /\ SubSeq(buffer, m + 1, Len(buffer)) \in Seq(Bytes)
        /\ Len(SubSeq(buffer, m + 1, Len(buffer))) = Len(buffer) - m
        /\ \A j \in 1 .. Len(buffer) - m :
             SubSeq(buffer, m + 1, Len(buffer))[j] = buffer[m + j]
    BY <1>1, <2>1
  <2> QED
    BY <2>2
<1>3. Due' = b \o wire
  BY <1>2 DEF Due
<1>4. /\ Len(Due') = Len(b) + Len(wire)
      /\ \A j \in 1 .. Len(b) : Due'[j] = b[j]
      /\ \A j \in 1 .. Len(wire) : Due'[Len(b) + j] = wire[j]
  BY <1>1, <1>3, Concat
<1>5. /\ Len(Due) = Len(buffer) + Len(wire)
      /\ \A j \in 1 .. Len(buffer) : Due[j] = buffer[j]
      /\ \A j \in 1 .. Len(wire) : Due[Len(buffer) + j] = wire[j]
  BY DueFacts
<1>6. ASSUME NEW j \in 1 .. Len(Due) - m PROVE Due'[j] = Due[m + j]
  <2>1. CASE j <= Len(b)
    <3>1. j \in 1 .. Len(b) /\ m + j \in 1 .. Len(buffer)
      BY <1>1, <1>2, <2>1
    <3> QED
      BY <1>2, <1>4, <1>5, <3>1
  <2>2. CASE j > Len(b)
    <3>1. PICK i \in 1 .. Len(wire) : j = Len(b) + i
      <4>1. j - Len(b) \in 1 .. Len(wire) /\ j = Len(b) + (j - Len(b))
        BY <1>1, <1>2, <1>5, <2>2
      <4> QED
        BY <4>1
    <3>2. m + j = Len(buffer) + i
      BY <1>1, <1>2, <3>1
    <3> QED
      BY <1>4, <1>5, <3>1, <3>2
  <2> QED
    BY <1>1, <1>2, <2>1, <2>2
<1> QED
  BY <1>1, <1>2, <1>4, <1>5, <1>6

-----------------------------------------------------------------------------
(***************************************************************************)
(* Each step keeps the invariant.                                          *)
(***************************************************************************)
\* The bytes of a frame that is due lie inside Due.
LEMMA InsideDue ==
  ASSUME Inv, NEW ends, Ends(ends),
         NEW i \in Len(frames) + 1 .. Len(sent), NEW j \in 1 .. Len(Encode(sent[i]))
  PROVE  ends[i - 1] >= 0 /\ ends[i - 1] + j \in 1 .. Len(Due)
<1>1. Len(frames) \in Nat /\ Len(sent) \in Nat /\ sent \in Seq(Payloads)
  BY DEF Inv, TypeOK
<1>2. /\ i \in 1 .. Len(sent) /\ i \in Len(frames) .. Len(sent)
      /\ i - 1 \in Len(frames) .. Len(sent) /\ i - 1 \in Nat
      /\ Len(frames) \in Len(frames) .. Len(sent) /\ Len(sent) \in Len(frames) .. Len(sent)
      /\ Len(frames) <= i - 1 /\ i <= Len(sent)
  BY <1>1
<1>3. /\ ends \in [Nat -> Int] /\ ends[Len(frames)] = 0
      /\ \A k, l \in Len(frames) .. Len(sent) : k <= l => ends[k] <= ends[l]
      /\ ends[i] = ends[i - 1] + Len(Encode(sent[i]))
      /\ Len(Due) = ends[Len(sent)] + (IF announced = -1 THEN 0 ELSE 4)
  BY DEF Ends
<1>4. ends[Len(frames)] <= ends[i - 1] /\ ends[i] <= ends[Len(sent)]
  BY <1>2, <1>3
<1>5. sent[i] \in Payloads
  BY <1>1, <1>2
<1>6. Encode(sent[i]) \in Seq(Bytes)
  BY <1>5, EncodeFacts
<1>7. PICK a \in Int, b \in Int, c \in Int, l \in Nat :
        a = ends[i - 1] /\ b = ends[i] /\ c = ends[Len(sent)] /\ l = Len(Encode(sent[i]))
  <2>1. i - 1 \in Nat /\ i \in Nat /\ Len(sent) \in Nat
    BY <1>1
  <2>2. ends[i - 1] \in Int /\ ends[i] \in Int /\ ends[Len(sent)] \in Int
    BY <1>3, <2>1
  <2>3. Len(Encode(sent[i])) \in Nat
    BY <1>6
  <2> QED
    BY <2>2, <2>3, Zenon
<1>8. j \in 1 .. l /\ b = a + l /\ 0 <= a /\ b <= c
  BY <1>3, <1>4, <1>7
<1>9. PICK d \in {0, 4} : Len(Due) = c + d
  BY <1>3, <1>7
<1>10. a >= 0 /\ a + j \in 1 .. c + d
  BY <1>8
<1> QED
  BY <1>7, <1>9, <1>10

LEMMA SendStep ==
  ASSUME Inv, SendFrame
  PROVE  Inv'
<1>1. TypeOK /\ Len(sent) \in Nat /\ Len(frames) \in Nat
  BY DEF Inv, TypeOK
<1>2. PICK p \in Payloads : wire' = wire \o Encode(p) /\ sent' = Append(sent, p)
  BY DEF SendFrame
<1>3. /\ server \in {"recv", "extract"} /\ announced = -1
      /\ UNCHANGED <<running, server, buffer, frames, announced, connections, dropped>>
  BY DEF SendFrame
<1>4. PICK e \in Seq(Bytes) : e = Encode(p) /\ Len(e) \in Nat
  BY EncodeFacts
<1>5. /\ wire' \in Seq(Bytes)
      /\ Len(Due') = Len(Due) + Len(e)
      /\ \A j \in 1 .. Len(Due) : Due'[j] = Due[j]
      /\ \A j \in 1 .. Len(e) : Due'[Len(Due) + j] = e[j]
  BY <1>1, <1>2, <1>3, <1>4, Grows
<1>6. /\ sent' \in Seq(Payloads) /\ Len(sent') = Len(sent) + 1
      /\ \A i \in 1 .. Len(sent) : sent'[i] = sent[i]
      /\ sent'[Len(sent) + 1] = p
  BY <1>1, <1>2 DEF TypeOK
<1>7. TypeOK'
  BY <1>1, <1>3, <1>5, <1>6 DEF TypeOK
<1>8. HandedInv'
  BY <1>1, <1>3, <1>6 DEF Inv, HandedInv
<1>9. DueInv'
  <2> SUFFICES ASSUME ~ dropped
               PROVE  \E ends : (Ends(ends) /\ FramesDue(ends) /\ PrefixDue(ends))'
    BY <1>3 DEF DueInv
  <2>1. PICK old : Ends(old) /\ FramesDue(old)
    BY <1>3 DEF Inv, DueInv
  <2>2. old \in [Nat -> Int] /\ Len(Due) = old[Len(sent)]
    BY <1>1, <1>3, <2>1 DEF Ends
  <2>3. PICK new \in [Nat -> Int] :
          new = [old EXCEPT ![Len(sent) + 1] = old[Len(sent)] + Len(e)]
    <3>1. old[Len(sent)] + Len(e) \in Int
      BY <1>1, <1>4, <2>2
    <3> QED
      BY <2>2, <3>1
  <2>4. /\ \A i \in Len(frames) .. Len(sent) : new[i] = old[i]
        /\ new[Len(sent) + 1] = old[Len(sent)] + Len(e)
    BY <1>1, <2>2, <2>3
  <2>5. Len(frames) <= Len(sent)
    BY DEF Inv, HandedInv
  <2>6. new[Len(frames)] = 0
    BY <1>1, <2>1, <2>4, <2>5 DEF Ends
  <2>7. ASSUME NEW i \in Len(frames) .. Len(sent) + 1, NEW j \in Len(frames) .. Len(sent) + 1,
               i <= j
        PROVE  new[i] <= new[j]
    <3>1. \A k, l \in Len(frames) .. Len(sent) : k <= l => old[k] <= old[l]
      BY <2>1 DEF Ends
    <3>2. \A k \in Len(frames) .. Len(sent) : old[k] \in Int
      BY <1>1, <2>2
    <3>3. Len(sent) \in Len(frames) .. Len(sent)
      BY <1>1, <2>5
    <3>4. CASE j <= Len(sent)
      <4>1. i \in Len(frames) .. Len(sent) /\ j \in Len(frames) .. Len(sent)
        BY <1>1, <2>7, <3>4
      <4>2. old[i] <= old[j] /\ new[i] = old[i] /\ new[j] = old[j]
        BY <2>4, <2>7, <3>1, <4>1, Zenon
      <4> QED
        BY <4>2, Zenon
    <3>5. CASE j = Len(sent) + 1 /\ i <= Len(sent)
      <4>1. i \in Len(frames) .. Len(sent) /\ new[i] = old[i] /\ old[i] <= old[Len(sent)]
        BY <1>1, <2>4, <3>1, <3>3, <3>5
      <4>2. ASSUME NEW a \in Int, NEW b \in Int, NEW n \in Nat, a <= b PROVE a <= b + n
        BY <4>2
      <4>3. old[i] <= old[Len(sent)] + Len(e)
        BY <1>4, <3>2, <3>3, <4>1, <4>2, Zenon
      <4> QED
        BY <2>4, <3>5, <4>1, <4>3, Zenon
    <3>6. CASE i = Len(sent) + 1 /\ j = Len(sent) + 1
      BY <1>1, <2>3, <3>6
    <3> QED
      BY <1>1, <2>7, <3>4, <3>5, <3>6
  <2>8. ASSUME NEW i \in Len(frames) + 1 .. Len(sent) + 1
        PROVE  /\ new[i] = new[i - 1] + Len(Encode(sent'[i]))
               /\ \A j \in 1 .. Len(Encode(sent'[i])) : Due'[new[i - 1] + j] = Encode(sent'[i])[j]
    <3>1. CASE i <= Len(sent)
      <4>1. /\ i \in Len(frames) + 1 .. Len(sent) /\ i \in 1 .. Len(sent)
            /\ i \in Len(frames) .. Len(sent) /\ i - 1 \in Len(frames) .. Len(sent)
            /\ Len(frames) \in Len(frames) .. Len(sent)
            /\ Len(sent) \in Len(frames) .. Len(sent)
        BY <1>1, <2>5, <3>1
      <4>2. new[i] = old[i] /\ new[i - 1] = old[i - 1] /\ sent'[i] = sent[i]
        BY <1>6, <2>4, <4>1
      <4>3. old[i] = old[i - 1] + Len(Encode(sent[i]))
        BY <2>1, <4>1 DEF Ends
      <4>4. ASSUME NEW j \in 1 .. Len(Encode(sent[i]))
            PROVE  Due'[old[i - 1] + j] = Encode(sent[i])[j]
        <5>1. old[i - 1] + j \in 1 .. Len(Due)
          BY <2>1, <4>1, InsideDue
        <5> QED
          BY <1>5, <2>1, <4>1, <5>1 DEF FramesDue
      <4> QED
        BY <4>2, <4>3, <4>4
    <3>2. CASE i = Len(sent) + 1
      <4>1. /\ i - 1 = Len(sent) /\ sent'[i] = p
            /\ Len(sent) \in Len(frames) .. Len(sent)
        BY <1>1, <1>6, <2>5, <3>2
      <4>2. new[i - 1] = Len(Due) /\ new[i] = new[i - 1] + Len(e)
        BY <2>2, <2>4, <3>2, <4>1
      <4>3. Encode(sent'[i]) = e
        BY <1>4, <4>1
      <4>4. new[i] = new[i - 1] + Len(Encode(sent'[i]))
        BY <4>2, <4>3
      <4>5. \A j \in 1 .. Len(Encode(sent'[i])) : Due'[new[i - 1] + j] = Encode(sent'[i])[j]
        <5>1. \A j \in 1 .. Len(e) : Due'[new[i - 1] + j] = e[j]
          BY <1>5, <4>2
        <5> QED
          BY <4>3, <5>1, Zenon
      <4> QED
        BY <4>4, <4>5
    <3>3. i <= Len(sent) \/ i = Len(sent) + 1
      BY <1>1
    <3> QED
      BY <3>1, <3>2, <3>3, Zenon
  <2>9. Len(Due') = new[Len(sent) + 1]
    BY <1>5, <2>2, <2>4
  <2>10. Ends(new)'
    <3>1. /\ new[Len(frames')] = 0
          /\ \A i, j \in Len(frames') .. Len(sent') : i <= j => new[i] <= new[j]
          /\ \A i \in Len(frames') + 1 .. Len(sent') :
               new[i] = new[i - 1] + Len(Encode(sent'[i]))
      BY <1>3, <1>6, <2>6, <2>7, <2>8
    <3>2. Len(Due') \in Int
      BY <2>2, <2>4, <2>9, <1>4, <1>1
    <3>3. Len(Due') = new[Len(sent')] + (IF announced' = -1 THEN 0 ELSE 4)
      BY <1>3, <1>6, <2>9, <3>2
    <3> QED
      BY <2>3, <3>1, <3>3 DEF Ends
  <2>11. FramesDue(new)'
    BY <1>3, <1>6, <2>8 DEF FramesDue
  <2>12. PrefixDue(new)'
    BY <1>3 DEF PrefixDue
  <2> QED
    BY <2>10, <2>11, <2>12
<1> QED
  BY <1>3, <1>7, <1>8, <1>9 DEF Inv, AnnouncedInv, ReceivingInv, HasFrame, FrameSize, PrefixOf,
       ThrowsOnlyOnWrap

LEMMA AnnounceStep ==
  ASSUME Inv, AnnounceFrame
  PROVE  Inv'
<1>1. TypeOK /\ Len(sent) \in Nat /\ Len(frames) \in Nat
  BY DEF Inv, TypeOK
<1>2. PICK len \in MaxSize + 1 .. Word - 1 : wire' = wire \o Prefix(len) /\ announced' = len
  BY DEF AnnounceFrame
<1>3. /\ server \in {"recv", "extract"} /\ announced = -1
      /\ UNCHANGED <<running, server, buffer, frames, sent, connections, dropped>>
  BY DEF AnnounceFrame
<1>4. len \in 0 .. Word - 1 /\ len > MaxSize /\ announced' # -1
  BY <1>2, WordFacts
<1>5. PICK e \in Seq(Bytes) : e = Prefix(len) /\ Len(e) = 4
  BY <1>4, PrefixInverse
<1>6. /\ wire' \in Seq(Bytes)
      /\ Len(Due') = Len(Due) + Len(e)
      /\ \A j \in 1 .. Len(Due) : Due'[j] = Due[j]
      /\ \A j \in 1 .. Len(e) : Due'[Len(Due) + j] = e[j]
  BY <1>1, <1>2, <1>3, <1>5, Grows
<1>7. TypeOK'
  BY <1>1, <1>2, <1>3, <1>4, <1>6 DEF TypeOK
<1>8. DueInv'
  <2> SUFFICES ASSUME ~ dropped
               PROVE  \E ends : (Ends(ends) /\ FramesDue(ends) /\ PrefixDue(ends))'
    BY <1>3 DEF DueInv
  <2>1. PICK ends : Ends(ends) /\ FramesDue(ends)
    BY <1>3 DEF Inv, DueInv
  <2>2. ends \in [Nat -> Int] /\ Len(Due) = ends[Len(sent)]
    BY <1>1, <1>3, <2>1 DEF Ends
  <2>3. Ends(ends)'
    <3>1. Len(Due') = ends[Len(sent')] + (IF announced' = -1 THEN 0 ELSE 4)
      BY <1>3, <1>4, <1>5, <1>6, <2>2
    <3> QED
      BY <1>3, <2>1, <3>1 DEF Ends
  <2>4. FramesDue(ends)'
    <3> SUFFICES ASSUME NEW i \in Len(frames) + 1 .. Len(sent),
                        NEW j \in 1 .. Len(Encode(sent[i]))
                 PROVE  Due'[ends[i - 1] + j] = Encode(sent[i])[j]
      BY <1>3 DEF FramesDue
    <3>1. ends[i - 1] + j \in 1 .. Len(Due)
      BY <1>1, <1>3, <2>1, InsideDue DEF Inv
    <3> QED
      BY <1>6, <2>1, <3>1 DEF FramesDue
  <2>5. PrefixDue(ends)'
    BY <1>2, <1>3, <1>5, <1>6, <2>2 DEF PrefixDue
  <2> QED
    BY <2>3, <2>4, <2>5
<1> QED
  BY <1>2, <1>3, <1>4, <1>7, <1>8
  DEF Inv, AnnouncedInv, HandedInv, ReceivingInv, HasFrame, FrameSize, PrefixOf,
      ThrowsOnlyOnWrap

\* extractFrame() finds its numbers in the buffer whatever the buffer holds.
LEMMA SizeFacts ==
  ASSUME TypeOK, HasFrame(buffer)
  PROVE  /\ PrefixOf(buffer) \in Nat /\ FrameSize(buffer) \in 0 .. Len(buffer)
         /\ PrefixOf(buffer) <= MaxSize => FrameSize(buffer) = 4 + PrefixOf(buffer)
<1>1. buffer \in Seq(Bytes) /\ Len(buffer) >= 4 /\ Len(buffer) >= FrameSize(buffer)
  BY DEF TypeOK, HasFrame, PrefixLength
<1>2. PICK a \in Bytes, b \in Bytes, c \in Bytes, d \in Bytes :
        a = buffer[1] /\ b = buffer[2] /\ c = buffer[3] /\ d = buffer[4]
  BY <1>1
<1>3. PrefixOf(buffer) = a * (Radix * Radix * Radix) + b * (Radix * Radix) + c * Radix + d
  BY <1>2, RadixAssumption DEF PrefixOf, Place, Bytes
<1>4. PrefixOf(buffer) \in Nat
  BY <1>3, RadixAssumption DEF Bytes
<1>5. (4 + PrefixOf(buffer)) % Word \in Nat
  BY <1>4, WordFacts
<1>6. MaxSize + 4 < Word
  BY WordFacts DEF MaxSize
<1>7. ASSUME NEW n \in Nat, n <= MaxSize PROVE (4 + n) % Word = 4 + n
  BY <1>6, <1>7, WordFacts
<1> QED
  BY <1>1, <1>4, <1>5, <1>7 DEF FrameSize, PrefixLength

LEMMA ExtractStep ==
  ASSUME Inv, ExtractFrame
  PROVE  Inv'
<1>1. /\ TypeOK /\ buffer \in Seq(Bytes) /\ frames \in Seq(Seq(Bytes))
      /\ sent \in Seq(Payloads) /\ Len(sent) \in Nat /\ Len(frames) \in Nat
  BY DEF Inv, TypeOK
<1>2. /\ server = "extract" /\ HasFrame(buffer) /\ PrefixOf(buffer) <= MaxSize
      /\ frames' = Append(frames, SubSeq(buffer, 5, FrameSize(buffer)))
      /\ buffer' = SubSeq(buffer, FrameSize(buffer) + 1, Len(buffer))
      /\ UNCHANGED <<running, server, wire, sent, announced, connections, dropped>>
  BY DEF ExtractFrame, PrefixLength, wireVars
<1>3. PICK m \in Nat :
        4 <= m /\ m <= Len(buffer) /\ m = FrameSize(buffer) /\ m = 4 + PrefixOf(buffer)
  BY <1>1, <1>2, SizeFacts
<1>4. PICK payload :
        /\ payload \in Seq(Bytes)
        /\ payload = SubSeq(buffer, 5, m) /\ Len(payload) = m - 4
        /\ \A j \in 1 .. Len(payload) : payload[j] = buffer[4 + j]
  <2>1. ASSUME NEW b \in Seq(Bytes), NEW n \in 4 .. Len(b)
        PROVE  /\ SubSeq(b, 5, n) \in Seq(Bytes) /\ Len(SubSeq(b, 5, n)) = n - 4
               /\ \A j \in 1 .. n - 4 : SubSeq(b, 5, n)[j] = b[4 + j]
    OBVIOUS
  <2>2. /\ SubSeq(buffer, 5, m) \in Seq(Bytes) /\ Len(SubSeq(buffer, 5, m)) = m - 4
        /\ \A j \in 1 .. m - 4 : SubSeq(buffer, 5, m)[j] = buffer[4 + j]
    <3>1. m \in 4 .. Len(buffer)
      BY <1>1, <1>3
    <3> QED
      BY <1>1, <2>1, <3>1
  <2> QED
    BY <2>2
<1>5. /\ buffer' \in Seq(Bytes)
      /\ Len(Due') = Len(Due) - m
      /\ \A j \in 1 .. Len(Due) - m : Due'[j] = Due[m + j]
  <2>1. m \in 0 .. Len(buffer) /\ wire' = wire /\ buffer' = SubSeq(buffer, m + 1, Len(buffer))
    BY <1>1, <1>2, <1>3
  <2> QED
    BY <1>1, <2>1, Shrinks
<1>6. frames' = Append(frames, payload)
  BY <1>2, <1>3, <1>4
<1>7. /\ frames' \in Seq(Seq(Bytes)) /\ Len(frames') = Len(frames) + 1
      /\ \A i \in 1 .. Len(frames) : frames'[i] = frames[i]
      /\ frames'[Len(frames) + 1] = payload
  BY <1>1, <1>4, <1>6
<1>8. TypeOK'
  BY <1>1, <1>2, <1>5, <1>7 DEF TypeOK
<1>9. ASSUME ~ dropped
      PROVE  /\ Len(frames') <= Len(sent) /\ sent[Len(frames) + 1] = payload
             /\ \E ends : (Ends(ends) /\ FramesDue(ends) /\ PrefixDue(ends))'
  <2>1. /\ Len(sent) \in Nat /\ Len(frames) \in Nat /\ Len(buffer) \in Nat
        /\ m \in Nat /\ m >= 4 /\ m <= Len(buffer) /\ Len(payload) = m - 4
        /\ Len(frames') = Len(frames) + 1
    BY <1>1, <1>3, <1>4, <1>7
  <2>2. PICK ends \in [Nat -> Int] : Ends(ends) /\ FramesDue(ends) /\ PrefixDue(ends)
    BY <1>2, <1>9 DEF Inv, DueInv, Ends
  <2>3. Len(buffer) >= 4
    BY <1>2 DEF HasFrame, PrefixLength
  <2>4. /\ Len(frames) < Len(sent)
        /\ PrefixOf(buffer) = Len(sent[Len(frames) + 1])
        /\ FrameSize(buffer) = Len(Encode(sent[Len(frames) + 1]))
        /\ ends[Len(frames) + 1] = FrameSize(buffer)
    <3>1. announced # -1 => announced > MaxSize
      BY DEF Inv, AnnouncedInv
    <3>2. ~ (announced # -1 /\ PrefixOf(buffer) = announced)
      <4>1. announced \in Int /\ PrefixOf(buffer) \in Nat /\ MaxSize \in Nat
        BY <1>1, <1>2, SizeFacts, WordFacts DEF TypeOK
      <4> QED
        BY <1>2, <3>1, <4>1
    <3> QED
      BY <1>2, <1>9, <2>2, <2>3, <3>2, BufferFront
  <2>5. PICK k \in Nat : k = Len(frames) + 1 /\ k \in 1 .. Len(sent)
    BY <1>1, <2>4
  <2>6. PICK p : p \in Payloads /\ p = sent[k]
    BY <1>1, <2>5
  <2>7. /\ p \in Seq(Bytes) /\ Len(Encode(p)) = 4 + Len(p)
        /\ \A j \in 1 .. Len(p) : Encode(p)[4 + j] = p[j]
        /\ m = Len(Encode(p)) /\ ends[k] = m
    BY <1>3, <2>4, <2>5, <2>6, EncodeFacts
  <2>8. ends \in [Nat -> Int] /\ ends[k - 1] = 0
    BY <1>1, <2>2, <2>5 DEF Ends
  <2>9. p = payload
    <3>1. Len(p) \in Nat /\ Len(p) = Len(payload)
      BY <1>4, <2>7
    <3>2. ASSUME NEW j \in 1 .. Len(p) PROVE p[j] = payload[j]
      <4>1. 4 + j \in 1 .. Len(Encode(p)) /\ 4 + j \in 1 .. Len(buffer) /\ j \in 1 .. Len(payload)
        BY <2>1, <2>7, <3>1
      <4>2. Due[ends[k - 1] + (4 + j)] = Encode(p)[4 + j]
        <5>1. k \in Len(frames) + 1 .. Len(sent)
          BY <2>1, <2>5
        <5>2. \A i \in 1 .. Len(Encode(p)) : Due[ends[k - 1] + i] = Encode(p)[i]
          BY <2>2, <2>6, <5>1, Zenon DEF FramesDue
        <5> QED
          BY <4>1, <5>2, Zenon
      <4>3. Due[4 + j] = buffer[4 + j]
        BY <1>1, <4>1, DueFacts
      <4>4. ends[k - 1] + (4 + j) = 4 + j
        BY <2>8, <3>1
      <4>5. Encode(p)[4 + j] = p[j] /\ payload[j] = buffer[4 + j]
        BY <1>4, <2>7, <4>1, Zenon
      <4> QED
        BY <4>2, <4>3, <4>4, <4>5, Zenon
    <3> QED
      BY <1>4, <2>7, <3>1, <3>2, SameElements
  <2>10. PICK T \in Nat, D \in Nat, d \in Nat :
          /\ T = Len(sent) /\ D = Len(Due) /\ d = IF announced = -1 THEN 0 ELSE 4
    BY <1>1, DueFacts
  <2>11. k <= T /\ T \in k .. T /\ Len(frames') = k /\ Len(frames) + 1 = k
    BY <2>1, <2>5, <2>10
  <2>12. Len(Due') = D - m /\ \A i \in 1 .. D - m : Due'[i] = Due[m + i]
    BY <1>5, <2>10, Zenon
  <2>13. /\ \A i, j \in k .. T : i <= j => ends[i] <= ends[j]
         /\ \A i \in k + 1 .. T : ends[i] = ends[i - 1] + Len(Encode(sent[i]))
         /\ D = ends[T] + d
    <3>1. \A i \in k .. T : i \in Len(frames) .. T
      BY <2>1, <2>11
    <3>2. \A i \in k + 1 .. T : i \in Len(frames) + 1 .. T
      BY <2>1, <2>11
    <3> QED
      BY <2>2, <2>10, <3>1, <3>2, Zenon DEF Ends
  <2>14. PICK size \in [Nat -> Nat] :
           \A i \in k + 1 .. T : size[i] = Len(Encode(sent[i]))
    <3>1. ASSUME NEW i \in k + 1 .. T PROVE Len(Encode(sent[i])) \in Nat
      <4>1. i \in 1 .. Len(sent)
        BY <2>10, <2>11
      <4>2. sent[i] \in Payloads
        BY <1>1, <4>1
      <4>3. Encode(sent[i]) \in Seq(Bytes)
        BY <4>2, EncodeFacts
      <4> QED
        BY <4>3
    <3>2. PICK size : size = [i \in Nat |-> IF i \in k + 1 .. T THEN Len(Encode(sent[i])) ELSE 0]
      OBVIOUS
    <3>3. size \in [Nat -> Nat]
      BY <3>1, <3>2
    <3>4. \A i \in k + 1 .. T : i \in Nat
      BY <2>11
    <3> QED
      BY <3>2, <3>3, <3>4
  <2>15. PICK new \in [Nat -> Int] : \A i \in Nat : new[i] = ends[i] - m
    <3>1. \A i \in Nat : ends[i] \in Int /\ ends[i] - m \in Int
      BY <2>8
    <3>2. [i \in Nat |-> ends[i] - m] \in [Nat -> Int]
      BY <3>1
    <3> QED
      BY <3>2
  <2>16. /\ new[k] = 0 /\ D - m = new[T] + d
         /\ \A i, j \in k .. T : i <= j => new[i] <= new[j]
         /\ \A i \in k + 1 .. T : new[i] = new[i - 1] + size[i]
         /\ \A i \in k .. T : \A j \in Nat \ {0} : ends[i] + j <= D =>
              new[i] + j \in 1 .. D - m /\ m + (new[i] + j) = ends[i] + j
    <3>1. \A i \in k + 1 .. T : ends[i] = ends[i - 1] + size[i]
      BY <2>13, <2>14
    <3>2. /\ ends[k] = m /\ D = ends[T] + d
          /\ \A i, j \in k .. T : i <= j => ends[i] <= ends[j]
      BY <2>7, <2>13, Zenon
    <3>3. \A i \in Nat : new[i] = ends[i] - m /\ ends[i] \in Int
      BY <2>15
    <3>4. new[k] = 0 /\ D - m = new[T] + d
      BY <3>2, <3>3
    <3>5. ASSUME NEW i \in k .. T, NEW j \in k .. T, i <= j PROVE new[i] <= new[j]
      <4>1. i \in Nat /\ j \in Nat /\ ends[i] <= ends[j]
        BY <2>11, <3>2, <3>5
      <4>2. PICK a \in Int, b \in Int : a = ends[i] /\ b = ends[j] /\ a <= b
        BY <3>3, <4>1
      <4>3. new[i] = a - m /\ new[j] = b - m
        BY <3>3, <4>1, <4>2
      <4> QED
        BY <4>2, <4>3
    <3>6. \A i \in k + 1 .. T : new[i] = new[i - 1] + size[i]
      BY <2>15, <3>1
    <3>7. ASSUME NEW i \in k .. T, NEW j \in Nat \ {0}, ends[i] + j <= D
          PROVE  new[i] + j \in 1 .. D - m /\ m + (new[i] + j) = ends[i] + j
      <4>1. i \in Nat /\ k \in k .. T /\ k <= i
        BY <2>11
      <4>2. m <= ends[i]
        BY <2>7, <2>13, <4>1
      <4> QED
        BY <2>15, <3>7, <4>1, <4>2
    <3> QED
      BY <3>4, <3>5, <3>6, <3>7, Zenon
  <2>17. Ends(new)'
    <3>1. sent' = sent /\ announced' = announced
      BY <1>2
    <3>2. Len(Due') = new[Len(sent)] + (IF announced = -1 THEN 0 ELSE 4)
      BY <2>10, <2>12, <2>16, Zenon
    <3>3. \A i \in k + 1 .. T : new[i] = new[i - 1] + Len(Encode(sent[i]))
      BY <2>14, <2>16, Zenon
    <3> QED
      BY <2>10, <2>11, <2>16, <3>1, <3>2, <3>3, Zenon DEF Ends
  <2>18. FramesDue(new)'
    <3>1. sent' = sent /\ Len(frames') = k /\ T = Len(sent)
      BY <1>2, <2>10, <2>11
    <3> SUFFICES ASSUME NEW i \in k + 1 .. T, NEW j \in 1 .. Len(Encode(sent[i]))
                 PROVE  Due'[new[i - 1] + j] = Encode(sent[i])[j]
      BY <3>1, Zenon DEF FramesDue
    <3>2. i - 1 \in k .. T /\ i \in Len(frames) + 1 .. Len(sent) /\ j \in Nat \ {0}
      <4>1. j \in Nat \ {0}
        OBVIOUS
      <4>2. i - 1 \in k .. T /\ i \in Len(frames) + 1 .. T
        BY <2>1, <2>11
      <4> QED
        BY <3>1, <4>1, <4>2, Zenon
    <3>3. ends[i - 1] + j \in 1 .. Len(Due)
      BY <2>2, <3>2, InsideDue
    <3>4. Due[ends[i - 1] + j] = Encode(sent[i])[j]
      BY <2>2, <3>2, Zenon DEF FramesDue
    <3>5. ends[i - 1] + j <= D
      BY <2>10, <3>3
    <3>6. new[i - 1] + j \in 1 .. D - m /\ m + (new[i - 1] + j) = ends[i - 1] + j
      BY <2>16, <3>2, <3>5, Zenon
    <3>7. Due'[new[i - 1] + j] = Due[m + (new[i - 1] + j)]
      BY <2>12, <3>6, Zenon
    <3> QED
      BY <3>4, <3>6, <3>7, Zenon
  <2>19. PrefixDue(new)'
    <3>1. PICK a \in Int : a = ends[T] /\ D = a + d
      BY <2>8, <2>13
    <3>2. ASSUME NEW j \in 1 .. 4, D = a + 4 PROVE j \in Nat \ {0} /\ a + j <= D
      BY <3>2
    <3> SUFFICES ASSUME announced # -1, NEW j \in 1 .. 4
                 PROVE  Due'[new[T] + j] = Prefix(announced)[j]
      BY <1>2, <2>10, Zenon DEF PrefixDue
    <3>3. j \in Nat \ {0} /\ ends[T] + j <= D /\ Due[ends[T] + j] = Prefix(announced)[j]
      BY <2>2, <2>10, <3>1, <3>2, Zenon DEF PrefixDue
    <3>4. new[T] + j \in 1 .. D - m /\ m + (new[T] + j) = ends[T] + j
      BY <2>11, <2>16, <3>3, Zenon
    <3>5. Due'[new[T] + j] = Due[m + (new[T] + j)]
      BY <2>12, <3>4, Zenon
    <3> QED
      BY <3>3, <3>4, <3>5, Zenon
  <2>20. Len(frames') <= Len(sent)
    BY <2>1, <2>4
  <2> QED
    BY <2>5, <2>6, <2>9, <2>20, <2>17, <2>18, <2>19
<1>10. HandedInv'
  <2> SUFFICES ASSUME ~ dropped, NEW i \in 1 .. Len(frames) + 1 PROVE frames'[i] = sent[i]
    BY <1>2, <1>7, <1>9 DEF HandedInv
  <2>1. CASE i <= Len(frames)
    BY <1>1, <1>7, <2>1 DEF Inv, HandedInv
  <2>2. CASE i = Len(frames) + 1
    BY <1>7, <1>9, <2>2
  <2> QED
    BY <1>1, <2>1, <2>2
<1> QED
  BY <1>2, <1>8, <1>9, <1>10 DEF Inv, AnnouncedInv, ReceivingInv, DueInv, ThrowsOnlyOnWrap

LEMMA ReceiveStep ==
  ASSUME Inv, OnDataReceived
  PROVE  Inv'
<1>1. PICK n \in 1 .. Len(wire) :
        /\ wire' = SubSeq(wire, n + 1, Len(wire))
        /\ \/ /\ running
              /\ buffer' = buffer \o SubSeq(wire, 1, n)
              /\ server' = "extract" /\ UNCHANGED dropped
           \/ ~ running /\ dropped' = TRUE /\ UNCHANGED <<buffer, server>>
  BY DEF OnDataReceived
<1>2. server = "recv" /\ UNCHANGED <<running, frames, sent, announced, connections>>
  BY DEF OnDataReceived
<1>3. TypeOK
  BY DEF Inv
<1>4. CASE running /\ buffer' = buffer \o SubSeq(wire, 1, n) /\ server' = "extract"
           /\ UNCHANGED dropped
  <2>1. buffer' \in Seq(Bytes) /\ wire' \in Seq(Bytes) /\ Due' = Due
    BY <1>1, <1>3, <1>4, Moves
  <2>2. TypeOK'
    BY <1>2, <1>3, <1>4, <2>1 DEF TypeOK
  <2>3. DueInv'
    BY <1>2, <1>4, <2>1 DEF Inv, DueInv, Ends, FramesDue, PrefixDue
  <2> QED
    BY <1>2, <1>4, <2>2, <2>3 DEF Inv, AnnouncedInv, HandedInv, ReceivingInv, ThrowsOnlyOnWrap
<1>5. CASE ~ running /\ dropped' = TRUE /\ UNCHANGED <<buffer, server>>
  <2>1. wire' \in Seq(Bytes)
    <3>1. wire \in Seq(Bytes)
      BY <1>3 DEF TypeOK
    <3> QED
      BY <1>1, <3>1
  <2>2. TypeOK'
    BY <1>2, <1>3, <1>5, <2>1 DEF TypeOK
  <2> QED
    BY <1>2, <1>5, <2>2 DEF Inv, AnnouncedInv, HandedInv, ReceivingInv, HasFrame, FrameSize,
         PrefixOf, DueInv, ThrowsOnlyOnWrap
<1> QED
  BY <1>1, <1>4, <1>5

\* The sum wraps for the last four lengths only.
LEMMA ThrowStep ==
  ASSUME Inv, AssignThrows
  PROVE  Inv'
<1>1. /\ server = "extract" /\ HasFrame(buffer) /\ PrefixOf(buffer) > MaxSize
      /\ server' = "thrown"
      /\ UNCHANGED <<running, buffer, frames, wire, sent, announced, connections, dropped>>
  BY DEF AssignThrows, wireVars
<1>2. TypeOK'
  BY <1>1 DEF Inv, TypeOK
<1>3. ASSUME ~ dropped PROVE announced >= Word - 4
  <2>1. PICK ends : Ends(ends) /\ FramesDue(ends) /\ PrefixDue(ends)
    BY <1>1, <1>3 DEF Inv, DueInv
  <2>2. Len(buffer) >= 4 /\ Len(buffer) >= FrameSize(buffer)
    BY <1>1 DEF HasFrame, PrefixLength
  <2>3. CASE /\ Len(frames) < Len(sent)
             /\ PrefixOf(buffer) = Len(sent[Len(frames) + 1])
    <3>1. Len(frames) + 1 \in 1 .. Len(sent) /\ sent \in Seq(Payloads)
      BY <2>3 DEF Inv, TypeOK
    <3>2. PICK p \in Payloads : p = sent[Len(frames) + 1]
      BY <3>1
    <3>3. Len(p) \in Nat /\ Len(p) <= MaxSize - 4
      BY EncodeFacts
    <3> QED
      BY <1>1, <2>3, <3>2, <3>3, WordFacts
  <2>4. CASE announced # -1 /\ PrefixOf(buffer) = announced /\ Len(buffer) < 5
    <3>1. PICK a \in Nat : a = announced /\ a < Word
      BY <2>4, WordFacts DEF Inv, TypeOK
    <3>2. (4 + a) % Word < 5 /\ a > MaxSize
      <4>1. FrameSize(buffer) = (4 + a) % Word
        BY <2>4, <3>1 DEF FrameSize, PrefixLength
      <4>2. (4 + a) % Word \in Nat /\ MaxSize \in Nat
        BY <3>1, WordFacts
      <4>3. PICK b \in Nat : b = Len(buffer)
        BY DEF Inv, TypeOK
      <4> QED
        BY <1>1, <2>2, <2>4, <3>1, <4>1, <4>2, <4>3
    <3>3. ASSUME 4 + a < Word PROVE FALSE
      <4>1. (4 + a) % Word = 4 + a
        BY <3>3, WordFacts
      <4> QED
        BY <3>2, <4>1, WordFacts
    <3> QED
      BY <3>1, <3>3, WordFacts
  <2> QED
    BY <1>1, <1>3, <2>1, <2>2, <2>3, <2>4, BufferFront
<1>4. ThrowsOnlyOnWrap'
  BY <1>1, <1>3 DEF ThrowsOnlyOnWrap, PrefixLength
<1> QED
  BY <1>1, <1>2, <1>4 DEF Inv, AnnouncedInv, HandedInv, ReceivingInv, DueInv

LEMMA ConnectStep ==
  ASSUME Inv, OnClientConnected
  PROVE  Inv'
<1>1. /\ server = "accept" /\ connections < MaxConnections /\ connections' = connections + 1
      /\ buffer' = <<>> /\ wire' = <<>> /\ sent' = <<>> /\ announced' = -1 /\ frames' = <<>>
      /\ dropped' = FALSE /\ server' = "recv" /\ running' = running
  BY DEF OnClientConnected, ClearBuffer
<1>2. TypeOK'
  <2>1. <<>> \in Seq(Bytes) /\ <<>> \in Seq(Seq(Bytes)) /\ <<>> \in Seq(Payloads)
    OBVIOUS
  <2>2. -1 \in -1 .. Word - 1
    BY WordFacts
  <2>3. connections + 1 \in 0 .. MaxConnections
    BY <1>1, BoundsAssumption DEF Inv, TypeOK
  <2> QED
    BY <1>1, <2>1, <2>2, <2>3 DEF Inv, TypeOK
<1>3. DueInv'
  <2>1. PICK ends : ends \in [Nat -> Int] /\ ends[0] = 0
    <3>1. [i \in Nat |-> 0] \in [Nat -> Int] /\ [i \in Nat |-> 0][0] = 0
      OBVIOUS
    <3> QED
      BY <3>1
  <2>2. Due' = <<>> /\ Len(Due') = 0 /\ Len(frames') = 0 /\ Len(sent') = 0
    BY <1>1 DEF Due
  <2>3. Ends(ends)'
    <3>1. \A i, j \in 0 .. 0 : i <= j => ends[i] <= ends[j]
      BY <2>1
    <3>2. \A i \in 0 + 1 .. 0 : ends[i] = ends[i - 1] + Len(Encode(sent'[i]))
      OBVIOUS
    <3>3. Len(Due') = ends[Len(sent')] + (IF announced' = -1 THEN 0 ELSE 4)
      BY <1>1, <2>1, <2>2
    <3> QED
      BY <2>1, <2>2, <3>1, <3>2, <3>3, Zenon DEF Ends
  <2>4. FramesDue(ends)'
    <3>1. \A i \in 0 + 1 .. 0 : FALSE
      OBVIOUS
    <3> QED
      BY <2>2, <3>1, Zenon DEF FramesDue
  <2>5. PrefixDue(ends)'
    BY <1>1 DEF PrefixDue
  <2> QED
    BY <2>3, <2>4, <2>5 DEF DueInv
<1>4. HandedInv' /\ ReceivingInv'
  BY <1>1 DEF HandedInv, ReceivingInv, HasFrame, PrefixLength
<1> QED
  BY <1>1, <1>2, <1>3, <1>4 DEF Inv, AnnouncedInv, ThrowsOnlyOnWrap

LEMMA OtherSteps ==
  ASSUME Inv, SetRunning \/ LoopEnds \/ OnClientDisconnected \/ UNCHANGED vars
  PROVE  Inv'
<1>1. CASE SetRunning
  BY <1>1 DEF SetRunning, wireVars, Inv, TypeOK, AnnouncedInv, HandedInv, ReceivingInv, HasFrame,
       FrameSize, PrefixOf, DueInv, Ends, FramesDue, PrefixDue, Due, ThrowsOnlyOnWrap
<1>2. CASE LoopEnds
  BY <1>2 DEF LoopEnds, wireVars, Inv, TypeOK, AnnouncedInv, HandedInv, ReceivingInv, HasFrame,
       FrameSize, PrefixOf, DueInv, Ends, FramesDue, PrefixDue, Due, ThrowsOnlyOnWrap
<1>3. CASE OnClientDisconnected
  BY <1>3 DEF OnClientDisconnected, ClearBuffer, wireVars, Inv, TypeOK, AnnouncedInv, HandedInv,
       ReceivingInv, DueInv, ThrowsOnlyOnWrap
<1>4. CASE UNCHANGED vars
  BY <1>4 DEF vars, wireVars, Inv, TypeOK, AnnouncedInv, HandedInv, ReceivingInv, HasFrame,
       FrameSize, PrefixOf, DueInv, Ends, FramesDue, PrefixDue, Due, ThrowsOnlyOnWrap
<1> QED
  BY <1>1, <1>2, <1>3, <1>4

LEMMA NextInv == Inv /\ [Next]_vars => Inv'
  BY SendStep, AnnounceStep, ExtractStep, ReceiveStep, ThrowStep, ConnectStep, OtherSteps
     DEF Next, Controller, Extraction

LEMMA Invariant == Spec => []Inv
  BY InitInv, NextInv, PTL DEF Spec

-----------------------------------------------------------------------------
(***************************************************************************)
(* The theorems.                                                           *)
(***************************************************************************)
\* Every variable has its type: the buffer holds bytes and what is handed over is bytes.
THEOREM TypeCorrect == Spec => []TypeOK
<1>1. Inv => TypeOK
  BY DEF Inv
<1> QED
  BY <1>1, Invariant, PTL

\* However recv() cuts the stream, onMessageReceived() gets the payloads that were written,
\* whole and in order (ProtocolHandler::extractFrame, NetworkManager::onDataReceived).
THEOREM Sent == Spec => []FramesAsSent
<1>1. ASSUME Inv PROVE FramesAsSent
  <2> SUFFICES ASSUME ~ dropped PROVE IsPrefix(frames, sent)
    BY DEF FramesAsSent
  <2>1. /\ frames \in Seq(Seq(Bytes)) /\ sent \in Seq(Payloads)
        /\ Len(frames) \in Nat /\ Len(sent) \in Nat /\ Len(frames) <= Len(sent)
        /\ \A i \in 1 .. Len(frames) : frames[i] = sent[i]
    BY <1>1 DEF Inv, TypeOK, HandedInv
  <2>2. SubSeq(frames, 1, Len(frames)) = SubSeq(sent, 1, Len(frames))
    <3>1. SubSeq(frames, 1, Len(frames)) = [i \in 1 .. Len(frames) |-> frames[i]]
      BY <2>1
    <3>2. SubSeq(sent, 1, Len(frames)) = [i \in 1 .. Len(frames) |-> sent[i]]
      BY <2>1
    <3> QED
      BY <2>1, <3>1, <3>2
  <2> QED
    BY <2>1, <2>2 DEF IsPrefix
<1> QED
  BY <1>1, Invariant, PTL

\* A frame is handed over by the recv() that completes it: the loop of onDataReceived() leaves
\* no complete frame in the receive buffer.
THEOREM NothingHeld == Spec => []NothingHeldBack
<1>1. ASSUME Inv PROVE NothingHeldBack
  <2> SUFFICES ASSUME server = "recv", wire = <<>>, ~ dropped PROVE frames = sent
    BY DEF NothingHeldBack
  <2>1. /\ frames \in Seq(Seq(Bytes)) /\ sent \in Seq(Payloads) /\ buffer \in Seq(Bytes)
        /\ Len(frames) \in Nat /\ Len(sent) \in Nat /\ Len(frames) <= Len(sent)
        /\ \A i \in 1 .. Len(frames) : frames[i] = sent[i]
    BY <1>1 DEF Inv, TypeOK, HandedInv
  <2>2. PICK ends : Ends(ends) /\ FramesDue(ends) /\ PrefixDue(ends)
    BY <1>1 DEF Inv, DueInv
  <2>3. ASSUME Len(frames) < Len(sent) PROVE FALSE
    <3>1. PICK k \in Nat : k = Len(frames) + 1 /\ k \in Len(frames) + 1 .. Len(sent)
      <4>1. Len(frames) \in Nat /\ Len(sent) \in Nat
        BY <2>1
      <4>2. Len(frames) + 1 \in Nat /\ Len(frames) + 1 \in Len(frames) + 1 .. Len(sent)
        BY <2>3, <4>1
      <4> QED
        BY <4>2, Zenon
    <3>2. sent[k] \in Payloads
      BY <2>1, <3>1
    <3>3. PICK l \in Nat : l = Len(Encode(sent[k])) /\ l >= 4
      BY <3>2, EncodeFacts
    <3>4. ends[k - 1] >= 0 /\ ends[k - 1] + l \in 1 .. Len(Due) /\ k - 1 = Len(frames)
      <4>1. l \in 1 .. Len(Encode(sent[k]))
        BY <3>3
      <4>2. ends[k - 1] >= 0 /\ ends[k - 1] + l \in 1 .. Len(Due)
        BY <1>1, <2>2, <3>1, <4>1, InsideDue, Zenon
      <4>3. ASSUME NEW n \in Nat, k = n + 1 PROVE k - 1 = n
        BY <4>3
      <4>4. Len(frames) \in Nat
        BY <2>1
      <4> QED
        BY <3>1, <4>2, <4>3, <4>4, Zenon
    <3>5. Len(Due) = Len(buffer)
      BY <1>1, <2>1, DueFacts DEF Inv
    <3>6. Len(buffer) >= l /\ Len(buffer) >= 4
      <4>1. ends[k - 1] = 0
        BY <2>2, <3>4 DEF Ends
      <4> QED
        BY <2>1, <3>3, <3>4, <3>5, <4>1
    <3>7. FrameSize(buffer) = l
      BY <1>1, <2>1, <2>2, <2>3, <3>1, <3>3, <3>6, BufferFront
    <3> QED
      BY <1>1, <3>6, <3>7 DEF Inv, ReceivingInv, HasFrame, PrefixLength
  <2>4. Len(frames) = Len(sent)
    BY <2>1, <2>3
  <2>5. /\ frames = [i \in 1 .. Len(frames) |-> frames[i]]
        /\ sent = [i \in 1 .. Len(sent) |-> sent[i]]
    BY <2>1
  <2> QED
    BY <2>1, <2>4, <2>5
<1> QED
  BY <1>1, Invariant, PTL

\* std::length_error leaves extractFrame() for the last four lengths of a word only, whose sum
\* with the length of the prefix wraps; any other length too long for a string is waited for.
THEOREM ThrowsSafe == Spec => []ThrowsOnlyOnWrap
<1>1. Inv => ThrowsOnlyOnWrap
  BY DEF Inv
<1> QED
  BY <1>1, Invariant, PTL

-----------------------------------------------------------------------------
(***************************************************************************)
(* The bytes implement FrameChannel.                                       *)
(***************************************************************************)
\* Until m_running is set nothing is taken out.
StartedInv == ~ running => frames = <<>> /\ server # "extract"

LEMMA StartedNext == TypeOK /\ StartedInv /\ [Next]_vars => StartedInv'
BY DEF StartedInv, TypeOK, Next, Controller, SendFrame, AnnounceFrame, SetRunning,
   OnClientConnected, OnDataReceived, Extraction, ExtractFrame, AssignThrows, LoopEnds,
   OnClientDisconnected, vars, wireVars

\* What has been handed over is a beginning of what was written; all of it, if it is as long.
LEMMA HandedAll ==
  ASSUME Inv, ~ dropped, Len(frames) = Len(sent)
  PROVE  frames = sent
<1>1. /\ frames \in Seq(Seq(Bytes)) /\ sent \in Seq(Payloads)
      /\ Len(frames) \in Nat /\ \A i \in 1 .. Len(frames) : frames[i] = sent[i]
  BY DEF Inv, TypeOK, HandedInv
<1>2. /\ frames = [i \in 1 .. Len(frames) |-> frames[i]]
      /\ sent = [i \in 1 .. Len(sent) |-> sent[i]]
  BY <1>1
<1> QED
  BY <1>1, <1>2

\* A frame that is taken out is the next payload.
LEMMA ExtractDelivers ==
  ASSUME Inv, Inv', ExtractFrame
  PROVE  Channel!Deliver
<1>1. /\ server = "extract"
      /\ frames' = Append(frames, SubSeq(buffer, PrefixLength + 1, FrameSize(buffer)))
      /\ UNCHANGED <<server, sent, announced, dropped>>
  BY DEF ExtractFrame, wireVars
<1>2. frames \in Seq(Seq(Bytes)) /\ frames' \in Seq(Seq(Bytes))
  BY DEF Inv, TypeOK
<1>3. PICK f : frames' = Append(frames, f)
  BY <1>1
<1>4. Len(frames') = Len(frames) + 1 /\ SubSeq(frames', 1, Len(frames)) = frames
  <2>1. /\ Len(frames) \in Nat /\ Len(frames') = Len(frames) + 1
        /\ \A i \in 1 .. Len(frames) : frames'[i] = frames[i]
    BY <1>2, <1>3
  <2>2. SubSeq(frames', 1, Len(frames)) \in Seq(Seq(Bytes))
        /\ Len(SubSeq(frames', 1, Len(frames))) = Len(frames)
        /\ \A i \in 1 .. Len(frames) : SubSeq(frames', 1, Len(frames))[i] = frames'[i]
    BY <1>2, <2>1
  <2> QED
    BY <1>2, <2>1, <2>2, SameElements
<1>5. ASSUME ~ dropped
      PROVE  Len(frames) < Len(sent) /\ frames'[Len(frames')] = sent[Len(frames')]
  <2>1. Len(frames') <= Len(sent) /\ \A i \in 1 .. Len(frames') : frames'[i] = sent[i]
    BY <1>1, <1>5 DEF Inv, HandedInv
  <2>2. Len(sent) \in Nat /\ Len(frames) \in Nat
    BY <1>2 DEF Inv, TypeOK
  <2> QED
    BY <1>4, <2>1, <2>2
<1> QED
  BY <1>1, <1>4, <1>5 DEF Channel!Deliver

\* frame.assign() throws behind the last payload: the front of the buffer is the length that
\* none follows.
LEMMA ThrowKills ==
  ASSUME Inv, Inv', AssignThrows
  PROVE  Channel!Die
<1>1. /\ server = "extract" /\ HasFrame(buffer) /\ PrefixOf(buffer) > MaxSize
      /\ server' = "thrown" /\ UNCHANGED <<frames, sent, announced, dropped>>
  BY DEF AssignThrows, wireVars
<1>2. ASSUME ~ dropped PROVE announced >= Word - PrefixLength
  BY <1>1, <1>2 DEF Inv, ThrowsOnlyOnWrap
<1>3. ASSUME ~ dropped PROVE frames = sent
  <2>1. PICK ends : Ends(ends) /\ FramesDue(ends) /\ PrefixDue(ends)
    BY <1>1, <1>3 DEF Inv, DueInv
  <2>2. Len(buffer) >= 4
    BY <1>1 DEF HasFrame, PrefixLength
  <2>3. ~ (Len(frames) < Len(sent) /\ PrefixOf(buffer) = Len(sent[Len(frames) + 1]))
    <3> SUFFICES ASSUME Len(frames) < Len(sent),
                        PrefixOf(buffer) = Len(sent[Len(frames) + 1])
                 PROVE  FALSE
      OBVIOUS
    <3>1. Len(frames) + 1 \in 1 .. Len(sent) /\ sent \in Seq(Payloads)
      <4>1. frames \in Seq(Seq(Bytes)) /\ sent \in Seq(Payloads)
        BY DEF Inv, TypeOK
      <4>2. Len(frames) \in Nat /\ Len(sent) \in Nat
        BY <4>1
      <4> QED
        BY <4>1, <4>2
    <3>2. PICK p \in Payloads : p = sent[Len(frames) + 1]
      BY <3>1
    <3>3. Len(p) \in Nat /\ Len(p) <= MaxSize - 4
      BY EncodeFacts
    <3> QED
      BY <1>1, <3>2, <3>3, WordFacts
  <2>4. Len(frames) = Len(sent)
    BY <1>1, <1>3, <2>1, <2>2, <2>3, BufferFront
  <2> QED
    BY <1>3, <2>4, HandedAll
<1> QED
  BY <1>1, <1>2, <1>3 DEF Channel!Die

\* Every step of the bytes is one of the channel, or none of its.
LEMMA ChannelStep ==
  ASSUME Inv, Inv', StartedInv, [Next]_vars
  PROVE  [Channel!Next]_(Channel!vars)
<1>1. CASE SendFrame
  <2>1. /\ server \in {"recv", "extract"} /\ announced = -1
        /\ \E p \in Payloads : sent' = Append(sent, p)
        /\ UNCHANGED <<server, frames, announced, dropped>>
    BY <1>1 DEF SendFrame
  <2>2. ~ (announced >= Word - PrefixLength)
    BY <2>1, WordFacts DEF PrefixLength
  <2>3. Channel!Send
    BY <2>1, <2>2 DEF Channel!Send
  <2> QED
    BY <2>3 DEF Channel!Next
<1>2. CASE AnnounceFrame
  <2>1. /\ server \in {"recv", "extract"} /\ announced = -1
        /\ UNCHANGED <<server, frames, sent, dropped>>
    BY <1>2 DEF AnnounceFrame
  <2>2. ~ (announced >= Word - PrefixLength)
    BY <2>1, WordFacts DEF PrefixLength
  <2>3. CASE announced' >= Word - PrefixLength
    <3>1. Channel!Poison
      BY <2>1, <2>2, <2>3 DEF Channel!Poison
    <3> QED
      BY <3>1 DEF Channel!Next
  <2>4. CASE ~ (announced' >= Word - PrefixLength)
    BY <2>1, <2>2, <2>4 DEF Channel!vars
  <2> QED
    BY <2>3, <2>4
<1>3. CASE OnClientConnected
  <2>1. /\ server = "accept" /\ server' = "recv"
        /\ sent' = <<>> /\ frames' = <<>> /\ announced' = -1 /\ dropped' = FALSE
    BY <1>3 DEF OnClientConnected
  <2>2. ~ (announced' >= Word - PrefixLength)
    BY <2>1, WordFacts DEF PrefixLength
  <2>3. Channel!Connect
    BY <2>1, <2>2 DEF Channel!Connect
  <2> QED
    BY <2>3 DEF Channel!Next
<1>4. CASE OnDataReceived
  <2>1. server = "recv" /\ UNCHANGED <<frames, sent, announced>>
    BY <1>4 DEF OnDataReceived
  <2>2. CASE running
    <3>1. server' = "extract" /\ UNCHANGED dropped
      BY <1>4, <2>2 DEF OnDataReceived
    <3> QED
      BY <2>1, <3>1 DEF Channel!vars
  <2>3. CASE ~ running
    <3>1. dropped' /\ UNCHANGED server
      BY <1>4, <2>3 DEF OnDataReceived
    <3>2. frames = <<>>
      BY <2>3 DEF StartedInv
    <3>3. Channel!LoseFraming
      BY <2>1, <3>1, <3>2 DEF Channel!LoseFraming
    <3> QED
      BY <3>3 DEF Channel!Next
  <2> QED
    BY <2>2, <2>3
<1>5. CASE OnClientDisconnected
  <2>1. server = "recv" /\ server' = "accept" /\ UNCHANGED <<frames, sent, announced, dropped>>
    BY <1>5 DEF OnClientDisconnected, wireVars
  <2>2. Channel!Disconnect
    BY <2>1 DEF Channel!Disconnect
  <2> QED
    BY <2>2 DEF Channel!Next
<1>6. CASE ExtractFrame
  BY <1>6, ExtractDelivers DEF Channel!Next
<1>7. CASE AssignThrows
  BY <1>7, ThrowKills DEF Channel!Next
<1>8. CASE SetRunning \/ UNCHANGED vars
  <2>1. UNCHANGED <<server, frames, sent, announced, dropped>>
    BY <1>8 DEF SetRunning, vars, wireVars
  <2> QED
    BY <2>1 DEF Channel!vars
<1>9. CASE LoopEnds
  <2>1. /\ server = "extract" /\ server' = "recv"
        /\ UNCHANGED <<frames, sent, announced, dropped>>
    BY <1>9 DEF LoopEnds, wireVars
  <2> QED
    BY <2>1 DEF Channel!vars
<1> QED
  BY <1>1, <1>2, <1>3, <1>4, <1>5, <1>6, <1>7, <1>8, <1>9 DEF Next, Controller, Extraction

\* Prefixes, receive buffer and loop give onMessageReceived() the channel of whole payloads,
\* for every radix, every cut of the stream and any number of connections.
THEOREM ChannelImplemented == Spec => ChannelSpec
<1>1. Init => Channel!Init /\ StartedInv
  BY WordFacts DEF Init, Channel!Init, StartedInv, PrefixLength
<1>2. Inv /\ Inv' /\ StartedInv /\ [Next]_vars => [Channel!Next]_(Channel!vars)
  BY ChannelStep
<1>3. Inv => TypeOK
  BY DEF Inv
<1> QED
  BY <1>1, <1>2, <1>3, StartedNext, Invariant, PTL DEF Spec, ChannelSpec, Channel!Spec

=============================================================================
