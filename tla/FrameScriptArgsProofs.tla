----------------------- MODULE FrameScriptArgsProofs -----------------------
(***************************************************************************)
(* Proofs of FrameScriptArgs's invariants, for an address space, a page, a *)
(* chunk and a bound of any size, any stack, any memory, and strings and   *)
(* format strings of any length.                                           *)
(***************************************************************************)
EXTENDS FrameScriptArgs, WellFoundedInduction, TLAPS

-----------------------------------------------------------------------------
(***************************************************************************)
(* Smallest elements.                                                      *)
(***************************************************************************)
\* An element that no other is below is what Min chooses.
LEMMA MinIs ==
  ASSUME NEW S, S \subseteq Int, NEW m \in S, \A x \in S : m <= x
  PROVE  Min(S) = m
<1>1. Min(S) \in S /\ \A x \in S : Min(S) <= x
  BY DEF Min
<1>2. Min(S) \in Int /\ m \in Int /\ Min(S) <= m /\ m <= Min(S)
  BY <1>1
<1> QED
  BY <1>2

\* A set of numbers has a smallest one.
LEMMA MinOfNat ==
  ASSUME NEW S, S \subseteq Nat, S # {}
  PROVE  Min(S) \in S /\ \A x \in S : Min(S) <= x
<1>1. PICK m : m \in S /\ \A x \in S : ~ (<<x, m>> \in OpToRel(<, Nat))
  BY NatLessThanWellFounded, WFMin
<1>2. m \in Nat /\ \A x \in S : x \in Nat /\ ~ (x < m)
  BY <1>1 DEF OpToRel
<1>3. \A x \in S : m <= x
  BY <1>2
<1>4. S \subseteq Int
  OBVIOUS
<1>5. Min(S) = m
  BY <1>1, <1>3, <1>4, MinIs
<1> QED
  BY <1>1, <1>3, <1>5

LEMMA MinOfTwo ==
  ASSUME NEW a \in Int, NEW b \in Int
  PROVE  Min({a, b}) = IF a <= b THEN a ELSE b
<1>1. CASE a <= b
  BY <1>1, MinIs
<1>2. CASE ~ (a <= b)
  BY <1>2, MinIs
<1> QED
  BY <1>1, <1>2

-----------------------------------------------------------------------------
(***************************************************************************)
(* Addresses.                                                              *)
(***************************************************************************)
\* A number is a multiple of the divisor and the rest.
LEMMA Remainder ==
  ASSUME NEW n \in Int, NEW d \in Nat \ {0}
  PROVE  n % d \in 0 .. d - 1 /\ \E q \in Int : n = d * q + (n % d)
<1>1. n \div d \in Int /\ n % d \in Int /\ n % d \in 0 .. d - 1
  OBVIOUS
<1>2. ASSUME NEW q \in Int, NEW r \in Int, q = n \div d, r = n % d
      PROVE  n = d * q + r
  BY <1>2
<1>3. n = d * (n \div d) + (n % d)
  BY <1>1, <1>2
<1> QED
  BY <1>1, <1>3

\* There is only one such rest.
LEMMA RemainderIs ==
  ASSUME NEW n \in Int, NEW d \in Nat \ {0}, NEW q \in Int, NEW r \in Int,
         n = d * q + r, 0 <= r, r < d
  PROVE  n % d = r
OBVIOUS

LEMMA Multiple ==
  ASSUME NEW n \in Int, NEW d \in Nat \ {0}, n % d = 0
  PROVE  \E q \in Int : n = d * q
<1>1. PICK q \in Int : n = d * q + (n % d)
  BY Remainder, Zenon
<1>2. n = d * q + 0
  BY <1>1, Zenon
<1>3. d * q \in Int
  OBVIOUS
<1>4. n = d * q
  BY <1>2, <1>3
<1> QED
  BY <1>4

\* The cursors wrap around, and what is added to them adds up all the same.
LEMMA PlusFacts ==
  ASSUME NEW a \in Int, NEW m \in Int, NEW n \in Int
  PROVE  Plus(a, m) \in Addresses /\ Plus(Plus(a, m), n) = Plus(a, m + n)
<1>0. Space \in Nat \ {0}
  BY SizesAssumption
<1>1. Plus(a, m) \in Addresses
  BY <1>0, Remainder DEF Plus, Addresses
<1>2. PICK q \in Int, r \in Int : a + m = Space * q + r /\ r = (a + m) % Space
  <2>1. a + m \in Int
    OBVIOUS
  <2>2. (a + m) % Space \in Int
    BY <1>0, <2>1
  <2> QED
    BY <1>0, <2>1, <2>2, Remainder, Zenon
<1>3. PICK p \in Int, s \in Int : /\ 0 <= s /\ s < Space
                                  /\ r + n = Space * p + s /\ s = (r + n) % Space
  <2>1. r + n \in Int
    OBVIOUS
  <2>2. /\ (r + n) % Space \in Int /\ 0 <= (r + n) % Space /\ (r + n) % Space < Space
    BY <1>0, <2>1
  <2> QED
    BY <1>0, <2>1, <2>2, Remainder, Zenon
<1>4. PICK x \in Int, y \in Int : x = Space * q /\ y = Space * p /\ x + y = Space * (q + p)
  BY <1>0
<1>5. a + (m + n) = Space * (q + p) + s
  <2>1. a + m = x + r /\ r + n = y + s
    BY <1>2, <1>3, <1>4, Zenon
  <2>2. a + (m + n) = (x + y) + s
    BY <2>1
  <2> QED
    BY <1>4, <2>2, Zenon
<1>6. a + (m + n) \in Int /\ q + p \in Int
  OBVIOUS
<1>7. (a + (m + n)) % Space = s
  BY <1>0, <1>3, <1>5, <1>6, RemainderIs
<1> QED
  BY <1>1, <1>2, <1>3, <1>7 DEF Plus

LEMMA PlusNothing ==
  ASSUME NEW a \in Addresses
  PROVE  Plus(a, 0) = a
BY SizesAssumption, RemainderIs DEF Plus, Addresses

\* A cursor that stands before a place comes to the place, and to where it stands before a
\* later one.
LEMMA CursorMoves ==
  ASSUME NEW p \in Addresses, NEW c \in Int, NEW n \in Int
  PROVE  /\ Plus(Plus(p, -c), c) = p
         /\ Plus(Plus(p, -c), n) = Plus(Plus(p, n), -c)
<1>1. p \in Int /\ -c \in Int
  BY SizesAssumption DEF Addresses
<1>2. /\ Plus(Plus(p, -c), c) = Plus(p, -c + c) /\ Plus(Plus(p, -c), n) = Plus(p, -c + n)
      /\ Plus(Plus(p, n), -c) = Plus(p, n + -c)
  <2>1. Plus(Plus(p, -c), c) = Plus(p, -c + c)
    BY <1>1, PlusFacts, Zenon
  <2>2. Plus(Plus(p, -c), n) = Plus(p, -c + n)
    BY <1>1, PlusFacts, Zenon
  <2>3. Plus(Plus(p, n), -c) = Plus(p, n + -c)
    BY <1>1, PlusFacts, Zenon
  <2> QED
    BY <2>1, <2>2, <2>3
<1>3. -c + c = 0 /\ -c + n = n + -c
  BY <1>1
<1>4. Plus(Plus(p, -c), c) = Plus(p, 0)
  BY <1>2, <1>3, Zenon
<1> QED
  BY <1>2, <1>3, <1>4, PlusNothing, Zenon

LEMMA SizeFacts == \A k \in DOMAIN SizeOf : SizeOf[k] \in Nat
BY DEF SizeOf

-----------------------------------------------------------------------------
(***************************************************************************)
(* The inductive invariant.                                                *)
(***************************************************************************)
\* Where the next argument is.
Place == IF reads = <<>> THEN argsBase ELSE Behind(reads[Len(reads)])

\* Both cursors stand before it, each at its own distance.
CursorsInv ==
  /\ at = "enter" => reads = <<>>
  /\ at \in {"format", "chunk", "string"} => i32 = Plus(Place, -4) /\ base = Plus(Place, -8)

\* Whole chunks have been copied, all of them readable, and there is room for more.
CopiedInv ==
  at = "chunk" =>
    /\ total <= length /\ total < MaxLen /\ total % Chunk = 0 /\ ~ ellipsis
    /\ \A n \in 0 .. total - 1 : n % Chunk = 0 => Readable(Plus(addr, n), Chunk)

Inv == TypeOK /\ ArgumentsAtTheirPlace /\ CursorsInv /\ CopiedInv /\ StringCutAtBound

LEMMA InitInv == Init => Inv
<1> SUFFICES ASSUME Init PROVE Inv
  OBVIOUS
<1>1. 0 \in Addresses /\ 0 \in 0 .. MaxDirectives /\ 0 \in 0 .. MaxLen /\ argsBase \in Addresses
  BY SizesAssumption, ValuesAssumption DEF Init, Addresses
<1>2. reads = <<>> /\ <<>> \in Seq([kind : DOMAIN SizeOf, address : Addresses])
  BY DEF Init
<1>3. TypeOK
  BY <1>1, <1>2 DEF Init, TypeOK
<1>4. ArgumentsAtTheirPlace
  BY <1>2 DEF ArgumentsAtTheirPlace
<1>5. CursorsInv /\ CopiedInv /\ StringCutAtBound
  BY <1>2 DEF Init, CursorsInv, CopiedInv, StringCutAtBound
<1> QED
  BY <1>3, <1>4, <1>5 DEF Inv

\* The place of the next argument is an address.
LEMMA PlaceFacts ==
  ASSUME TypeOK
  PROVE  Place \in Addresses
<1>1. CASE reads = <<>>
  BY <1>1 DEF TypeOK, Place
<1>2. CASE reads # <<>>
  <2>1. reads[Len(reads)] \in [kind : DOMAIN SizeOf, address : Addresses]
    <3> DEFINE S == [kind : DOMAIN SizeOf, address : Addresses]
    <3>1. reads \in Seq(S)
      BY DEF TypeOK
    <3> HIDE DEF S
    <3>2. reads[Len(reads)] \in S
      BY <1>2, <3>1
    <3> QED
      BY <3>2 DEF S
  <2>2. reads[Len(reads)].address \in Int /\ SizeOf[reads[Len(reads)].kind] \in Int
    BY <2>1, SizeFacts, SizesAssumption DEF Addresses
  <2> QED
    BY <1>2, <2>2, PlusFacts DEF Place, Behind
<1> QED
  BY <1>1, <1>2

\* An argument that is read where the next one is, by either cursor, leaves both cursors
\* before the one behind it.
LEMMA ArgumentRead ==
  ASSUME Inv, at \in {"format", "chunk", "string"},
         NEW kind \in DOMAIN SizeOf, NEW a, a = Plus(i32, 4) \/ a = Plus(base, 8),
         Reads(kind, a), Advance(SizeOf[kind]), argsBase' = argsBase
  PROVE  /\ i32' \in Addresses /\ base' \in Addresses
         /\ reads' \in Seq([kind : DOMAIN SizeOf, address : Addresses])
         /\ ArgumentsAtTheirPlace'
         /\ i32' = Plus(Place', -4) /\ base' = Plus(Place', -8)
<1>1. /\ Place \in Addresses /\ Place \in Int /\ i32 \in Int /\ base \in Int
      /\ SizeOf[kind] \in Int
  BY PlaceFacts, SizeFacts, SizesAssumption DEF Inv, TypeOK, Addresses
<1>2. i32 = Plus(Place, -4) /\ base = Plus(Place, -8)
  BY DEF Inv, CursorsInv
<1>3. a = Place
  <2>1. 4 \in Int /\ 8 \in Int
    OBVIOUS
  <2>2. Plus(Plus(Place, -4), 4) = Place /\ Plus(Plus(Place, -8), 8) = Place
    BY <1>1, <2>1, CursorMoves, Zenon
  <2> QED
    BY <1>2, <2>2, Zenon
<1>4. reads \in Seq([kind : DOMAIN SizeOf, address : Addresses]) /\ Len(reads) \in Nat
  BY DEF Inv, TypeOK
<1>5. PICK arg : /\ arg = [kind |-> kind, address |-> a] /\ reads' = Append(reads, arg)
                 /\ arg \in [kind : DOMAIN SizeOf, address : Addresses]
  BY <1>1, <1>3 DEF Reads
<1>6. /\ reads' \in Seq([kind : DOMAIN SizeOf, address : Addresses])
      /\ Len(reads') = Len(reads) + 1 /\ reads'[Len(reads')] = arg
      /\ DOMAIN reads' = 1 .. Len(reads) + 1 /\ DOMAIN reads = 1 .. Len(reads)
      /\ \A k \in 1 .. Len(reads) : reads'[k] = reads[k]
  BY <1>4, <1>5
<1>7. Place' = Plus(a, SizeOf[kind])
  <2>1. reads' # <<>>
    BY <1>6, <1>4
  <2> QED
    BY <1>5, <1>6, <2>1 DEF Place, Behind
<1>8. ArgumentsAtTheirPlace'
  <2> SUFFICES ASSUME NEW k \in DOMAIN reads'
               PROVE  reads'[k].address = IF k = 1 THEN argsBase ELSE Behind(reads'[k - 1])
    BY DEF ArgumentsAtTheirPlace, Behind, Plus
  <2>1. CASE k \in 1 .. Len(reads)
    <3>1. reads'[k] = reads[k] /\ (k # 1 => reads'[k - 1] = reads[k - 1])
      BY <1>4, <1>6, <2>1
    <3> QED
      BY <1>6, <2>1, <3>1 DEF Inv, ArgumentsAtTheirPlace
  <2>2. CASE k = Len(reads) + 1
    <3>1. reads'[k].address = Place
      BY <1>3, <1>5, <1>6, <2>2
    <3>2. k = 1 => reads = <<>>
      BY <1>4, <2>2
    <3>3. k # 1 => reads # <<>> /\ reads'[k - 1] = reads[Len(reads)]
      BY <1>4, <1>6, <2>2
    <3> QED
      BY <3>1, <3>2, <3>3 DEF Place
  <2> QED
    BY <1>4, <1>6, <2>1, <2>2
<1>9. i32' = Plus(i32, SizeOf[kind]) /\ base' = Plus(base, SizeOf[kind])
  BY DEF Advance
<1>10. 4 \in Int /\ 8 \in Int
  OBVIOUS
<1>11. /\ Plus(Plus(Place, -4), SizeOf[kind]) = Plus(Plus(Place, SizeOf[kind]), -4)
       /\ Plus(Plus(Place, -8), SizeOf[kind]) = Plus(Plus(Place, SizeOf[kind]), -8)
  <2> DEFINE n == SizeOf[kind]
  <2>1. n \in Int
    BY <1>1
  <2> HIDE DEF n
  <2>2. ASSUME NEW c \in Int PROVE Plus(Plus(Place, -c), n) = Plus(Plus(Place, n), -c)
    <3>1. Place \in Addresses
      BY <1>1
    <3> QED
      BY <2>1, <3>1, CursorMoves
  <2>3. /\ Plus(Plus(Place, -4), n) = Plus(Plus(Place, n), -4)
        /\ Plus(Plus(Place, -8), n) = Plus(Plus(Place, n), -8)
    BY <1>10, <2>2, Zenon
  <2> QED
    BY <2>3, Zenon DEF n
<1>12. i32' \in Addresses /\ base' \in Addresses
  BY <1>1, <1>9, PlusFacts, Zenon
<1>13. /\ i32' = Plus(Place', -4) /\ base' = Plus(Place', -8)
  BY <1>2, <1>3, <1>7, <1>9, <1>11, Zenon
<1> QED
  BY <1>6, <1>8, <1>12, <1>13

-----------------------------------------------------------------------------
(***************************************************************************)
(* formatCustomArgs() keeps the invariant.                                 *)
(***************************************************************************)
LEMMA EnterStep ==
  ASSUME Inv, EnterHook
  PROVE  Inv'
<1>1. /\ at = "enter" /\ reads = <<>> /\ reads' = <<>> /\ argsBase' = argsBase
      /\ UNCHANGED <<readable, original, directives, addr, total, length, ellipsis>>
  BY DEF EnterHook, string, Inv, CursorsInv
<1>2. argsBase \in Addresses /\ argsBase \in Int /\ -4 \in Int /\ -8 \in Int
  BY SizesAssumption DEF Inv, TypeOK, Addresses
<1>3. Place' = argsBase
  BY <1>1 DEF Place
<1>4. \/ at' = "forward" /\ i32' = i32 /\ base' = base
      \/ at' = "format" /\ i32' = Plus(argsBase, -4) /\ base' = Plus(argsBase, -8)
  BY DEF EnterHook, cursors
<1>5. i32' \in Addresses /\ base' \in Addresses
  BY <1>2, <1>4, PlusFacts DEF Inv, TypeOK
<1>6. TypeOK'
  BY <1>1, <1>4, <1>5 DEF Inv, TypeOK
<1>7. ArgumentsAtTheirPlace'
  BY <1>1 DEF ArgumentsAtTheirPlace
<1>8. CursorsInv'
  BY <1>3, <1>4 DEF CursorsInv
<1> QED
  BY <1>4, <1>6, <1>7, <1>8 DEF Inv, CopiedInv, StringCutAtBound

LEMMA IntStep ==
  ASSUME Inv, IntArgument
  PROVE  Inv'
<1>1. /\ at = "format" /\ at' = "format" /\ argsBase' = argsBase
      /\ readable' = readable /\ original' = original
      /\ directives < MaxDirectives /\ directives' = directives + 1
      /\ UNCHANGED <<addr, total, length, ellipsis>>
      /\ Reads("int", Plus(i32, 4)) /\ Advance(4)
  BY DEF IntArgument, Directive, string
<1>2. "int" \in DOMAIN SizeOf /\ SizeOf["int"] = 4
  BY DEF SizeOf
<1>3. /\ i32' \in Addresses /\ base' \in Addresses
      /\ reads' \in Seq([kind : DOMAIN SizeOf, address : Addresses])
      /\ ArgumentsAtTheirPlace'
      /\ i32' = Plus(Place', -4) /\ base' = Plus(Place', -8)
  BY <1>1, <1>2, ArgumentRead
<1>4. directives' \in 0 .. MaxDirectives
  BY <1>1, SizesAssumption DEF Inv, TypeOK
<1>5. TypeOK'
  BY <1>1, <1>3, <1>4 DEF Inv, TypeOK
<1>6. CursorsInv' /\ CopiedInv' /\ StringCutAtBound'
  BY <1>1, <1>3 DEF CursorsInv, CopiedInv, StringCutAtBound
<1> QED
  BY <1>3, <1>5, <1>6 DEF Inv

LEMMA DoubleStep ==
  ASSUME Inv, DoubleArgument
  PROVE  Inv'
<1>1. /\ at = "format" /\ at' = "format" /\ argsBase' = argsBase
      /\ readable' = readable /\ original' = original
      /\ directives < MaxDirectives /\ directives' = directives + 1
      /\ UNCHANGED <<addr, total, length, ellipsis>>
      /\ Reads("double", Plus(base, 8)) /\ Advance(8)
  BY DEF DoubleArgument, Directive, string
<1>2. "double" \in DOMAIN SizeOf /\ SizeOf["double"] = 8
  BY DEF SizeOf
<1>3. /\ i32' \in Addresses /\ base' \in Addresses
      /\ reads' \in Seq([kind : DOMAIN SizeOf, address : Addresses])
      /\ ArgumentsAtTheirPlace'
      /\ i32' = Plus(Place', -4) /\ base' = Plus(Place', -8)
  BY <1>1, <1>2, ArgumentRead
<1>4. directives' \in 0 .. MaxDirectives
  BY <1>1, SizesAssumption DEF Inv, TypeOK
<1>5. TypeOK'
  BY <1>1, <1>3, <1>4 DEF Inv, TypeOK
<1>6. CursorsInv' /\ CopiedInv' /\ StringCutAtBound'
  BY <1>1, <1>3 DEF CursorsInv, CopiedInv, StringCutAtBound
<1> QED
  BY <1>3, <1>5, <1>6 DEF Inv

\* A string's copying begins with nothing copied.
LEMMA StringStep ==
  ASSUME Inv, StringArgument
  PROVE  Inv'
<1>1. /\ at = "format" /\ argsBase' = argsBase
      /\ readable' = readable /\ original' = original
      /\ directives < MaxDirectives /\ directives' = directives + 1
      /\ Reads("pointer", Plus(i32, 4)) /\ Advance(4)
  BY DEF StringArgument, Directive
<1>2. \/ at' = "format" /\ UNCHANGED <<addr, total, length, ellipsis>>
      \/ /\ addr' \in Pointers /\ length' \in Lengths /\ total' = 0 /\ ellipsis' = FALSE
         /\ at' \in {"format", "chunk"}
  BY <1>1 DEF StringArgument, string
<1>3. "pointer" \in DOMAIN SizeOf /\ SizeOf["pointer"] = 4
  BY DEF SizeOf
<1>4. /\ i32' \in Addresses /\ base' \in Addresses
      /\ reads' \in Seq([kind : DOMAIN SizeOf, address : Addresses])
      /\ ArgumentsAtTheirPlace'
      /\ i32' = Plus(Place', -4) /\ base' = Plus(Place', -8)
  BY <1>1, <1>3, ArgumentRead
<1>5. directives' \in 0 .. MaxDirectives
  BY <1>1, SizesAssumption DEF Inv, TypeOK
<1>6. /\ addr' \in Addresses /\ total' \in 0 .. MaxLen /\ length' \in Nat /\ ellipsis' \in BOOLEAN
      /\ at' \in {"format", "chunk"}
  <2>1. 0 \in 0 .. MaxLen /\ Pointers \subseteq Addresses /\ Lengths \subseteq Nat
    BY SizesAssumption, ValuesAssumption DEF Addresses
  <2>2. /\ addr \in Addresses /\ total \in 0 .. MaxLen /\ length \in Nat /\ ellipsis \in BOOLEAN
    BY DEF Inv, TypeOK
  <2> QED
    BY <1>2, <2>1, <2>2
<1>7. TypeOK'
  BY <1>1, <1>4, <1>5, <1>6 DEF Inv, TypeOK
<1>8. CursorsInv' /\ StringCutAtBound'
  BY <1>4, <1>6 DEF CursorsInv, StringCutAtBound
<1>9. CopiedInv'
  <2> SUFFICES ASSUME at' = "chunk" PROVE CopiedInv'
    BY DEF CopiedInv
  <2>1. total' = 0 /\ ellipsis' = FALSE /\ length' \in Nat
    BY <1>2, <1>6
  <2>2. 0 < MaxLen /\ 0 % Chunk = 0 /\ 0 .. 0 - 1 = {}
    BY SizesAssumption
  <2> QED
    BY <2>1, <2>2 DEF CopiedInv
<1> QED
  BY <1>4, <1>7, <1>8, <1>9 DEF Inv

LEMMA OtherSteps ==
  ASSUME Inv, NoArgument \/ EndOfFormat \/ StringReturned \/ Forward \/ UNCHANGED vars
  PROVE  Inv'
<1>1. UNCHANGED <<argsBase, readable, original, i32, base, addr, total, length, ellipsis,
                  reads>>
  BY DEF NoArgument, EndOfFormat, StringReturned, Forward, vars, cursors, string
<1>2. /\ at' \in {"enter", "format", "chunk", "string", "forward", "forwarded", "dropped"}
      /\ at' # at => at # "enter" /\ at' \in {"format", "forward", "forwarded", "dropped"}
      /\ at' = "format" /\ at # "format" => at = "string"
  BY DEF NoArgument, EndOfFormat, StringReturned, Forward, vars, Directive, Inv, TypeOK
<1>3. directives' \in 0 .. MaxDirectives
  BY SizesAssumption
     DEF NoArgument, EndOfFormat, StringReturned, Forward, vars, Directive, Inv, TypeOK
<1>4. TypeOK'
  BY <1>1, <1>2, <1>3 DEF Inv, TypeOK
<1>5. Place' = Place
  BY <1>1 DEF Place, Behind, Plus
<1>6. ArgumentsAtTheirPlace'
  BY <1>1 DEF Inv, ArgumentsAtTheirPlace, Behind, Plus
<1>7. CursorsInv'
  BY <1>1, <1>2, <1>5 DEF Inv, CursorsInv
<1>8. CopiedInv'
  <2> SUFFICES ASSUME at' = "chunk" PROVE CopiedInv'
    BY DEF CopiedInv
  <2>1. at = "chunk"
    BY <1>2
  <2> QED
    BY <1>1, <2>1 DEF Inv, CopiedInv, Readable, Plus
<1>9. StringCutAtBound'
  <2> SUFFICES ASSUME at' = "string" PROVE StringCutAtBound'
    BY DEF StringCutAtBound
  <2>1. at = "string"
    BY <1>2
  <2>2. FirstUnreadable' = FirstUnreadable
    BY <1>1 DEF FirstUnreadable, Readable, Plus
  <2> QED
    BY <1>1, <2>1, <2>2 DEF Inv, StringCutAtBound
<1> QED
  BY <1>4, <1>6, <1>7, <1>8, <1>9 DEF Inv

-----------------------------------------------------------------------------
(***************************************************************************)
(* readCStringBounded() keeps the invariant.                               *)
(***************************************************************************)
\* A chunk's end is the next chunk's beginning, and no chunk begins in between.
LEMMA NextChunk ==
  ASSUME NEW n \in Nat, n % Chunk = 0
  PROVE  /\ (n + Chunk) % Chunk = 0
         /\ \A k \in Nat : (k % Chunk = 0 /\ n < k) => n + Chunk <= k
<1>0. Chunk \in Nat \ {0} /\ Chunk \in Int /\ n \in Int
  BY SizesAssumption
<1>1. PICK q \in Int : n = Chunk * q
  BY <1>0, Multiple, Zenon
<1>2. (n + Chunk) % Chunk = 0
  <2>1. Chunk * (q + 1) = Chunk * q + Chunk
    BY <1>0
  <2>2. n + Chunk = Chunk * (q + 1) + 0 /\ n + Chunk \in Int /\ q + 1 \in Int
    BY <1>0, <1>1, <2>1
  <2>3. 0 \in Int /\ 0 <= 0 /\ 0 < Chunk
    BY <1>0
  <2> QED
    BY <1>0, <2>2, <2>3, RemainderIs, Zenon
<1>3. ASSUME NEW k \in Nat, k % Chunk = 0, n < k
      PROVE  n + Chunk <= k
  <2>1. PICK p \in Int : k = Chunk * p
    <3>1. k \in Int
      OBVIOUS
    <3> QED
      BY <1>0, <1>3, <3>1, Multiple, Zenon
  <2>2. q < p
    BY <1>0, <1>1, <1>3, <2>1
  <2>3. Chunk * (q + 1) <= Chunk * p
    BY <1>0, <2>2
  <2> QED
    BY <1>0, <1>1, <2>1, <2>3
<1> QED
  BY <1>2, <1>3

\* FirstUnreadable is the first chunk that cannot be read, or the bound.
LEMMA FirstUnreadableFacts ==
  /\ FirstUnreadable \in Nat /\ FirstUnreadable <= MaxLen
  /\ \/ FirstUnreadable = MaxLen
     \/ /\ FirstUnreadable < MaxLen /\ FirstUnreadable % Chunk = 0
        /\ ~ Readable(Plus(addr, FirstUnreadable), Chunk)
  /\ \A n \in 0 .. MaxLen - 1 :
       (n % Chunk = 0 /\ ~ Readable(Plus(addr, n), Chunk)) => FirstUnreadable <= n
<1> DEFINE U == {n \in 0 .. MaxLen - 1 : n % Chunk = 0 /\ ~ Readable(Plus(addr, n), Chunk)}
<1>1. MaxLen \in Nat
  BY SizesAssumption
<1>2. {MaxLen} \cup U \subseteq Nat /\ {MaxLen} \cup U # {}
  BY <1>1
<1>3. /\ FirstUnreadable \in {MaxLen} \cup U
      /\ \A x \in {MaxLen} \cup U : FirstUnreadable <= x
  BY <1>2, MinOfNat DEF FirstUnreadable
<1>4. FirstUnreadable = MaxLen \/ FirstUnreadable \in U
  BY <1>3
<1>5. /\ FirstUnreadable \in Nat /\ FirstUnreadable <= MaxLen
      /\ FirstUnreadable \in U => FirstUnreadable < MaxLen
  BY <1>1, <1>3, <1>4
<1>6. \A n \in U : FirstUnreadable <= n
  BY <1>3
<1> QED
  BY <1>4, <1>5, <1>6

LEMMA RoomFacts ==
  ASSUME total \in Nat, total < MaxLen
  PROVE  /\ Room \in Nat /\ Room > 0 /\ Room <= Chunk /\ total + Room <= MaxLen
         /\ Room = Chunk \/ total + Room = MaxLen
<1>1. /\ MaxLen \in Nat /\ Chunk \in Nat /\ Chunk > 0 /\ MaxLen - total \in Int
  BY SizesAssumption
<1>2. Room = IF Chunk <= MaxLen - total THEN Chunk ELSE MaxLen - total
  BY <1>1, MinOfTwo DEF Room
<1>3. CASE Chunk <= MaxLen - total
  BY <1>1, <1>2, <1>3
<1>4. CASE ~ (Chunk <= MaxLen - total)
  BY <1>1, <1>2, <1>4
<1> QED
  BY <1>3, <1>4

\* Where the copying stands nothing before can be unreadable; if the chunk can be read,
\* nothing is that is copied of it.
LEMMA CopyingFacts ==
  ASSUME Inv, at = "chunk"
  PROVE  /\ total <= FirstUnreadable
         /\ ChunkReadable => total + Room <= FirstUnreadable
         /\ ~ ChunkReadable => FirstUnreadable = total
<1>1. /\ total \in Nat /\ total < MaxLen /\ total % Chunk = 0 /\ MaxLen \in Nat
      /\ Chunk \in Nat
  BY SizesAssumption DEF Inv, TypeOK, CopiedInv
<1>2. \A n \in 0 .. total - 1 : n % Chunk = 0 => Readable(Plus(addr, n), Chunk)
  BY DEF Inv, CopiedInv
<1>3. FirstUnreadable \in Nat /\ FirstUnreadable <= MaxLen
  BY FirstUnreadableFacts
<1>4. total <= FirstUnreadable
  <2>1. CASE FirstUnreadable = MaxLen
    BY <1>1, <2>1
  <2>2. CASE FirstUnreadable # MaxLen
    <3>1. FirstUnreadable % Chunk = 0 /\ ~ Readable(Plus(addr, FirstUnreadable), Chunk)
      BY <2>2, FirstUnreadableFacts
    <3>2. FirstUnreadable \notin 0 .. total - 1
      BY <1>2, <3>1
    <3> QED
      BY <1>1, <1>3, <3>2
  <2> QED
    BY <2>1, <2>2
<1>5. ASSUME ChunkReadable PROVE total + Room <= FirstUnreadable
  <2>1. Room \in Nat /\ Room <= Chunk /\ total + Room <= MaxLen
    BY <1>1, RoomFacts
  <2>2. CASE FirstUnreadable = MaxLen
    BY <2>1, <2>2
  <2>3. CASE FirstUnreadable # MaxLen
    <3>1. FirstUnreadable % Chunk = 0 /\ ~ Readable(Plus(addr, FirstUnreadable), Chunk)
      BY <2>3, FirstUnreadableFacts
    <3>2. FirstUnreadable # total
      BY <1>5, <3>1 DEF ChunkReadable
    <3>3. total < FirstUnreadable
      BY <1>1, <1>3, <1>4, <3>2
    <3>4. total + Chunk <= FirstUnreadable
      BY <1>1, <1>3, <3>1, <3>3, NextChunk
    <3> QED
      BY <1>1, <1>3, <2>1, <3>4
  <2> QED
    BY <2>2, <2>3
<1>6. ASSUME ~ ChunkReadable PROVE FirstUnreadable = total
  <2>1. total \in 0 .. MaxLen - 1
    BY <1>1
  <2>2. FirstUnreadable <= total
    BY <1>1, <1>6, <2>1, FirstUnreadableFacts DEF ChunkReadable
  <2> QED
    BY <1>1, <1>3, <1>4, <2>2
<1> QED
  BY <1>4, <1>5, <1>6

\* What of the invariant the copying cannot disturb.
LEMMA CopyKeeps ==
  ASSUME Inv, at = "chunk", at' \in {"chunk", "string"}, total' \in 0 .. MaxLen,
         ellipsis' \in BOOLEAN,
         UNCHANGED <<argsBase, readable, original, i32, base, directives, addr, length,
                  reads>>
  PROVE  /\ TypeOK' /\ ArgumentsAtTheirPlace' /\ CursorsInv'
         /\ FirstUnreadable' = FirstUnreadable
<1>1. TypeOK'
  BY DEF Inv, TypeOK
<1>2. Place' = Place
  BY DEF Place, Behind, Plus
<1>3. ArgumentsAtTheirPlace' /\ CursorsInv'
  BY <1>2 DEF Inv, ArgumentsAtTheirPlace, CursorsInv, Behind, Plus
<1>4. FirstUnreadable' = FirstUnreadable
  BY DEF FirstUnreadable, Readable, Plus
<1> QED
  BY <1>1, <1>3, <1>4

LEMMA ChunkFailsStep ==
  ASSUME Inv, ChunkFails
  PROVE  Inv'
<1>1. /\ at = "chunk" /\ at' = "string" /\ ~ ChunkReadable
      /\ UNCHANGED <<argsBase, readable, original, i32, base, directives, addr, length,
                  reads>>
      /\ UNCHANGED <<total, ellipsis>>
  BY DEF ChunkFails, cursors, string
<1>2. /\ total \in Nat /\ total \in 0 .. MaxLen /\ ellipsis \in BOOLEAN /\ length \in Nat
      /\ total <= length /\ total < MaxLen /\ ~ ellipsis
  BY <1>1, SizesAssumption DEF Inv, TypeOK, CopiedInv
<1>3. TypeOK' /\ ArgumentsAtTheirPlace' /\ CursorsInv' /\ FirstUnreadable' = total
  BY <1>1, <1>2, CopyKeeps, CopyingFacts
<1>4. Min({length, total}) = total
  BY <1>2, MinOfTwo
<1>5. total # MaxLen
  BY <1>2, SizesAssumption
<1>6. StringCutAtBound' /\ CopiedInv'
  BY <1>1, <1>2, <1>3, <1>4, <1>5 DEF StringCutAtBound, CopiedInv
<1> QED
  BY <1>3, <1>6 DEF Inv

LEMMA CopyChunkStep ==
  ASSUME Inv, CopyChunk
  PROVE  Inv'
<1>1. /\ at = "chunk" /\ ChunkReadable
      /\ UNCHANGED <<argsBase, readable, original, i32, base, directives, addr, length,
                  reads>>
  BY DEF CopyChunk, cursors
<1>2. /\ total \in Nat /\ ellipsis \in BOOLEAN /\ length \in Nat
      /\ total <= length /\ total < MaxLen /\ ~ ellipsis /\ total % Chunk = 0
      /\ MaxLen \in Nat /\ Chunk \in Nat
  BY <1>1, SizesAssumption DEF Inv, TypeOK, CopiedInv
<1>3. /\ Room \in Nat /\ Room > 0 /\ total + Room <= MaxLen
      /\ Room = Chunk \/ total + Room = MaxLen
  BY <1>2, RoomFacts
<1>4. /\ FirstUnreadable \in Nat /\ FirstUnreadable <= MaxLen
      /\ total + Room <= FirstUnreadable
  BY <1>1, CopyingFacts, FirstUnreadableFacts
<1>5. CASE length - total < Room /\ total' = length /\ at' = "string" /\ ellipsis' = ellipsis
  <2>1. length \in 0 .. MaxLen /\ length < MaxLen /\ length <= FirstUnreadable
    BY <1>2, <1>3, <1>4, <1>5
  <2>2. TypeOK' /\ ArgumentsAtTheirPlace' /\ CursorsInv' /\ FirstUnreadable' = FirstUnreadable
    BY <1>1, <1>2, <1>5, <2>1, CopyKeeps
  <2>3. Min({length, FirstUnreadable}) = length
    BY <1>2, <1>4, <2>1, MinOfTwo
  <2>4. StringCutAtBound' /\ CopiedInv'
    BY <1>1, <1>2, <1>5, <2>1, <2>2, <2>3 DEF StringCutAtBound, CopiedInv
  <2> QED
    BY <2>2, <2>4 DEF Inv
<1>6. CASE /\ length - total >= Room /\ total' = total + Room
           /\ total + Room >= MaxLen /\ ellipsis' = TRUE /\ at' = "string"
  <2>1. /\ total' = MaxLen /\ total' \in 0 .. MaxLen
        /\ MaxLen <= length /\ FirstUnreadable = MaxLen
    BY <1>2, <1>3, <1>4, <1>6
  <2>2. TypeOK' /\ ArgumentsAtTheirPlace' /\ CursorsInv' /\ FirstUnreadable' = FirstUnreadable
    BY <1>1, <1>6, <2>1, CopyKeeps
  <2>3. Min({length, MaxLen}) = MaxLen
    BY <1>2, <2>1, MinOfTwo
  <2>4. StringCutAtBound' /\ CopiedInv'
    BY <1>1, <1>6, <2>1, <2>2, <2>3 DEF StringCutAtBound, CopiedInv
  <2> QED
    BY <2>2, <2>4 DEF Inv
<1>7. CASE /\ length - total >= Room /\ total' = total + Room
           /\ ~ (total + Room >= MaxLen) /\ ellipsis' = FALSE /\ at' = "chunk"
  <2>1. /\ total' = total + Chunk /\ total' \in 0 .. MaxLen /\ total' < MaxLen
        /\ total' <= length
    BY <1>2, <1>3, <1>7
  <2>2. TypeOK' /\ ArgumentsAtTheirPlace' /\ CursorsInv'
    BY <1>1, <1>7, <2>1, CopyKeeps
  <2>3. total' % Chunk = 0
    BY <1>2, <2>1, NextChunk
  <2>4. ASSUME NEW n \in 0 .. total' - 1, n % Chunk = 0
        PROVE  Readable(Plus(addr, n), Chunk)
    <3>1. /\ n \in 0 .. MaxLen - 1 /\ n < FirstUnreadable /\ n \in Nat
      BY <1>2, <1>3, <1>4, <1>7, <2>1
    <3>2. ~ (FirstUnreadable <= n)
      BY <1>4, <3>1
    <3> QED
      BY <2>4, <3>1, <3>2, FirstUnreadableFacts
  <2>5. CopiedInv' /\ StringCutAtBound'
    BY <1>1, <1>7, <2>1, <2>3, <2>4 DEF CopiedInv, StringCutAtBound, Readable, Plus
  <2> QED
    BY <2>2, <2>5 DEF Inv
<1>8. \/ length - total < Room /\ total' = length /\ at' = "string" /\ ellipsis' = ellipsis
      \/ /\ length - total >= Room /\ total' = total + Room
         /\ ellipsis' = (total + Room >= MaxLen)
         /\ at' = IF ellipsis' THEN "string" ELSE "chunk"
  BY Zenon DEF CopyChunk
<1>9. CASE /\ length - total >= Room /\ total' = total + Room
           /\ ellipsis' = (total + Room >= MaxLen)
           /\ at' = IF ellipsis' THEN "string" ELSE "chunk"
  <2>1. CASE total + Room >= MaxLen
    <3>1. ellipsis' = TRUE /\ at' = "string"
      BY <1>9, <2>1, Zenon
    <3> QED
      BY <1>6, <1>9, <2>1, <3>1, Zenon
  <2>2. CASE ~ (total + Room >= MaxLen)
    <3>1. (total + Room >= MaxLen) = FALSE
      BY <1>2, <1>3, <2>2, SMT
    <3>2. ellipsis' = FALSE /\ at' = "chunk"
      BY <1>9, <3>1, Zenon
    <3> QED
      BY <1>7, <1>9, <2>2, <3>2, Zenon
  <2> QED
    BY <2>1, <2>2
<1> QED
  BY <1>5, <1>8, <1>9, Zenon

LEMMA NextInv == Inv /\ [Next]_vars => Inv'
  BY EnterStep, IntStep, DoubleStep, StringStep, OtherSteps, CopyChunkStep, ChunkFailsStep
     DEF Next

LEMMA Invariant == Spec => []Inv
  BY InitInv, NextInv, PTL DEF Spec

-----------------------------------------------------------------------------
(***************************************************************************)
(* The theorems.                                                           *)
(***************************************************************************)
\* Every variable stays in its type: the cursors and the string's pointer are addresses.
THEOREM TypeCorrect == Spec => []TypeOK
<1>1. Inv => TypeOK
  BY DEF Inv
<1> QED
  BY <1>1, Invariant, PTL

\* Whatever directives formatCustomArgs() meets, in whatever order, it reads each argument
\* from where the caller has put it, wherever in the address space the stack is.
THEOREM AtTheirPlace == Spec => []ArgumentsAtTheirPlace
<1>1. Inv => ArgumentsAtTheirPlace
  BY DEF Inv
<1> QED
  BY <1>1, Invariant, PTL

\* readCStringBounded() copies all of a string, or what its bound or the first chunk that
\* cannot be read leaves of it, and says "..." at the bound only.
THEOREM CutAtBound == Spec => []StringCutAtBound
<1>1. Inv => StringCutAtBound
  BY DEF Inv
<1> QED
  BY <1>1, Invariant, PTL

\* How far from its end the hook is between two directives.
Remaining ==
  CASE at \in {"forwarded", "dropped"} -> 0
    [] at = "forward" -> 1
    [] at = "format" -> 2
    [] at \in {"enter", "string"} -> 3
    [] at = "chunk" -> 4 + (MaxLen - total)

Ahead ==
  /\ [](Remaining \in Nat /\ directives \in 0 .. MaxDirectives)
  /\ [][\/ directives' > directives
        \/ directives' = directives /\ Remaining' < Remaining]_vars

\* The hook cannot run for ever: each step meets one of the format string's directives, of
\* which there are finitely many, or comes nearer to its end behind the call of the original
\* function, with strings without an end and with memory that can all be read as well.
THEOREM HookEnds == Spec => Ahead
<1>1. Inv => Remaining \in Nat
  BY SizesAssumption DEF Inv, TypeOK, Remaining
<1>2. Inv => directives \in 0 .. MaxDirectives
  BY DEF Inv, TypeOK
<1>3. ASSUME Inv, Next
      PROVE  \/ directives' > directives
             \/ directives' = directives /\ Remaining' < Remaining
  <2>1. directives \in Nat /\ total \in Nat /\ MaxLen \in Nat /\ MaxLen - total \in Nat
    BY <1>3, SizesAssumption DEF Inv, TypeOK
  <2>2. CASE NoArgument \/ IntArgument \/ DoubleArgument \/ StringArgument
    <3>1. directives' = directives + 1
      BY <2>2 DEF NoArgument, IntArgument, DoubleArgument, StringArgument, Directive
    <3> QED
      BY <2>1, <3>1
  <2>3. CASE EnterHook \/ EndOfFormat \/ StringReturned \/ Forward
    BY <2>3 DEF EnterHook, EndOfFormat, StringReturned, Forward, Remaining
  <2>4. CASE ChunkFails
    BY <2>1, <2>4 DEF ChunkFails, Remaining
  <2>5. CASE CopyChunk
    <3>1. total < MaxLen /\ at = "chunk" /\ directives' = directives
      BY <1>3, <2>5 DEF CopyChunk, Inv, CopiedInv
    <3>2. Room \in Nat /\ Room > 0 /\ total + Room <= MaxLen
      BY <2>1, <3>1, RoomFacts
    <3>3. Remaining = 4 + (MaxLen - total)
      BY <3>1 DEF Remaining
    <3>4. \/ at' = "string"
          \/ at' = "chunk" /\ total' = total + Room
      BY <2>5 DEF CopyChunk
    <3>5. CASE at' = "string"
      BY <2>1, <3>1, <3>3, <3>5 DEF Remaining
    <3>6. CASE at' = "chunk" /\ total' = total + Room
      BY <2>1, <3>1, <3>2, <3>3, <3>6 DEF Remaining
    <3> QED
      BY <3>4, <3>5, <3>6
  <2> QED
    BY <1>3, <2>2, <2>3, <2>4, <2>5 DEF Next
<1>4. Inv /\ [Next]_vars =>
        [\/ directives' > directives
         \/ directives' = directives /\ Remaining' < Remaining]_vars
  BY <1>3
<1> QED
  BY <1>1, <1>2, <1>4, Invariant, PTL DEF Spec, Ahead

=============================================================================
