-------------------------- MODULE FrameScriptArgs --------------------------
(***************************************************************************)
(* HookedFrameScriptSignalEvent(), which walks the format string of a game *)
(* event, reads its arguments from the caller's stack by two cursors, and  *)
(* copies strings out of the game's memory in chunks (frame_script.cpp).   *)
(* The source is compiled; nothing installs the hook yet.                  *)
(*                                                                         *)
(* A format string is met one directive at a time.  Of the text that is    *)
(* built, the model has how much of a string is copied; the conversions    *)
(* %d, %u and %b differ in wording only.  What the memory holds is not     *)
(* interpreted: a pointer may be any, and a string any number of           *)
(* characters long.                                                        *)
(*                                                                         *)
(* A definition introduced as "Mistake" is a mutation of the one after it. *)
(* No specification uses it; it shows what breaks a property (README).     *)
(***************************************************************************)
EXTENDS Integers, Sequences, FiniteSetsExt

CONSTANTS
  Space,             \* addresses (2^32)
  PageSize,          \* bytes that are readable together (4096)
  Chunk,             \* readCStringBounded()'s chunk (128)
  MaxLen,            \* readCStringBounded()'s maxLen (1024)
  ArgsBases,         \* values of argsBase
  Pointers,          \* values of a string argument
  Lengths,           \* lengths of the strings they point to
  MaxDirectives      \* bound: directives in a format string

ASSUME SizesAssumption ==
  /\ Space \in Nat \ {0} /\ PageSize \in Nat \ {0}
  /\ Chunk \in Nat \ {0} /\ MaxLen \in Nat \ {0}
  /\ MaxDirectives \in Nat

ASSUME ValuesAssumption ==
  /\ ArgsBases \subseteq 0 .. Space - 1
  /\ Pointers \subseteq 0 .. Space - 1
  /\ Lengths \subseteq Nat

VARIABLES
  at,                \* where the thread is in the hook
  argsBase,
  readable,          \* the pages that can be read
  original,          \* g_OriginalFrameScriptSignalEvent is not null
  i32, base,         \* formatCustomArgs()'s cursors
  directives,        \* how many have been met
  addr, total,       \* readCStringBounded()'s
  length,            \* characters before the string's '\0'
  ellipsis,          \* the result ends in "..."
  reads              \* history: the arguments read so far, kind and address

cursors == <<i32, base>>
string == <<addr, total, length, ellipsis>>
vars == <<at, argsBase, readable, original, cursors, directives, string, reads>>

Addresses == 0 .. Space - 1
Pages == 0 .. (Space - 1) \div PageSize

SizeOf == [int |-> 4, double |-> 8, pointer |-> 4]

TypeOK ==
  /\ at \in {"enter", "format", "chunk", "string", "forward", "forwarded", "dropped"}
  /\ argsBase \in Addresses
  /\ readable \subseteq Pages
  /\ original \in BOOLEAN
  /\ i32 \in Addresses /\ base \in Addresses
  /\ directives \in 0 .. MaxDirectives
  /\ addr \in Addresses
  /\ total \in 0 .. MaxLen
  /\ length \in Nat
  /\ ellipsis \in BOOLEAN
  /\ reads \in Seq([kind : DOMAIN SizeOf, address : Addresses])

Init ==
  /\ at = "enter"
  /\ argsBase \in ArgsBases
  /\ readable \in SUBSET Pages
  /\ original \in BOOLEAN
  /\ i32 = 0 /\ base = 0 /\ directives = 0
  /\ addr = 0 /\ total = 0 /\ length = 0 /\ ellipsis = FALSE
  /\ reads = <<>>

\* uintptr_t arithmetic.
Plus(a, n) == (a + n) % Space

\* ReadProcessMemory() reads all of it or fails.
Readable(a, n) ==
  /\ a + n <= Space
  /\ (a \div PageSize) .. ((a + n - 1) \div PageSize) \subseteq readable

-----------------------------------------------------------------------------
(***************************************************************************)
(* formatCustomArgs().                                                     *)
(***************************************************************************)
\* A null format string is forwarded as it is.
EnterHook ==
  /\ at = "enter"
  /\ \/ at' = "forward" /\ UNCHANGED cursors
     \/ at' = "format" /\ i32' = Plus(argsBase, -4) /\ base' = Plus(argsBase, -8)
  /\ UNCHANGED <<argsBase, readable, original, directives, string, reads>>

Directive == at = "format" /\ directives < MaxDirectives /\ directives' = directives + 1

Advance(n) == i32' = Plus(i32, n) /\ base' = Plus(base, n)

Reads(kind, a) == reads' = Append(reads, [kind |-> kind, address |-> a])

\* Text, "%%", a conversion that is not known, and a "%" at the end.
NoArgument ==
  /\ Directive
  /\ UNCHANGED <<at, argsBase, readable, original, cursors, string, reads>>

\* %d, %u, %b, whether the value can be read or not.
IntArgument ==
  /\ Directive
  /\ Reads("int", Plus(i32, 4))
  /\ Advance(4)
  /\ UNCHANGED <<at, argsBase, readable, original, string>>

\* Mistake: a double moves its own cursor only.
DoubleArgumentOneCursor ==
  /\ Directive
  /\ Reads("double", Plus(base, 8))
  /\ base' = Plus(base, 8)
  /\ UNCHANGED <<at, argsBase, readable, original, i32, string>>

DoubleArgument ==
  /\ Directive
  /\ Reads("double", Plus(base, 8))
  /\ Advance(8)
  /\ UNCHANGED <<at, argsBase, readable, original, string>>

\* %s: the pointer cannot be read, or it is null, or its string is copied.
StringArgument ==
  /\ Directive
  /\ LET a == Plus(i32, 4)
     IN  /\ Reads("pointer", a)
         /\ \/ ~ Readable(a, 4) /\ UNCHANGED <<at, string>>
            \/ /\ Readable(a, 4)
               /\ addr' \in Pointers /\ length' \in Lengths
               /\ total' = 0 /\ ellipsis' = FALSE
               /\ at' = IF addr' = 0 THEN "format" ELSE "chunk"
  /\ Advance(4)
  /\ UNCHANGED <<argsBase, readable, original>>

EndOfFormat ==
  /\ at = "format"
  /\ at' = "forward"
  /\ UNCHANGED <<argsBase, readable, original, cursors, directives, string, reads>>

-----------------------------------------------------------------------------
(***************************************************************************)
(* readCStringBounded().                                                   *)
(***************************************************************************)
\* Mistake: every chunk is read from the beginning of the string.
ChunkReadableFirst == Readable(addr, Chunk)

ChunkReadable == Readable(Plus(addr, total), Chunk)

\* How many characters of a chunk are copied if it does not hold the end of the string.
Room == Min({Chunk, MaxLen - total})

\* Mistake: there is no bound.
CopyChunkUnbounded ==
  /\ at = "chunk" /\ ChunkReadable
  /\ \/ /\ length - total < Chunk
        /\ total' = length /\ at' = "string"
     \/ /\ length - total >= Chunk
        /\ total' = total + Chunk /\ UNCHANGED at
  /\ UNCHANGED <<argsBase, readable, original, cursors, directives, addr, length, ellipsis,
                 reads>>

\* Mistake: the bound is an inclusive one where the loop looks at it.
CopyChunkForever ==
  /\ at = "chunk" /\ ChunkReadable
  /\ \/ /\ length - total < Room
        /\ total' = length /\ at' = "string" /\ UNCHANGED ellipsis
     \/ /\ length - total >= Room
        /\ total' = total + Room
        /\ ellipsis' = (total' > MaxLen)
        /\ at' = IF ellipsis' THEN "string" ELSE "chunk"
  /\ UNCHANGED <<argsBase, readable, original, cursors, directives, addr, length, reads>>

\* A chunk has the end of the string, or its characters are copied up to the bound.
CopyChunk ==
  /\ at = "chunk" /\ ChunkReadable
  /\ \/ /\ length - total < Room
        /\ total' = length /\ at' = "string" /\ UNCHANGED ellipsis
     \/ /\ length - total >= Room
        /\ total' = total + Room
        /\ ellipsis' = (total' >= MaxLen)
        /\ at' = IF ellipsis' THEN "string" ELSE "chunk"
  /\ UNCHANGED <<argsBase, readable, original, cursors, directives, addr, length, reads>>

ChunkFails ==
  /\ at = "chunk" /\ ~ ChunkReadable
  /\ at' = "string"
  /\ UNCHANGED <<argsBase, readable, original, cursors, directives, string, reads>>

\* The string is appended to the text.
StringReturned ==
  /\ at = "string"
  /\ at' = "format"
  /\ UNCHANGED <<argsBase, readable, original, cursors, directives, string, reads>>

\* g_OriginalFrameScriptSignalEvent() with the parameters as they came, if there is one.
Forward ==
  /\ at = "forward"
  /\ at' = IF original THEN "forwarded" ELSE "dropped"
  /\ UNCHANGED <<argsBase, readable, original, cursors, directives, string, reads>>

Next ==
  \/ EnterHook \/ NoArgument \/ IntArgument \/ DoubleArgument \/ StringArgument \/ EndOfFormat
  \/ CopyChunk \/ ChunkFails \/ StringReturned \/ Forward

Spec == Init /\ [][Next]_vars

\* The game's thread runs on.
FairSpec == Spec /\ WF_vars(Next)

-----------------------------------------------------------------------------
\* Each argument is read from where the caller has put it: the first at argsBase, and the
\* others each behind the one before it.  The two cursors start at different offsets, are read
\* at different offsets, and meet at the same place whatever mixture of directives has moved
\* them, over the end of the address space too.
Behind(arg) == Plus(arg.address, SizeOf[arg.kind])

ArgumentsAtTheirPlace ==
  \A k \in DOMAIN reads :
    reads[k].address = IF k = 1 THEN argsBase ELSE Behind(reads[k - 1])

\* What is copied of a string is all of it, or the first MaxLen characters, or what comes
\* before the first chunk that reaches into memory that cannot be read, even if the string
\* itself does not; and "..." says that MaxLen characters were copied, at the same bounds.
FirstUnreadable ==
  Min({MaxLen} \cup {n \in 0 .. MaxLen - 1 : n % Chunk = 0 /\ ~ Readable(Plus(addr, n), Chunk)})

StringCutAtBound ==
  at = "string" =>
    /\ total = Min({length, FirstUnreadable})
    /\ ellipsis <=> total = MaxLen

\* The hook always comes to its end, by the original function if there is one: a string
\* without an end, in memory that can all be read, is bounded as well.
EventForwarded == <>(at = "forwarded" \/ (at = "dropped" /\ ~ original))

============================================================================
