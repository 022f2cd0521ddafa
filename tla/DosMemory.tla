------------------------------ MODULE DosMemory ------------------------------
(***************************************************************************)
(* The memory blocks DOS hands to a real-mode program (INT 21h 48h, 49h    *)
(* and 4Ah of src/dos_re/dos.py).  There are no block headers in memory:   *)
(* the machine keeps a table from a block's segment to its size, and free  *)
(* space is what the table leaves over.                                    *)
(*                                                                         *)
(* Segments and sizes are paragraphs.  A program's own view of what it     *)
(* holds is a history variable; the real one is free to ask for anything.  *)
(***************************************************************************)
EXTENDS Integers, FiniteSetsExt

CONSTANTS
    Psp,          \* segment of the program's first block
    Limit,        \* allocation_limit_segment
    Sizes,        \* sizes a program asks for
    ZeroSizes     \* environment: may it shrink a block to nothing?

VARIABLES
    allocations,  \* the table
    next,         \* next_alloc_segment: the highest end there has been
    held,         \* history: the blocks the program was given and not taken
    answer        \* history: the last call and what it answered

memoryVars == <<allocations, next, held, answer>>

None == [call |-> "none", wanted |-> 0, ok |-> TRUE, bx |-> 0]

TypeOK == /\ \A s \in DOMAIN allocations : s \in Nat /\ allocations[s] \in Nat
          /\ next \in Nat
          /\ answer.ok \in BOOLEAN

Init == /\ allocations = [s \in {Psp} |-> Limit - Psp]     \* seed_initial_memory_block
        /\ next = Limit
        /\ held = {[seg |-> Psp, size |-> Limit - Psp]}
        /\ answer = None

Without(s) == [t \in DOMAIN allocations \ {s} |-> allocations[t]]
With(s, size) == [t \in DOMAIN allocations \cup {s} |-> IF t = s THEN size ELSE allocations[t]]

(* The scan begins at the lowest block; with none it begins at the high    *)
(* water mark.  A gap runs from the end of the blocks below it to a block. *)
Floor == IF DOMAIN allocations = {} THEN next ELSE Min(DOMAIN allocations)
EndsBelow(s) == {t + allocations[t] : t \in {u \in DOMAIN allocations : u < s}} \cup {Floor}
CursorAt(s) == Max(EndsBelow(s))

FreeGaps ==
    {[start |-> CursorAt(s), size |-> s - CursorAt(s)] :
        s \in {t \in DOMAIN allocations \cup {Limit} : t > CursorAt(t)}}

(* _find_free_gap and _largest_free_gap                                    *)
Fitting(n) == {gap.start : gap \in {h \in FreeGaps : h.size >= n}}
Largest == Max({gap.size : gap \in FreeGaps} \cup {0})

Answered(call, n, ok, bx) ==
    answer' = [call |-> call, wanted |-> n, ok |-> ok, bx |-> bx]

-----------------------------------------------------------------------------
Allocate(n) ==
    IF n = 0 \/ Fitting(n) = {}
    THEN /\ Answered("allocate", n, FALSE, Largest)
         /\ UNCHANGED <<allocations, next, held>>
    ELSE LET s == Min(Fitting(n))
         IN  /\ allocations' = With(s, n)
             /\ next' = Max({next, s + n})
             /\ held' = held \cup {[seg |-> s, size |-> n]}
             /\ Answered("allocate", n, TRUE, 0)

(* Freeing what is not there succeeds too.                                 *)
Free(s) ==
    /\ allocations' = Without(s)
    /\ held' = {b \in held : b.seg # s}
    /\ Answered("free", 0, TRUE, 0)
    /\ UNCHANGED next

(* How far a block may grow: to the next block at or past its end.         *)
(* Faulty, to break properties: past its end only.                         *)
RoomPast(s) == Min({t \in DOMAIN allocations : t > s + allocations[s]} \cup {Limit})
Room(s) == Min({t \in DOMAIN allocations : t >= s + allocations[s]} \cup {Limit})

Resized(s, n) ==
    /\ allocations' = With(s, n)
    /\ held' = {IF b.seg = s THEN [seg |-> s, size |-> n] ELSE b : b \in held}
    /\ Answered("resize", n, TRUE, 0)

Resize(s, n) ==
    IF s \notin DOMAIN allocations
    THEN Answered("resize", n, FALSE, 0) /\ UNCHANGED <<allocations, next, held>>
    ELSE \/ /\ n <= allocations[s]
            /\ Resized(s, n)
            /\ UNCHANGED next
         \/ /\ n > allocations[s] /\ s + n <= Room(s)
            /\ Resized(s, n)
            /\ next' = Max({next, s + n})
         \/ /\ n > allocations[s] /\ s + n > Room(s)
            /\ Answered("resize", n, FALSE, Room(s) - s)
            /\ UNCHANGED <<allocations, next, held>>

Next ==
    \/ \E n \in Sizes : Allocate(n)
    \/ \E s \in {b.seg : b \in held} : Free(s)
    \/ \E s \in {b.seg : b \in held}, n \in Sizes : (n > 0 \/ ZeroSizes) /\ Resize(s, n)

Spec == Init /\ [][Next]_memoryVars

-----------------------------------------------------------------------------
(* Blocks the program holds never share a paragraph, and lie under the     *)
(* limit.                                                                  *)
HeldApart ==
    /\ \A b \in held : b.seg + b.size <= Limit
    /\ \A b, c \in held :
          b # c => b.seg + b.size <= c.seg \/ c.seg + c.size <= b.seg

(* A refusal that names a size can be taken at its word: a block of that   *)
(* size is given (4Ah's answer is what the block can grow to).             *)
RefusalTellsSize ==
    answer.call = "allocate" /\ ~answer.ok => /\ answer.bx < answer.wanted \/ answer.wanted = 0
                                              /\ answer.bx > 0 => Fitting(answer.bx) # {}

(* While the program keeps its first block, no paragraph above it is lost: *)
(* it is in a block or in a gap (dos.py:1450-1459: dropping the record is  *)
(* enough for the space to become available again).                        *)
NothingLost ==
    Psp \in DOMAIN allocations =>
        \A p \in Psp..Limit - 1 :
            \/ \E b \in held : p \in b.seg..b.seg + b.size - 1
            \/ \E gap \in FreeGaps : p \in gap.start..gap.start + gap.size - 1

MemoryKept == HeldApart /\ RefusalTellsSize /\ NothingLost
=============================================================================
