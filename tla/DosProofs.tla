------------------------------ MODULE DosProofs ------------------------------
(***************************************************************************)
(* Proofs about the DOS services: DosMemory, for any segments and sizes;   *)
(* DosFiles, for any paths and contents; DosConsole, for any keys and any  *)
(* capacity; and MouseDriver, for any screen and any calls.                *)
(***************************************************************************)
EXTENDS DosMemory, FiniteSetTheorems, SequenceTheorems, WellFoundedInduction, TLAPS

CONSTANTS Path, SinkName, Pristine, Values, SharedCreates, MaxLength, MaxOpens  \* see DosFiles
VARIABLES persist, buffers, files, overlay, sink, saved, peak                   \* see DosFiles

F == INSTANCE DosFiles

CONSTANTS Letter, Digit, Extended, Capacity, MaxTyped                           \* see DosConsole
VARIABLES queue, second, modifiers, port, vector, heard, physical, typed, got, made

C == INSTANCE DosConsole

CONSTANTS Width, Height, Parts, Coordinates, MaxCalls                           \* see MouseDriver
VARIABLES real, pm, answers, calls

M == INSTANCE MouseDriver

-----------------------------------------------------------------------------
(* The memory blocks, of a program that shrinks none to nothing.  (One that*)
(* does leaves an entry that takes no space: the next block may be put on  *)
(* top of it, and takes its place in the table.)                           *)

(* seed_initial_memory_block raises unless its block has an end.           *)
MemoryConstants == /\ Psp \in Nat /\ Limit \in Nat /\ Psp < Limit
                   /\ Sizes \subseteq Nat
                   /\ ~ZeroSizes

Blocks == DOMAIN allocations

(* The table: blocks of some size, below the limit, each ending before the *)
(* next begins.                                                            *)
TableInv ==
    /\ Blocks \subseteq Nat
    /\ allocations \in [Blocks -> Nat \ {0}]
    /\ \A s \in Blocks : s + allocations[s] <= Limit
    /\ \A s, t \in Blocks : s < t => s + allocations[s] <= t
    /\ next = Limit

(* The program holds what the table has, and a refused allocation was      *)
(* answered from the gaps there still are.                                 *)
HeldInv == held = {[seg |-> s, size |-> allocations[s]] : s \in Blocks}

AnswerInv == answer.call = "allocate" /\ ~answer.ok =>
                 /\ answer.bx = Largest /\ answer.wanted \in Nat
                 /\ answer.wanted = 0 \/ Fitting(answer.wanted) = {}

MemoryInv == TableInv /\ HeldInv /\ AnswerInv

(* Sets of numbers have a smallest, and those with a bound a largest.      *)
LEMMA MinOf ==
    ASSUME NEW S \in SUBSET Nat, S # {}
    PROVE  Min(S) \in S /\ \A x \in S : Min(S) <= x
<1>1. PICK m \in S : \A x \in S : ~(<<x, m>> \in OpToRel(<, Nat))
  BY NatLessThanWellFounded, WFMin
<1>2. ASSUME NEW x \in S PROVE m <= x
  <2>1. x \in Nat /\ m \in Nat
    OBVIOUS
  <2>2. x < m => <<x, m>> \in OpToRel(<, Nat)
    BY <2>1 DEF OpToRel
  <2>3. m <= x \/ x < m
    BY <2>1
  <2> QED BY Zenon, <1>1, <2>2, <2>3
<1> QED BY <1>2 DEF Min

LEMMA MaxOf ==
    ASSUME NEW b \in Nat, NEW S \in SUBSET (0..b), S # {}
    PROVE  Max(S) \in S /\ \A x \in S : x <= Max(S)
<1> DEFINE T == {b - x : x \in S}
<1>1. T \in SUBSET Nat /\ T # {}
  <2>1. \A x \in 0..b : b - x \in Nat
    OBVIOUS
  <2>2. \A x \in S : x \in 0..b
    OBVIOUS
  <2> QED BY <2>1, <2>2
<1>2. Min(T) \in T /\ \A y \in T : Min(T) <= y
  BY <1>1, MinOf
<1>3. PICK m \in S : Min(T) = b - m
  BY <1>2
<1>4. ASSUME NEW x \in S PROVE x <= m
  <2>1. b - m <= b - x
    BY <1>2, <1>3
  <2>2. x \in Nat /\ m \in Nat
    OBVIOUS
  <2> QED BY <2>1, <2>2
<1>5. \A x \in S : m >= x
  BY <1>4
<1>6. \A x \in S : Max(S) >= x
  BY <1>5 DEF Max
<1>7. Max(S) \in S
  BY <1>5 DEF Max
<1> QED BY <1>6, <1>7

(* The cursor of the scan has passed every block below, and no more.       *)
LEMMA Cursor ==
    ASSUME MemoryConstants, TableInv, NEW s \in Blocks \cup {Limit}
    PROVE  /\ CursorAt(s) \in EndsBelow(s) /\ CursorAt(s) \in 0..Limit
           /\ \A u \in Blocks : u < s => u + allocations[u] <= CursorAt(s)
<1>1. Floor \in 0..Limit
  <2>1. CASE Blocks = {}
    BY <2>1 DEF Floor, TableInv, MemoryConstants, Blocks
  <2>2. CASE Blocks # {}
    <3>1. Min(Blocks) \in Blocks
      BY <2>2, MinOf DEF TableInv
    <3>2. \A u \in Blocks : u \in Nat /\ allocations[u] \in Nat /\ u + allocations[u] <= Limit
      BY DEF TableInv
    <3>3. Min(Blocks) \in 0..Limit
      BY <3>1, <3>2 DEF MemoryConstants
    <3> QED BY <2>2, <3>3 DEF Floor, Blocks
  <2> QED BY <2>1, <2>2
<1>2. \A u \in Blocks : u + allocations[u] \in 0..Limit
  BY DEF TableInv, MemoryConstants
<1>3. EndsBelow(s) \in SUBSET (0..Limit) /\ EndsBelow(s) # {}
  BY <1>1, <1>2 DEF EndsBelow, Blocks
<1>4. CursorAt(s) \in EndsBelow(s) /\ \A e \in EndsBelow(s) : e <= CursorAt(s)
  BY <1>3, MaxOf DEF CursorAt, MemoryConstants
<1>5. \A u \in Blocks : u < s => u + allocations[u] \in EndsBelow(s)
  BY DEF EndsBelow, Blocks
<1> QED BY <1>3, <1>4, <1>5

(* Gaps lie under the limit and clear of every block.                      *)
LEMMA Gaps ==
    ASSUME MemoryConstants, TableInv, NEW gap \in FreeGaps
    PROVE  /\ gap.start \in Nat /\ gap.size \in Nat \ {0} /\ gap.start + gap.size <= Limit
           /\ \A u \in Blocks : \/ u + allocations[u] <= gap.start
                                \/ gap.start + gap.size <= u
<1>1. PICK s \in Blocks \cup {Limit} :
          s > CursorAt(s) /\ gap = [start |-> CursorAt(s), size |-> s - CursorAt(s)]
  BY DEF FreeGaps, Blocks
<1>2. /\ CursorAt(s) \in 0..Limit
      /\ \A u \in Blocks : u < s => u + allocations[u] <= CursorAt(s)
  BY Cursor
<1>3. s \in Nat /\ s <= Limit /\ Limit \in Nat /\ \A u \in Blocks : u \in Nat
  BY DEF TableInv, MemoryConstants
<1>4. CursorAt(s) + (s - CursorAt(s)) = s
  BY <1>2, <1>3
<1>5. gap.start = CursorAt(s) /\ gap.size = s - CursorAt(s) /\ gap.start + gap.size = s
  BY <1>1, <1>4
<1>6. \A u \in Blocks : u < s \/ s <= u
  BY <1>3
<1> QED BY <1>1, <1>2, <1>3, <1>5, <1>6

(* Another block, or another size of one, where there is room for it.      *)
LEMMA WithTable ==
    ASSUME MemoryConstants, TableInv, NEW s \in Nat, NEW n \in Nat \ {0}, s + n <= Limit,
           \A u \in Blocks \ {s} : u + allocations[u] <= s \/ s + n <= u,
           allocations' = With(s, n), next' \in {next, Max({next, s + n})}
    PROVE  TableInv'
<1>1. /\ Blocks' = Blocks \cup {s}
      /\ \A u \in Blocks' : allocations'[u] = IF u = s THEN n ELSE allocations[u]
      /\ allocations' \in [Blocks' -> Nat \ {0}]
  BY DEF With, Blocks, TableInv
<1>2. next' = Limit
  <2>1. {next, s + n} \in SUBSET (0..Limit) /\ next = Limit /\ Limit \in Nat
    BY DEF TableInv, MemoryConstants
  <2>2. Max({next, s + n}) \in {next, s + n} /\ next <= Max({next, s + n})
    BY <2>1, MaxOf
  <2> QED BY <2>1, <2>2
<1>3. \A u \in Blocks' : u \in Nat /\ u + allocations'[u] <= Limit
  BY <1>1 DEF TableInv
<1>4. ASSUME NEW u \in Blocks', NEW t \in Blocks', u < t PROVE u + allocations'[u] <= t
  <2>1. CASE u # s /\ t # s
    BY <1>1, <1>4, <2>1 DEF TableInv
  <2>2. CASE u = s
    <3>1. t \in Blocks \ {s} /\ t \in Nat /\ allocations[t] \in Nat
      BY <1>1, <1>4, <2>2 DEF TableInv
    <3>2. s + n <= t
      BY <1>4, <2>2, <3>1
    <3> QED BY <1>1, <2>2, <3>2
  <2>3. CASE t = s
    <3>1. u \in Blocks \ {s} /\ u \in Nat
      BY <1>1, <1>4, <2>3 DEF TableInv
    <3>2. u + allocations[u] <= s
      BY <1>4, <2>3, <3>1
    <3> QED BY <1>1, <2>3, <3>1, <3>2
  <2> QED BY <2>1, <2>2, <2>3
<1> QED BY <1>1, <1>2, <1>3, <1>4 DEF TableInv

LEMMA AllocateStep ==
    ASSUME MemoryConstants, MemoryInv, NEW n \in Sizes, Allocate(n) PROVE MemoryInv'
<1>n. n \in Nat
  BY DEF MemoryConstants
<1>1. CASE n = 0 \/ Fitting(n) = {}
  <2>1. /\ UNCHANGED <<allocations, next, held>>
        /\ answer' = [call |-> "allocate", wanted |-> n, ok |-> FALSE, bx |-> Largest]
    BY <1>1 DEF Allocate, Answered
  <2>2. TableInv' /\ HeldInv'
    BY <2>1 DEF MemoryInv, TableInv, HeldInv, Blocks
  <2>3. FreeGaps' = FreeGaps
    BY <2>1 DEF FreeGaps, CursorAt, EndsBelow, Floor
  <2>4. AnswerInv'
    BY <1>n, <1>1, <2>1, <2>3 DEF AnswerInv, Largest, Fitting
  <2> QED BY <2>2, <2>4 DEF MemoryInv
<1>2. CASE n # 0 /\ Fitting(n) # {}
  <2> DEFINE s == Min(Fitting(n))
  <2>1. /\ allocations' = With(s, n) /\ next' = Max({next, s + n})
        /\ held' = held \cup {[seg |-> s, size |-> n]} /\ answer'.ok
    BY <1>2 DEF Allocate, Answered
  <2>2. Fitting(n) \in SUBSET Nat
    BY Gaps DEF Fitting, MemoryInv
  <2>3. s \in Fitting(n)
    BY <1>2, <2>2, MinOf
  <2>4. PICK gap \in FreeGaps : gap.size >= n /\ gap.start = s
    BY <2>3 DEF Fitting
  <2> HIDE DEF s
  <2>5. /\ s \in Nat /\ gap.size \in Nat /\ s + gap.size <= Limit
        /\ \A u \in Blocks : u + allocations[u] <= s \/ s + gap.size <= u
    BY <2>4, Gaps DEF MemoryInv
  <2>6. /\ Limit \in Nat /\ \A u \in Blocks : u \in Nat /\ allocations[u] \in Nat \ {0}
    BY DEF MemoryInv, TableInv, MemoryConstants
  <2>7. s + n <= Limit /\ \A u \in Blocks : u + allocations[u] <= s \/ s + n <= u
    BY <1>n, <2>4, <2>5, <2>6
  <2>8. s \notin Blocks
    BY <1>n, <1>2, <2>5, <2>6, <2>7
  <2>9. TableInv'
    BY <1>n, <1>2, <2>1, <2>5, <2>7, WithTable DEF MemoryInv
  <2>10. HeldInv'
    BY <2>1, <2>8 DEF MemoryInv, HeldInv, With, Blocks
  <2>11. AnswerInv'
    BY <2>1 DEF AnswerInv
  <2> QED BY <2>9, <2>10, <2>11 DEF MemoryInv
<1> QED BY <1>1, <1>2

LEMMA FreeStep ==
    ASSUME MemoryConstants, MemoryInv, NEW s, Free(s) PROVE MemoryInv'
<1>1. /\ allocations' = Without(s) /\ next' = next
      /\ held' = {b \in held : b.seg # s} /\ answer'.ok
  BY DEF Free, Answered
<1>2. /\ Blocks' = Blocks \ {s}
      /\ \A u \in Blocks' : allocations'[u] = allocations[u]
      /\ allocations' \in [Blocks' -> Nat \ {0}]
  BY <1>1 DEF Without, Blocks, MemoryInv, TableInv
<1>3. TableInv'
  BY <1>1, <1>2 DEF MemoryInv, TableInv
<1>4. HeldInv'
  BY <1>1, <1>2 DEF MemoryInv, HeldInv
<1> QED BY <1>1, <1>3, <1>4 DEF MemoryInv, AnswerInv

LEMMA ResizeStep ==
    ASSUME MemoryConstants, MemoryInv, NEW s \in Blocks, NEW n \in Sizes \ {0}, Resize(s, n)
    PROVE  MemoryInv'
<1>n. /\ n \in Nat \ {0} /\ s \in Nat /\ allocations[s] \in Nat /\ s + allocations[s] <= Limit
      /\ Limit \in Nat
      /\ \A u \in Blocks : u \in Nat /\ allocations[u] \in Nat
      /\ \A u \in Blocks \ {s} : u + allocations[u] <= s \/ s + allocations[s] <= u
  <2>1. \A u \in Blocks : u \in Nat /\ allocations[u] \in Nat
    BY DEF MemoryInv, TableInv
  <2>2. \A u \in Blocks \ {s} : u < s \/ s < u
    BY <2>1
  <2> QED BY <2>1, <2>2 DEF MemoryInv, TableInv, MemoryConstants
<1>1. ASSUME Resized(s, n), next' \in {next, Max({next, s + n})}, s + n <= Limit,
             \A u \in Blocks \ {s} : u + allocations[u] <= s \/ s + n <= u
      PROVE  MemoryInv'
  <2>1. TableInv'
    BY <1>n, <1>1, WithTable DEF MemoryInv, Resized
  <2>2. HeldInv'
    <3>1. /\ Blocks' = Blocks
          /\ \A u \in Blocks : allocations'[u] = IF u = s THEN n ELSE allocations[u]
      BY <1>1 DEF Resized, With, Blocks
    <3>2. held' = {IF b.seg = s THEN [seg |-> s, size |-> n] ELSE b : b \in held}
      BY <1>1 DEF Resized
    <3>3. held = {[seg |-> u, size |-> allocations[u]] : u \in Blocks}
      BY DEF MemoryInv, HeldInv
    <3> DEFINE changed(b) == IF b.seg = s THEN [seg |-> s, size |-> n] ELSE b
    <3>4. \A u \in Blocks : changed([seg |-> u, size |-> allocations[u]])
                            = [seg |-> u, size |-> allocations'[u]]
      BY <3>1
    <3>5. held' = {changed(b) : b \in held}
      BY <3>2
    <3> HIDE DEF changed
    <3>6. held' = {changed([seg |-> u, size |-> allocations[u]]) : u \in Blocks}
      BY <3>3, <3>5
    <3>7. held' = {[seg |-> u, size |-> allocations'[u]] : u \in Blocks}
      BY <3>4, <3>6
    <3> QED BY <3>1, <3>7 DEF HeldInv
  <2>3. AnswerInv'
    BY <1>1 DEF Resized, Answered, AnswerInv
  <2> QED BY <2>1, <2>2, <2>3 DEF MemoryInv
<1>2. CASE n <= allocations[s] /\ Resized(s, n) /\ UNCHANGED next
  BY <1>n, <1>1, <1>2
<1>3. CASE s + n <= Room(s) /\ Resized(s, n) /\ next' = Max({next, s + n})
  <2> DEFINE S == {t \in Blocks : t >= s + allocations[s]} \cup {Limit}
  <2>1. S \in SUBSET Nat /\ S # {} /\ Room(s) = Min(S)
    BY <1>n DEF Room, Blocks
  <2>2. Room(s) \in Nat /\ \A t \in S : Room(s) <= t
    BY <2>1, MinOf
  <2>3. s + n <= Limit
    BY <1>n, <1>3, <2>2
  <2>4. ASSUME NEW u \in Blocks \ {s} PROVE u + allocations[u] <= s \/ s + n <= u
    <3>1. s + allocations[s] <= u => u \in S
      BY <1>n
    <3> QED BY <1>n, <1>3, <2>2, <3>1
  <2> QED BY <1>1, <1>3, <2>3, <2>4
<1>4. CASE UNCHANGED <<allocations, next, held>> /\ \E bx : Answered("resize", n, FALSE, bx)
  <2>1. answer'.call = "resize"
    BY <1>4 DEF Answered
  <2> QED BY <1>4, <2>1 DEF MemoryInv, TableInv, HeldInv, AnswerInv, Blocks
<1> QED BY <1>2, <1>3, <1>4 DEF Resize, Blocks

LEMMA MemoryInvHolds == ASSUME MemoryConstants PROVE Spec => []MemoryInv
<1>1. Init => MemoryInv
  BY DEF MemoryConstants, Init, MemoryInv, TableInv, HeldInv, AnswerInv, None, Blocks
<1>2. MemoryInv /\ [Next]_memoryVars => MemoryInv'
  <2> SUFFICES ASSUME MemoryInv, [Next]_memoryVars PROVE MemoryInv'
    OBVIOUS
  <2>1. ASSUME NEW s \in {b.seg : b \in held} PROVE s \in Blocks
    BY DEF MemoryInv, HeldInv
  <2>2. CASE UNCHANGED memoryVars
    <3>1. FreeGaps' = FreeGaps
      BY <2>2 DEF memoryVars, FreeGaps, CursorAt, EndsBelow, Floor
    <3> QED BY <2>2, <3>1 DEF memoryVars, MemoryInv, TableInv, HeldInv, AnswerInv, Blocks,
            Largest, Fitting
  <2>3. ASSUME NEW s \in {b.seg : b \in held}, NEW n \in Sizes, n > 0 \/ ZeroSizes, Resize(s, n)
        PROVE  MemoryInv'
    <3>1. n \in Sizes \ {0}
      BY <2>3 DEF MemoryConstants
    <3>2. s \in Blocks
      BY <2>1
    <3> QED BY <2>3, <3>1, <3>2, ResizeStep
  <2> QED BY <2>2, <2>3, AllocateStep, FreeStep DEF Next
<1> QED BY <1>1, <1>2, PTL DEF Spec

(* A refusal tells the truth: what it offers is the size of the largest    *)
(* gap, which fits, and is less than was asked for.                        *)
LEMMA RefusalTrue == ASSUME MemoryConstants, MemoryInv PROVE RefusalTellsSize
<1> SUFFICES ASSUME answer.call = "allocate", ~answer.ok
             PROVE  /\ answer.bx < answer.wanted \/ answer.wanted = 0
                    /\ answer.bx > 0 => Fitting(answer.bx) # {}
  BY DEF RefusalTellsSize
<1>1. /\ answer.bx = Largest /\ answer.wanted \in Nat
      /\ answer.wanted = 0 \/ Fitting(answer.wanted) = {}
  BY DEF MemoryInv, AnswerInv
<1> DEFINE S == {gap.size : gap \in FreeGaps} \cup {0}
<1>2. S \in SUBSET (0..Limit) /\ S # {} /\ Limit \in Nat
  BY Gaps DEF MemoryInv, MemoryConstants
<1>3. Largest \in S /\ Largest \in Nat
  <2>1. Max(S) \in S
    BY <1>2, MaxOf
  <2> QED BY <1>2, <2>1 DEF Largest
<1>4. ASSUME Largest # 0 PROVE \E gap \in FreeGaps : gap.size = Largest
  BY <1>3, <1>4
<1>5. ASSUME NEW n \in Nat, n <= Largest, Largest # 0 PROVE Fitting(n) # {}
  BY <1>3, <1>4, <1>5 DEF Fitting
<1>6. Largest > 0 => Fitting(Largest) # {}
  BY <1>3, <1>5
<1>7. answer.wanted # 0 => Largest < answer.wanted
  BY <1>1, <1>3, <1>5
<1> QED BY <1>1, <1>6, <1>7

(* A paragraph that is in no block is in the gap below the next one.       *)
LEMMA NoneLost == ASSUME MemoryConstants, MemoryInv PROVE NothingLost
<1> SUFFICES ASSUME Psp \in Blocks, NEW p \in Psp..Limit - 1,
                    ~\E b \in held : p \in b.seg..b.seg + b.size - 1
             PROVE  \E gap \in FreeGaps : p \in gap.start..gap.start + gap.size - 1
  BY DEF NothingLost, Blocks
<1>1. /\ Limit \in Nat /\ Psp \in Nat /\ p \in Nat /\ p < Limit /\ Psp <= p
      /\ \A u \in Blocks : u \in Nat /\ allocations[u] \in Nat
  BY DEF MemoryInv, TableInv, MemoryConstants
<1>2. \A u \in Blocks : u > p \/ u + allocations[u] <= p
  <2>1. ASSUME NEW u \in Blocks PROVE ~(p \in u..u + allocations[u] - 1)
    <3>1. [seg |-> u, size |-> allocations[u]] \in held
      BY DEF MemoryInv, HeldInv
    <3> QED BY <3>1
  <2> QED BY <1>1, <2>1
<1> DEFINE above == {t \in Blocks \cup {Limit} : t > p}
           s == Min(above)
<1>3. s \in above /\ \A t \in above : s <= t
  <2>1. above \in SUBSET Nat /\ above # {}
    BY <1>1
  <2> QED BY <2>1, MinOf
<1> HIDE DEF s
<1>4. s \in Blocks \cup {Limit} /\ s \in Nat /\ p < s
  BY <1>1, <1>3
<1>5. \A e \in EndsBelow(s) : e <= p
  <2>1. ASSUME NEW u \in Blocks, u < s PROVE u + allocations[u] <= p
    <3>1. u \notin above
      BY <1>1, <1>3, <1>4, <2>1
    <3> QED BY <1>1, <1>2, <3>1
  <2>2. Floor <= p
    <3>1. Min(Blocks) \in Blocks /\ Min(Blocks) <= Psp
      BY MinOf DEF MemoryInv, TableInv
    <3>2. Floor = Min(Blocks)
      BY DEF Floor, Blocks
    <3>3. Min(Blocks) \in Nat
      BY <1>1, <3>1
    <3> QED BY <1>1, <3>1, <3>2, <3>3
  <2> QED BY <2>1, <2>2 DEF EndsBelow, Blocks
<1>6. CursorAt(s) \in Nat /\ CursorAt(s) <= p
  BY <1>4, <1>5, Cursor DEF MemoryInv
<1>7. [start |-> CursorAt(s), size |-> s - CursorAt(s)] \in FreeGaps
  BY <1>1, <1>4, <1>6 DEF FreeGaps, Blocks
<1>8. p \in CursorAt(s)..CursorAt(s) + (s - CursorAt(s)) - 1
  BY <1>1, <1>4, <1>6
<1> QED BY <1>7, <1>8

(* Whatever sequence of requests a program makes, its blocks never overlap,*)
(* every refusal tells what can be had, and no paragraph is lost           *)
(* (_find_free_gap, _largest_free_gap and INT 21h 48h, 49h, 4Ah together). *)
THEOREM MemoryHolds == ASSUME MemoryConstants PROVE Spec => []MemoryKept
<1>1. MemoryInv => HeldApart
  <2> SUFFICES ASSUME MemoryInv PROVE HeldApart
    OBVIOUS
  <2>1. \A b \in held : b.seg \in Blocks /\ b.size = allocations[b.seg]
                        /\ b = [seg |-> b.seg, size |-> b.size]
    BY DEF MemoryInv, HeldInv
  <2>2. \A b \in held : b.seg + b.size <= Limit
    BY <2>1 DEF MemoryInv, TableInv
  <2>3. ASSUME NEW b \in held, NEW c \in held, b # c
        PROVE  b.seg + b.size <= c.seg \/ c.seg + c.size <= b.seg
    <3>1. b.seg # c.seg /\ b.seg \in Nat /\ c.seg \in Nat
      BY <2>1, <2>3 DEF MemoryInv, TableInv
    <3>2. b.seg < c.seg \/ c.seg < b.seg
      BY <3>1
    <3> QED BY <2>1, <3>2 DEF MemoryInv, TableInv
  <2> QED BY <2>2, <2>3 DEF HeldApart
<1>2. MemoryInv => MemoryKept
  BY <1>1, RefusalTrue, NoneLost DEF MemoryKept
<1> QED BY <1>2, MemoryInvHolds, PTL
-----------------------------------------------------------------------------
(* The files.                                                              *)

(* Every handle has a buffer of its own, and there have been more handles  *)
(* at once than the highest one there is says.                             *)
HandlesInv ==
    /\ \E S : buffers \in Seq(S)
    /\ peak \in Nat /\ IsFiniteSet(DOMAIN files) /\ Cardinality(DOMAIN files) <= peak
    /\ files = [h \in DOMAIN files |-> [path |-> files[h].path, buffer |-> files[h].buffer,
                                        pos |-> files[h].pos, writable |-> files[h].writable]]
    /\ \A h \in DOMAIN files : h \in Nat /\ h < 5 + peak /\ files[h].buffer \in 1..Len(buffers)
    /\ \A g, h \in DOMAIN files : g # h => files[g].buffer # files[h].buffer
    /\ ~persist => sink = F!Empty /\ overlay = F!Empty

(* Two paths are saved under two names, and the program does not create a  *)
(* file it is creating.                                                    *)
FilesConstants == /\ ~SharedCreates
                  /\ \A p, q \in Path : SinkName[p] = SinkName[q] => p = q

(* With a save directory a created file's buffer is the overlay's, nobody  *)
(* else has it, and what is closed is in both places.                      *)
SavedInv == persist =>
    /\ DOMAIN saved \subseteq Path /\ DOMAIN overlay \subseteq Path
    /\ \A p \in DOMAIN overlay : overlay[p] \in 1..Len(buffers)
    /\ \A h \in DOMAIN files, p \in DOMAIN overlay :
          files[h].buffer = overlay[p] => files[h].writable /\ files[h].path = p
    /\ \A h \in DOMAIN files : files[h].writable =>
          files[h].path \in DOMAIN overlay /\ overlay[files[h].path] = files[h].buffer
    /\ \A p \in DOMAIN overlay :
          F!Creating(p) \/ (p \in DOMAIN saved /\ buffers[overlay[p]] = saved[p])
    /\ \A p \in DOMAIN saved : SinkName[p] \in DOMAIN sink /\ sink[SinkName[p]] = saved[p]

FilesInv == HandlesInv /\ SavedInv

LEMMA SameExtremes == \A S : F!Min(S) = Min(S) /\ F!Max(S) = Max(S)
BY DEF Min, Max, F!Min, F!Max

LEMMA SameCardinality == \A S : F!Cardinality(S) = Cardinality(S)
BY DEF Cardinality, F!Cardinality

(* There is a free handle no larger than the number of handles.            *)
LEMMA FreeHandleFree ==
    ASSUME HandlesInv
    PROVE  /\ F!FreeHandle \in Nat \ DOMAIN files
           /\ F!FreeHandle <= 5 + Cardinality(DOMAIN files)
<1> DEFINE n == Cardinality(DOMAIN files)
           S == 5..5 + n \ DOMAIN files
<1>1. n \in Nat /\ IsFiniteSet(DOMAIN files)
  BY FS_CardinalityType DEF HandlesInv
<1> HIDE DEF n
<1>2. S # {}
  <2>1. IsFiniteSet(5..5 + n) /\ Cardinality(5..5 + n) = n + 1
    BY <1>1, FS_Interval
  <2>2. SUFFICES ASSUME 5..5 + n \subseteq DOMAIN files PROVE FALSE
    OBVIOUS
  <2>3. Cardinality(5..5 + n) <= Cardinality(DOMAIN files)
    BY <1>1, <2>2, FS_Subset
  <2> QED BY <1>1, <2>1, <2>3 DEF n
<1>3. S \in SUBSET Nat /\ F!FreeHandle = Min(S)
  <2>1. S \in SUBSET Nat
    BY <1>1
  <2>2. F!FreeHandle = F!Min(S)
    BY SameCardinality, Zenon DEF F!FreeHandle, n
  <2> QED BY <2>1, <2>2, SameExtremes
<1>4. F!FreeHandle \in S
  BY <1>2, <1>3, MinOf
<1> QED BY <1>1, <1>3, <1>4 DEF n

(* The list of buffers grows at its end, and changes in place.             *)
LEMMA Appended ==
    ASSUME NEW c, \E S : buffers \in Seq(S), buffers' = Append(buffers, c)
    PROVE  /\ \E S : buffers' \in Seq(S)
           /\ Len(buffers) \in Nat /\ Len(buffers') = Len(buffers) + 1
           /\ buffers'[Len(buffers) + 1] = c
           /\ \A i \in 1..Len(buffers) : buffers'[i] = buffers[i]
<1>1. PICK S : buffers \in Seq(S)
  OBVIOUS
<1>2. buffers \in Seq(S \cup {c})
  BY <1>1, LenProperties
<1> QED BY <1>2, AppendProperties, LenProperties

LEMMA Changed ==
    ASSUME NEW c, NEW j \in 1..Len(buffers), \E S : buffers \in Seq(S),
           buffers' = [buffers EXCEPT ![j] = c]
    PROVE  /\ \E S : buffers' \in Seq(S)
           /\ Len(buffers) \in Nat /\ Len(buffers') = Len(buffers)
           /\ \A i \in 1..Len(buffers) : buffers'[i] = IF i = j THEN c ELSE buffers[i]
<1>1. PICK S : buffers \in Seq(S)
  OBVIOUS
<1>2. buffers \in Seq(S \cup {c})
  BY <1>1, LenProperties
<1> QED BY <1>2, ExceptSeq, LenProperties

(* A handle is added.                                                      *)
LEMMA OpenAsStep ==
    ASSUME HandlesInv, NEW p, NEW c, NEW w, F!OpenAs(p, c, w),
           ~persist' => sink' = F!Empty /\ overlay' = F!Empty
    PROVE  /\ HandlesInv'
           /\ DOMAIN files' = DOMAIN files \cup {F!FreeHandle}
           /\ F!FreeHandle \notin DOMAIN files
           /\ files'[F!FreeHandle].path = p /\ files'[F!FreeHandle].writable = w
           /\ files'[F!FreeHandle].buffer = Len(buffers) + 1
           /\ \A g \in DOMAIN files : files'[g] = files[g]
           /\ Len(buffers) \in Nat /\ Len(buffers') = Len(buffers) + 1
           /\ buffers'[Len(buffers) + 1] = c
           /\ \A i \in 1..Len(buffers) : buffers'[i] = buffers[i]
<1> DEFINE h == F!FreeHandle
           r == [path |-> p, buffer |-> Len(buffers) + 1, pos |-> 0, writable |-> w]
           n == Cardinality(DOMAIN files)
<1>1. h \in Nat \ DOMAIN files /\ h <= 5 + n
  BY FreeHandleFree
<1>2. files' = F!Put(files, h, r) /\ buffers' = Append(buffers, c)
      /\ peak' = Max({peak, n + 1})
  <2>1. F!Max({peak, n + 1}) = Max({peak, n + 1}) /\ F!Cardinality(DOMAIN files) = n
    BY SameExtremes, SameCardinality
  <2> QED BY <2>1, Zenon DEF F!OpenAs
<1> HIDE DEF h
<1>3. /\ DOMAIN files' = DOMAIN files \cup {h} /\ files'[h] = r
      /\ \A g \in DOMAIN files : files'[g] = files[g]
  BY <1>1, <1>2 DEF F!Put
<1>4. /\ \E S : buffers' \in Seq(S)
      /\ Len(buffers) \in Nat /\ Len(buffers') = Len(buffers) + 1
      /\ buffers'[Len(buffers) + 1] = c
      /\ \A i \in 1..Len(buffers) : buffers'[i] = buffers[i]
  BY <1>2, Appended DEF HandlesInv
<1>5. /\ n \in Nat /\ IsFiniteSet(DOMAIN files') /\ Cardinality(DOMAIN files') = n + 1
  <2>1. IsFiniteSet(DOMAIN files) /\ n \in Nat
    BY FS_CardinalityType DEF HandlesInv
  <2>2. /\ IsFiniteSet(DOMAIN files \cup {h})
        /\ Cardinality(DOMAIN files \cup {h}) = IF h \in DOMAIN files THEN n ELSE n + 1
    BY <2>1, FS_AddElement
  <2> QED BY <1>1, <1>3, <2>1, <2>2
<1> HIDE DEF n
<1>6. peak' \in Nat /\ peak <= peak' /\ n + 1 <= peak'
  <2>1. peak \in Nat
    BY DEF HandlesInv
  <2>2. {peak, n + 1} \in SUBSET (0..peak + n + 1) /\ peak + n + 1 \in Nat
    BY <1>5, <2>1
  <2>3. Max({peak, n + 1}) \in {peak, n + 1} /\ \A x \in {peak, n + 1} : x <= Max({peak, n + 1})
    BY <2>2, MaxOf
  <2> QED BY <1>2, <1>5, <2>1, <2>3
<1>7. ASSUME NEW g \in DOMAIN files'
      PROVE  g \in Nat /\ g < 5 + peak' /\ files'[g].buffer \in 1..Len(buffers')
  <2>1. CASE g = h
    BY <1>1, <1>3, <1>4, <1>5, <1>6, <2>1
  <2>2. CASE g # h
    <3>1. g \in DOMAIN files /\ files'[g] = files[g] /\ peak \in Nat
      BY <1>3, <1>7, <2>2 DEF HandlesInv
    <3>2. g \in Nat /\ g < 5 + peak /\ files[g].buffer \in 1..Len(buffers)
      BY <3>1 DEF HandlesInv
    <3> QED BY <1>4, <1>6, <3>1, <3>2
  <2> QED BY <2>1, <2>2
<1>8. ASSUME NEW f \in DOMAIN files', NEW g \in DOMAIN files', f # g
      PROVE  files'[f].buffer # files'[g].buffer
  <2>1. \A e \in DOMAIN files : files'[e].buffer \in 1..Len(buffers)
    BY <1>3 DEF HandlesInv
  <2>2. files'[h].buffer = Len(buffers) + 1
    BY <1>3
  <2> QED BY <1>3, <1>4, <1>8, <2>1, <2>2 DEF HandlesInv
<1>9. files' = [g \in DOMAIN files' |-> [path |-> files'[g].path, buffer |-> files'[g].buffer,
                                         pos |-> files'[g].pos, writable |-> files'[g].writable]]
  <2>1. \A g \in DOMAIN files' : files'[g] = [path |-> files'[g].path, buffer |-> files'[g].buffer,
                                         pos |-> files'[g].pos, writable |-> files'[g].writable]
    <3>1. \A g \in DOMAIN files : files[g] = [path |-> files[g].path, buffer |-> files[g].buffer,
                                         pos |-> files[g].pos, writable |-> files[g].writable]
      BY DEF HandlesInv
    <3> QED BY <1>3, <3>1
  <2>2. files' = [g \in DOMAIN files' |-> files'[g]]
    BY <1>2 DEF F!Put
  <2> QED BY <2>1, <2>2
<1>10. HandlesInv'
  BY <1>4, <1>5, <1>6, <1>7, <1>8, <1>9 DEF HandlesInv
<1> QED BY <1>1, <1>3, <1>4, <1>10 DEF h

(* The position of a handle, or the content of its buffer, changes.        *)
LEMMA MoveStep ==
    ASSUME HandlesInv, NEW h \in DOMAIN files, NEW x, files' = [files EXCEPT ![h].pos = x],
           UNCHANGED <<persist, overlay, sink, peak>>,
           buffers' = buffers \/ \E c : buffers' = [buffers EXCEPT ![files[h].buffer] = c]
    PROVE  /\ HandlesInv'
           /\ DOMAIN files' = DOMAIN files
           /\ \A g \in DOMAIN files : /\ files'[g].path = files[g].path
                                      /\ files'[g].buffer = files[g].buffer
                                      /\ files'[g].writable = files[g].writable
           /\ Len(buffers') = Len(buffers)
           /\ \A i \in 1..Len(buffers) : i # files[h].buffer => buffers'[i] = buffers[i]
<1>1. /\ \E S : buffers' \in Seq(S)
      /\ Len(buffers') = Len(buffers)
      /\ \A i \in 1..Len(buffers) : i # files[h].buffer => buffers'[i] = buffers[i]
  <2>1. CASE buffers' = buffers
    BY <2>1 DEF HandlesInv
  <2>2. CASE \E c : buffers' = [buffers EXCEPT ![files[h].buffer] = c]
    <3>1. PICK c : buffers' = [buffers EXCEPT ![files[h].buffer] = c]
      BY <2>2
    <3>2. files[h].buffer \in 1..Len(buffers) /\ \E S : buffers \in Seq(S)
      BY DEF HandlesInv
    <3> DEFINE j == files[h].buffer
    <3>3. j \in 1..Len(buffers) /\ buffers' = [buffers EXCEPT ![j] = c]
      BY <3>1, <3>2
    <3> HIDE DEF j
    <3>4. /\ \E S : buffers' \in Seq(S)
          /\ Len(buffers') = Len(buffers)
          /\ \A i \in 1..Len(buffers) : buffers'[i] = IF i = j THEN c ELSE buffers[i]
      BY <3>2, <3>3, Changed
    <3> QED BY <3>4 DEF j
  <2> QED BY <2>1, <2>2
<1>2. \A g \in DOMAIN files : files[g] = [path |-> files[g].path, buffer |-> files[g].buffer,
                                     pos |-> files[g].pos, writable |-> files[g].writable]
  BY DEF HandlesInv
<1>3. DOMAIN files' = DOMAIN files /\ files' = [g \in DOMAIN files' |-> files'[g]]
  OBVIOUS
<1>4. \A g \in DOMAIN files : files'[g] = IF g = h THEN [files[h] EXCEPT !.pos = x] ELSE files[g]
  OBVIOUS
<1>5. [files[h] EXCEPT !.pos = x] = [path |-> files[h].path, buffer |-> files[h].buffer,
                                     pos |-> x, writable |-> files[h].writable]
  BY <1>2
<1>6. \A g \in DOMAIN files : /\ files'[g].path = files[g].path
                              /\ files'[g].buffer = files[g].buffer
                              /\ files'[g].writable = files[g].writable
                              /\ files'[g] = [path |-> files'[g].path, buffer |-> files'[g].buffer,
                                     pos |-> files'[g].pos, writable |-> files'[g].writable]
  BY <1>2, <1>4, <1>5
<1>7. files' = [g \in DOMAIN files' |-> [path |-> files'[g].path, buffer |-> files'[g].buffer,
                                         pos |-> files'[g].pos, writable |-> files'[g].writable]]
  BY <1>3, <1>6
<1>8. HandlesInv'
  BY <1>1, <1>3, <1>6, <1>7 DEF HandlesInv
<1> QED BY <1>1, <1>3, <1>6, <1>8

(* A handle is closed.                                                     *)
LEMMA CloseStep ==
    ASSUME HandlesInv, NEW h \in DOMAIN files, F!Close(h) PROVE HandlesInv'
<1>1. /\ DOMAIN files' = DOMAIN files \ {h} /\ files' = [g \in DOMAIN files' |-> files'[g]]
      /\ \A g \in DOMAIN files' : files'[g] = files[g]
      /\ UNCHANGED <<persist, buffers, overlay, peak>>
  <2>1. files' = F!Drop(files, h)
    BY DEF F!Close
  <2>2. files' = [g \in DOMAIN files' |-> files'[g]]
    BY <2>1 DEF F!Drop
  <2> QED BY <2>1, <2>2 DEF F!Close, F!Drop
<1>2. ~persist => sink' = sink
  BY DEF F!Close, F!Wrote
<1>3. IsFiniteSet(DOMAIN files') /\ Cardinality(DOMAIN files') <= peak
  <2>1. /\ IsFiniteSet(DOMAIN files') /\ Cardinality(DOMAIN files') \in Nat
        /\ Cardinality(DOMAIN files') <= Cardinality(DOMAIN files)
        /\ Cardinality(DOMAIN files) \in Nat
    BY <1>1, FS_Subset, FS_CardinalityType DEF HandlesInv
  <2> QED BY <2>1 DEF HandlesInv
<1>4. files' = [g \in DOMAIN files' |-> [path |-> files'[g].path, buffer |-> files'[g].buffer,
                                         pos |-> files'[g].pos, writable |-> files'[g].writable]]
  <2>1. \A g \in DOMAIN files : files[g] = [path |-> files[g].path, buffer |-> files[g].buffer,
                                     pos |-> files[g].pos, writable |-> files[g].writable]
    BY DEF HandlesInv
  <2> QED BY <1>1, <2>1
<1> QED BY <1>1, <1>2, <1>3, <1>4 DEF HandlesInv

LEMMA RerunStep == ASSUME HandlesInv, F!Rerun PROVE HandlesInv'
<1>1. /\ files' = F!Empty /\ overlay' = F!Empty /\ UNCHANGED <<persist, sink, peak>>
      /\ buffers' = [i \in 1..Len(buffers) |-> <<>>]
  BY DEF F!Rerun
<1>2. Len(buffers) \in Nat
  BY LenProperties DEF HandlesInv
<1>3. buffers' \in Seq({<<>>})
  BY <1>1, <1>2
<1>4. DOMAIN files' = {}
  BY <1>1 DEF F!Empty
<1>5. IsFiniteSet(DOMAIN files') /\ Cardinality(DOMAIN files') = 0
  BY <1>4, FS_EmptySet
<1>6. files' = [h \in DOMAIN files' |-> [path |-> files'[h].path, buffer |-> files'[h].buffer,
                                         pos |-> files'[h].pos, writable |-> files'[h].writable]]
  BY <1>1, <1>4 DEF F!Empty
<1>7. peak' \in Nat /\ Cardinality(DOMAIN files') <= peak'
  BY <1>1, <1>5 DEF HandlesInv
<1>8. \E S : buffers' \in Seq(S)
  BY <1>3
<1>9. ~persist' => sink' = F!Empty /\ overlay' = F!Empty
  BY <1>1 DEF HandlesInv
<1> QED BY <1>4, <1>5, <1>6, <1>7, <1>8, <1>9 DEF HandlesInv

(* What reading, writing and seeking have in common.                       *)
Moves(h) == /\ \E x : files' = [files EXCEPT ![h].pos = x]
            /\ buffers' = buffers \/ \E c : buffers' = [buffers EXCEPT ![files[h].buffer] = c]
            /\ UNCHANGED <<persist, overlay, sink, saved, peak>>

LEMMA MovesAre ==
    ASSUME NEW h, \/ F!Read(h, 1)
                  \/ \E v \in Values : F!Write(h, <<v>>)
                  \/ \E origin \in {"start", "here", "end"}, d \in {-1, 1} : F!Seek(h, origin, d)
    PROVE  Moves(h)
<1>1. CASE F!Read(h, 1)
  BY <1>1 DEF F!Read, Moves
<1>2. CASE \E v \in Values : F!Write(h, <<v>>)
  <2>1. PICK v \in Values : F!Write(h, <<v>>)
    BY <1>2
  <2> QED BY <2>1 DEF F!Write, Moves
<1>3. CASE \E origin \in {"start", "here", "end"}, d \in {-1, 1} : F!Seek(h, origin, d)
  <2>1. PICK origin \in {"start", "here", "end"}, d \in {-1, 1} : F!Seek(h, origin, d)
    BY <1>3
  <2> QED BY <2>1 DEF F!Seek, Moves
<1> QED BY <1>1, <1>2, <1>3

FileStep(p) == F!Create(p) \/ F!Open(p)

LEMMA FileSteps ==
    F!Next => \/ \E p \in Path : FileStep(p)
              \/ \E h \in DOMAIN files : F!Close(h) \/ Moves(h)
              \/ F!Rerun
BY MovesAre DEF F!Next, FileStep

LEMMA HandlesStep == HandlesInv /\ [F!Next]_F!fileVars => HandlesInv'
<1> SUFFICES ASSUME HandlesInv, [F!Next]_F!fileVars PROVE HandlesInv'
  OBVIOUS
<1>1. ASSUME NEW p, FileStep(p) PROVE HandlesInv'
  <2>1. PICK c, w : F!OpenAs(p, c, w)
    BY <1>1 DEF FileStep, F!Create, F!Open
  <2>2. ~persist' => sink' = F!Empty /\ overlay' = F!Empty
    <3>1. persist' = persist /\ sink' = sink /\ (~persist => overlay' = overlay)
      BY <1>1 DEF FileStep, F!Create, F!Open
    <3> QED BY <3>1 DEF HandlesInv
  <2> QED BY <2>1, <2>2, OpenAsStep
<1>2. ASSUME NEW h \in DOMAIN files, Moves(h) PROVE HandlesInv'
  BY <1>2, MoveStep DEF Moves
<1>3. CASE UNCHANGED F!fileVars
  BY <1>3 DEF F!fileVars, HandlesInv
<1> QED BY <1>1, <1>2, <1>3, FileSteps, CloseStep, RerunStep

(* What is saved stays what was last written and closed.                   *)
LEMMA SavedStep ==
    FilesConstants /\ FilesInv /\ [F!Next]_F!fileVars => SavedInv'
<1> SUFFICES ASSUME FilesConstants, HandlesInv, SavedInv, [F!Next]_F!fileVars, persist'
             PROVE  SavedInv'
  BY DEF FilesInv, SavedInv
<1>p. persist
  BY DEF F!Next, F!Create, F!Open, F!Close, F!Read, F!Write, F!Seek, F!Rerun, F!fileVars
<1>b. \A h \in DOMAIN files : files[h].buffer \in 1..Len(buffers)
  BY DEF HandlesInv
<1>1. ASSUME NEW p \in Path, F!Create(p) PROVE SavedInv'
  <2> DEFINE h == F!FreeHandle
             n == Len(buffers) + 1
  <2>1. /\ DOMAIN files' = DOMAIN files \cup {h} /\ h \notin DOMAIN files
        /\ files'[h].path = p /\ files'[h].writable = TRUE /\ files'[h].buffer = n
        /\ \A g \in DOMAIN files : files'[g] = files[g]
        /\ Len(buffers) \in Nat /\ Len(buffers') = n
        /\ \A i \in 1..Len(buffers) : buffers'[i] = buffers[i]
    BY <1>1, <1>p, OpenAsStep DEF F!Create
  <2> HIDE DEF h
  <2>2. /\ DOMAIN overlay' = DOMAIN overlay \cup {p} /\ overlay'[p] = n
        /\ \A q \in DOMAIN overlay : q # p => overlay'[q] = overlay[q]
    BY <1>1, <1>p DEF F!Create, F!Put
  <2>3. \A g \in DOMAIN files : ~(files[g].writable /\ files[g].path = p)
    BY <1>1 DEF F!Create, F!Creating, FilesConstants
  <2>4. UNCHANGED <<sink, saved>>
    BY <1>1 DEF F!Create
  <2>5. \A q \in DOMAIN overlay' : overlay'[q] \in 1..Len(buffers')
    BY <1>p, <2>1, <2>2 DEF SavedInv
  <2>6. ASSUME NEW g \in DOMAIN files', NEW q \in DOMAIN overlay',
               files'[g].buffer = overlay'[q]
        PROVE  files'[g].writable /\ files'[g].path = q
    <3>1. n \notin 1..Len(buffers)
      BY <2>1
    <3>2. CASE g = h
      <4>1. q = p
        BY <1>p, <2>1, <2>2, <2>6, <3>1, <3>2 DEF SavedInv
      <4> QED BY <2>1, <3>2, <4>1
    <3>3. CASE g # h
      <4>1. g \in DOMAIN files /\ files'[g] = files[g] /\ files[g].buffer # n
        BY <1>b, <2>1, <3>1, <3>3
      <4>2. q # p /\ q \in DOMAIN overlay /\ overlay'[q] = overlay[q]
        BY <2>2, <2>6, <4>1
      <4> QED BY <1>p, <2>6, <4>1, <4>2 DEF SavedInv
    <3> QED BY <3>2, <3>3
  <2>7. ASSUME NEW g \in DOMAIN files', files'[g].writable
        PROVE  files'[g].path \in DOMAIN overlay' /\ overlay'[files'[g].path] = files'[g].buffer
    BY <1>p, <2>1, <2>2, <2>3, <2>7 DEF SavedInv
  <2>8. ASSUME NEW q \in DOMAIN overlay'
        PROVE  F!Creating(q)' \/ (q \in DOMAIN saved' /\ buffers'[overlay'[q]] = saved'[q])
    <3>1. CASE q = p
      BY <2>1, <3>1 DEF F!Creating
    <3>2. CASE q # p
      <4>1. q \in DOMAIN overlay /\ overlay'[q] = overlay[q] /\ overlay[q] \in 1..Len(buffers)
        BY <1>p, <2>2, <2>8, <3>2 DEF SavedInv
      <4>2. F!Creating(q) => F!Creating(q)'
        BY <2>1 DEF F!Creating
      <4> QED BY <1>p, <2>1, <2>4, <4>1, <4>2 DEF SavedInv
    <3> QED BY <3>1, <3>2
  <2> QED BY <1>p, <2>2, <2>4, <2>5, <2>6, <2>7, <2>8 DEF SavedInv
<1>2. ASSUME NEW p, F!Open(p) PROVE SavedInv'
  <2> DEFINE h == F!FreeHandle
             n == Len(buffers) + 1
  <2>1. /\ DOMAIN files' = DOMAIN files \cup {h} /\ h \notin DOMAIN files
        /\ files'[h].writable = FALSE /\ files'[h].buffer = n
        /\ \A g \in DOMAIN files : files'[g] = files[g]
        /\ Len(buffers) \in Nat /\ Len(buffers') = n
        /\ \A i \in 1..Len(buffers) : buffers'[i] = buffers[i]
    BY <1>2, <1>p, OpenAsStep DEF F!Open
  <2> HIDE DEF h
  <2>2. UNCHANGED <<overlay, sink, saved>>
    BY <1>2 DEF F!Open
  <2>3. \A q \in DOMAIN overlay : /\ overlay[q] \in 1..Len(buffers) /\ overlay[q] # n
                                  /\ overlay[q] \in 1..Len(buffers')
                                  /\ buffers'[overlay[q]] = buffers[overlay[q]]
    BY <1>p, <2>1 DEF SavedInv
  <2>4. \A q : F!Creating(q)' <=> F!Creating(q)
    BY <2>1 DEF F!Creating
  <2>5. ASSUME NEW g \in DOMAIN files', NEW q \in DOMAIN overlay, files'[g].buffer = overlay[q]
        PROVE  files'[g].writable /\ files'[g].path = q
    BY <1>p, <2>1, <2>3, <2>5 DEF SavedInv
  <2>6. ASSUME NEW g \in DOMAIN files', files'[g].writable
        PROVE  files'[g].path \in DOMAIN overlay /\ overlay[files'[g].path] = files'[g].buffer
    BY <1>p, <2>1, <2>6 DEF SavedInv
  <2> QED BY <1>p, <2>2, <2>3, <2>4, <2>5, <2>6 DEF SavedInv
<1>3. ASSUME NEW h \in DOMAIN files, F!Close(h) PROVE SavedInv'
  <2> DEFINE p == files[h].path
  <2>1. /\ DOMAIN files' = DOMAIN files \ {h}
        /\ \A g \in DOMAIN files' : files'[g] = files[g]
        /\ UNCHANGED <<buffers, overlay>>
    BY <1>3 DEF F!Close, F!Drop
  <2>2. CASE files[h].writable
    <3>1. p \in DOMAIN overlay /\ overlay[p] = files[h].buffer /\ p \in Path
      BY <1>p, <2>2 DEF SavedInv
    <3>2. /\ DOMAIN sink' = DOMAIN sink \cup {SinkName[p]}
          /\ sink'[SinkName[p]] = buffers[overlay[p]]
          /\ \A x \in DOMAIN sink : x # SinkName[p] => sink'[x] = sink[x]
      BY <1>3, <1>p, <2>2, <3>1 DEF F!Close, F!Wrote, F!Put
    <3>3. /\ DOMAIN saved' = DOMAIN saved \cup {p} /\ saved'[p] = buffers[overlay[p]]
          /\ \A q \in DOMAIN saved : q # p => saved'[q] = saved[q]
      BY <1>3, <2>2, <3>1 DEF F!Close, F!Content, F!Put
    <3> HIDE DEF p
    <3>4. ASSUME NEW q \in DOMAIN saved'
          PROVE  SinkName[q] \in DOMAIN sink' /\ sink'[SinkName[q]] = saved'[q]
      <4>1. CASE q = p
        BY <3>2, <3>3, <4>1
      <4>2. CASE q # p
        <5>1. q \in DOMAIN saved /\ q \in Path /\ SinkName[q] \in DOMAIN sink
              /\ sink[SinkName[q]] = saved[q]
          BY <1>p, <3>3, <4>2 DEF SavedInv
        <5>2. SinkName[q] # SinkName[p]
          BY <3>1, <4>2, <5>1 DEF FilesConstants
        <5> QED BY <3>2, <3>3, <4>2, <5>1, <5>2
      <4> QED BY <4>1, <4>2
    <3>5. ASSUME NEW q \in DOMAIN overlay
          PROVE  F!Creating(q)' \/ (q \in DOMAIN saved' /\ buffers[overlay[q]] = saved'[q])
      <4>1. CASE q = p
        BY <3>3, <4>1
      <4>2. CASE q # p
        <5>1. F!Creating(q) => F!Creating(q)'
          BY <2>1, <4>2 DEF F!Creating, p
        <5> QED BY <1>p, <3>3, <4>2, <5>1 DEF SavedInv
      <4> QED BY <4>1, <4>2
    <3>6. DOMAIN saved' \subseteq Path
      BY <1>p, <3>1, <3>3 DEF SavedInv
    <3> QED BY <1>p, <2>1, <3>4, <3>5, <3>6 DEF SavedInv
  <2>3. CASE ~files[h].writable
    <3>1. UNCHANGED <<sink, saved>>
      BY <1>3, <2>3 DEF F!Close
    <3>2. \A q : F!Creating(q) => F!Creating(q)'
      BY <2>1, <2>3 DEF F!Creating
    <3> QED BY <1>p, <2>1, <3>1, <3>2 DEF SavedInv
  <2> QED BY <2>2, <2>3
<1>4. ASSUME NEW h \in DOMAIN files, Moves(h) PROVE SavedInv'
  <2>1. /\ DOMAIN files' = DOMAIN files
        /\ \A g \in DOMAIN files : /\ files'[g].path = files[g].path
                                   /\ files'[g].buffer = files[g].buffer
                                   /\ files'[g].writable = files[g].writable
        /\ Len(buffers') = Len(buffers)
        /\ \A i \in 1..Len(buffers) : i # files[h].buffer => buffers'[i] = buffers[i]
        /\ UNCHANGED <<overlay, sink, saved>>
    BY <1>4, MoveStep DEF Moves
  <2>2. \A q : F!Creating(q)' <=> F!Creating(q)
    BY <2>1 DEF F!Creating
  <2>3. ASSUME NEW q \in DOMAIN overlay, ~F!Creating(q)
        PROVE  q \in DOMAIN saved /\ buffers'[overlay[q]] = saved[q]
    <3>1. /\ overlay[q] \in 1..Len(buffers)
          /\ q \in DOMAIN saved /\ buffers[overlay[q]] = saved[q]
      BY <1>p, <2>3 DEF SavedInv
    <3>2. overlay[q] # files[h].buffer
      BY <1>p, <2>3 DEF SavedInv, F!Creating
    <3> QED BY <2>1, <3>1, <3>2
  <2> QED BY <1>p, <2>1, <2>2, <2>3 DEF SavedInv
<1>5. CASE F!Rerun
  <2>1. /\ DOMAIN files' = {} /\ DOMAIN overlay' = {} /\ UNCHANGED <<sink, saved>>
    BY <1>5 DEF F!Rerun, F!Empty
  <2> QED BY <1>p, <2>1 DEF SavedInv
<1>6. CASE UNCHANGED F!fileVars
  BY <1>6 DEF F!fileVars, SavedInv, F!Creating
<1> QED BY <1>1, <1>2, <1>3, <1>4, <1>5, <1>6, FileSteps DEF FileStep

LEMMA HandlesHold == F!Spec => []HandlesInv
<1>1. F!Init => HandlesInv
  <2> SUFFICES ASSUME F!Init PROVE HandlesInv
    OBVIOUS
  <2>1. /\ buffers = <<>> /\ files = F!Empty /\ overlay = F!Empty /\ sink = F!Empty /\ peak = 0
    BY DEF F!Init
  <2>2. DOMAIN files = {}
    BY <2>1 DEF F!Empty
  <2>3. IsFiniteSet(DOMAIN files) /\ Cardinality(DOMAIN files) = 0
    BY <2>2, FS_EmptySet
  <2>4. buffers \in Seq({})
    BY <2>1, EmptySeq
  <2>5. files = [h \in DOMAIN files |-> [path |-> files[h].path, buffer |-> files[h].buffer,
                                         pos |-> files[h].pos, writable |-> files[h].writable]]
    BY <2>1, <2>2 DEF F!Empty
  <2> QED BY <2>1, <2>2, <2>3, <2>4, <2>5 DEF HandlesInv
<1> QED BY <1>1, HandlesStep, PTL DEF F!Spec

(* No two handles ever share a buffer, none is larger than the program     *)
(* needs, and without a save directory every open finds the game's own     *)
(* file: whatever the program creates, opens, writes and closes, and       *)
(* however often it is run again (INT 21h 3Ch to 42h of DOSMachine).       *)
THEOREM HandlesApart == F!Spec => [](F!BuffersApart /\ F!HandlesLow /\ F!OpensPristine)
<1>1. HandlesInv => F!BuffersApart /\ F!HandlesLow
  BY DEF HandlesInv, F!BuffersApart, F!HandlesLow
<1>2. HandlesInv => F!OpensPristine
  BY DEF HandlesInv, F!OpensPristine, F!Exists, F!Loaded
<1> QED BY <1>1, <1>2, HandlesHold, PTL

(* With a save directory, a program that creates no file it is creating    *)
(* finds in every file it opens what it last wrote there and closed, in    *)
(* the same run or a later one.                                            *)
THEOREM FilesHold == ASSUME FilesConstants PROVE F!Spec => []F!FilesKept
<1>1. F!Init => SavedInv
  BY DEF F!Init, SavedInv, F!Empty
<1>2. HandlesInv /\ SavedInv => F!ReopenedAsSaved
  BY DEF HandlesInv, SavedInv, F!ReopenedAsSaved, F!Exists, F!Loaded
<1>3. HandlesInv /\ SavedInv /\ [F!Next]_F!fileVars => SavedInv'
  BY SavedStep DEF FilesInv
<1> QED BY <1>1, <1>2, <1>3, HandlesHold, HandlesApart, PTL DEF F!Spec, F!FilesKept
-----------------------------------------------------------------------------
(* The keyboard, whether or not the program's handler goes on to the       *)
(* BIOS's.                                                                 *)
ConsoleConstants == Capacity \in Nat /\ Letter \cap Extended = {}

Word == [key : C!Buffered, shifted : BOOLEAN, nr : Nat]
Press == [key : C!Buffered, shifted : BOOLEAN, chained : BOOLEAN]

(* The BIOS's idea of shift and caps lock is what the keys are; at most    *)
(* one half of one key is waiting to be read.                              *)
ConsoleInv ==
    /\ queue \in Seq(Word) /\ got \in Seq(Word) /\ typed \in Seq(Press)
    /\ second = <<>> \/ \E w \in Word : second = <<w>>
    /\ modifiers = [shift |-> C!Shift \in physical.down, caps |-> physical.caps]
    /\ physical.caps \in BOOLEAN
    /\ C!KeysReadAsTyped
    /\ C!TableFollows

(* What noting a keystroke does to the buffer.                             *)
LEMMA NotedOnce ==
    ASSUME Capacity \in Nat, queue \in Seq(Word), NEW w \in Word
    PROVE  /\ Len(queue) >= Capacity => \A times \in {1, 2} : C!Note(queue, w, times) = queue
           /\ Len(queue) < Capacity =>
                /\ C!Note(queue, w, 1) = Append(queue, w)
                /\ C!Note(queue, w, 2) \in {Append(queue, w), Append(Append(queue, w), w)}
<1> DEFINE n == Capacity - Len(queue)
           many(times) == IF times < n THEN times ELSE n
<1>0. n \in Int /\ Len(queue) \in Nat
  OBVIOUS
<1>1. \A times : C!Note(queue, w, times) = queue \o [i \in 1..many(times) |-> w]
  BY DEF C!Note
<1>2. ASSUME Len(queue) >= Capacity, NEW times \in {1, 2}
      PROVE  C!Note(queue, w, times) = queue
  <2>1. 1..many(times) = {}
    BY <1>0, <1>2
  <2> HIDE DEF many
  <2>2. [i \in 1..many(times) |-> w] = <<>>
    BY <2>1
  <2>3. queue \o <<>> = queue
    OBVIOUS
  <2> QED BY <1>1, <2>2, <2>3
<1>3. ASSUME Len(queue) < Capacity
      PROVE  /\ C!Note(queue, w, 1) = Append(queue, w)
             /\ C!Note(queue, w, 2) \in {Append(queue, w), Append(Append(queue, w), w)}
  <2>1. many(1) = 1 /\ many(2) \in {1, 2}
    BY <1>0, <1>3
  <2> HIDE DEF many, n
  <2>2. [i \in 1..1 |-> w] = <<w>> /\ [i \in 1..2 |-> w] = <<w, w>>
    OBVIOUS
  <2>3. queue \o <<w>> = Append(queue, w) /\ queue \o <<w, w>> = Append(Append(queue, w), w)
    OBVIOUS
  <2>4. \A times : /\ many(times) = 1 => C!Note(queue, w, times) = Append(queue, w)
                   /\ many(times) = 2 => C!Note(queue, w, times) = Append(Append(queue, w), w)
    BY <1>1, <2>2, <2>3
  <2> QED BY <2>1, <2>4
<1> HIDE DEF many, n
<1> QED BY <1>2, <1>3

(* A new press, and its word.                                              *)
LEMMA OnceInOrder ==
    ASSUME NEW read \in Seq(Word), NEW presses \in Seq(Press), C!InOrder(read, presses),
           NEW w \in Word, NEW p \in Press, w.nr = Len(presses) + 1,
           w.key = p.key, w.shifted = p.shifted
    PROVE  C!InOrder(Append(read, w), Append(presses, p))
<1> DEFINE r == Append(read, w)
           q == Append(presses, p)
           l == Len(read)
           m == Len(presses)
<1>1. /\ Len(r) = l + 1 /\ l \in Nat /\ r[l + 1] = w /\ \A i \in 1..l : r[i] = read[i]
      /\ Len(q) = m + 1 /\ m \in Nat /\ q[m + 1] = p /\ \A i \in 1..m : q[i] = presses[i]
      /\ r # <<>>
  OBVIOUS
<1>2. read = <<>> <=> l = 0
  OBVIOUS
<1>a. /\ \A i \in 1..l : /\ read[i].nr \in 1..m
                        /\ read[i].key = presses[read[i].nr].key
                        /\ read[i].shifted = presses[read[i].nr].shifted
      /\ l # 0 => read[1].nr = 1
      /\ \A i \in 2..l : \/ read[i].nr = read[i - 1].nr + 1
                        \/ /\ read[i].nr = read[i - 1].nr /\ presses[read[i].nr].chained
                           /\ i > 2 => read[i - 2].nr # read[i].nr
      /\ m = IF l = 0 THEN 0 ELSE read[l].nr
  BY <1>2 DEF C!InOrder
<1> HIDE DEF r, q, l, m
<1>3. ASSUME NEW i \in 1..l + 1
      PROVE  /\ r[i].nr \in 1..m + 1
             /\ r[i].key = q[r[i].nr].key /\ r[i].shifted = q[r[i].nr].shifted
  <2>1. CASE i = l + 1
    BY <1>1, <2>1 DEF m
  <2>2. CASE i \in 1..l
    <3>1. r[i] = read[i] /\ read[i].nr \in 1..m /\ q[read[i].nr] = presses[read[i].nr]
      BY <1>1, <1>a, <2>2
    <3> QED BY <1>1, <1>a, <2>2, <3>1
  <2> QED BY <1>1, <2>1, <2>2
<1>4. r[1].nr = 1
  <2>1. CASE l = 0
    BY <1>1, <1>a, <2>1 DEF m
  <2>2. CASE l # 0
    BY <1>1, <1>a, <2>2
  <2> QED BY <2>1, <2>2
<1>5. ASSUME NEW i \in 2..l + 1
      PROVE  \/ r[i].nr = r[i - 1].nr + 1
             \/ /\ r[i].nr = r[i - 1].nr /\ q[r[i].nr].chained
                /\ i > 2 => r[i - 2].nr # r[i].nr
  <2>1. CASE i = l + 1
    <3>1. r[i - 1] = read[l] /\ l # 0
      BY <1>1, <2>1
    <3>2. r[i].nr = m + 1 /\ r[i - 1].nr = m
      BY <1>1, <1>a, <2>1, <3>1 DEF m
    <3> QED BY <3>2
  <2>2. CASE i \in 2..l
    <3>0. i \in 1..l /\ i - 1 \in 1..l /\ (i > 2 => i - 2 \in 1..l)
      BY <1>1, <2>2
    <3>1. r[i] = read[i] /\ r[i - 1] = read[i - 1] /\ (i > 2 => r[i - 2] = read[i - 2])
      BY <1>1, <3>0
    <3>2. read[i].nr \in 1..m
      BY <1>a, <3>0
    <3>3. q[read[i].nr] = presses[read[i].nr]
      BY <1>1, <3>2
    <3> QED BY <1>a, <2>2, <3>1, <3>3
  <2> QED BY <1>1, <2>1, <2>2
<1>6. Len(q) = r[Len(r)].nr
  BY <1>1 DEF m
<1> QED BY <1>1, <1>3, <1>4, <1>5, <1>6 DEF C!InOrder, r, q

(* The same word once more, of a press whose handler goes on.              *)
LEMMA TwiceInOrder ==
    ASSUME NEW read \in Seq(Word), NEW presses \in Seq(Press), NEW w \in Word, Len(read) > 0,
           C!InOrder(read, presses), read[Len(read)] = w, presses[w.nr].chained,
           Len(read) > 1 => read[Len(read) - 1].nr # w.nr
    PROVE  C!InOrder(Append(read, w), presses)
<1> DEFINE r == Append(read, w)
           l == Len(read)
<1>1. /\ Len(r) = l + 1 /\ l \in Nat /\ r[l + 1] = w /\ \A i \in 1..l : r[i] = read[i]
      /\ r # <<>> /\ read # <<>> /\ l > 0
  OBVIOUS
<1>2. read[l] = w /\ (l > 1 => read[l - 1].nr # w.nr)
  OBVIOUS
<1>a. /\ \A i \in 1..l : /\ read[i].nr \in 1..Len(presses)
                        /\ read[i].key = presses[read[i].nr].key
                        /\ read[i].shifted = presses[read[i].nr].shifted
      /\ read[1].nr = 1
      /\ \A i \in 2..l : \/ read[i].nr = read[i - 1].nr + 1
                        \/ /\ read[i].nr = read[i - 1].nr /\ presses[read[i].nr].chained
                           /\ i > 2 => read[i - 2].nr # read[i].nr
      /\ Len(presses) = read[l].nr
  BY <1>1 DEF C!InOrder
<1> HIDE DEF r, l
<1>3. ASSUME NEW i \in 1..l + 1
      PROVE  \E j \in 1..l : r[i] = read[j]
  <2>1. CASE i = l + 1
    BY <1>1, <1>2, <2>1
  <2>2. CASE i \in 1..l
    BY <1>1, <2>2
  <2> QED BY <1>1, <2>1, <2>2
<1>4. ASSUME NEW i \in 2..l + 1
      PROVE  \/ r[i].nr = r[i - 1].nr + 1
             \/ /\ r[i].nr = r[i - 1].nr /\ presses[r[i].nr].chained
                /\ i > 2 => r[i - 2].nr # r[i].nr
  <2>1. CASE i = l + 1
    <3>1. r[i] = w /\ r[i - 1] = w /\ (i > 2 => l > 1 /\ r[i - 2] = read[l - 1])
      BY <1>1, <1>2, <2>1
    <3> QED BY <1>2, <3>1
  <2>2. CASE i \in 2..l
    <3>0. i \in 1..l /\ i - 1 \in 1..l /\ (i > 2 => i - 2 \in 1..l)
      BY <1>1, <2>2
    <3>1. r[i] = read[i] /\ r[i - 1] = read[i - 1] /\ (i > 2 => r[i - 2] = read[i - 2])
      BY <1>1, <3>0
    <3> QED BY <1>a, <2>2, <3>1
  <2> QED BY <1>1, <2>1, <2>2
<1>5. r[1].nr = 1 /\ Len(presses) = r[Len(r)].nr
  BY <1>1, <1>2, <1>a
<1>6. \A i \in 1..l + 1 : /\ r[i].nr \in 1..Len(presses)
                         /\ r[i].key = presses[r[i].nr].key
                         /\ r[i].shifted = presses[r[i].nr].shifted
  BY <1>3, <1>a
<1> QED BY <1>1, <1>4, <1>5, <1>6 DEF C!InOrder, r

(* What BIOS hears of a key is what its state makes of it: the history's   *)
(* word is the translated one.                                             *)
LEMMA WordIs ==
    ASSUME ConsoleConstants, ConsoleInv, NEW k \in C!Buffered
    PROVE  /\ C!Shifted(k, modifiers) \in BOOLEAN
           /\ C!Shifted(k, modifiers)
                = (k \notin Extended /\ (C!Shift \in physical.down) # (k \in Letter /\ physical.caps))
<1> DEFINE shift == C!Shift \in physical.down
           bit == CASE k \in Extended -> FALSE
                    [] k \in Letter -> modifiers.shift # modifiers.caps
                    [] OTHER -> modifiers.shift
           history == k \notin Extended /\ shift # (k \in Letter /\ physical.caps)
<1>0. ~(k \in Extended /\ k \in Letter)
  BY DEF ConsoleConstants
<1>1. modifiers.shift = shift /\ modifiers.caps = physical.caps /\ physical.caps \in BOOLEAN
  BY DEF ConsoleInv
<1>2. bit \in BOOLEAN /\ bit = history
  <2>1. CASE k \in Extended
    <3>1. bit = FALSE
      BY Zenon, <2>1, <1>0
    <3>2. history = FALSE
      BY Zenon, <2>1
    <3> HIDE DEF bit, history
    <3> QED BY <3>1, <3>2
  <2>2. CASE k \notin Extended /\ k \in Letter
    <3>1. bit = (modifiers.shift # modifiers.caps)
      BY <2>2
    <3>2. history = (shift # physical.caps)
      BY Zenon, <2>2, <1>1
    <3> QED BY Zenon, <3>1, <3>2, <1>1
  <2>3. CASE k \notin Extended /\ k \notin Letter
    <3>1. bit = modifiers.shift
      BY <2>3
    <3>2. (k \in Letter /\ physical.caps) = FALSE
      BY <2>3
    <3>3. history = (shift # FALSE)
      BY Zenon, <2>3, <3>2
    <3>4. (shift # FALSE) = shift
      <4>1. shift \in BOOLEAN
        OBVIOUS
      <4>2. \A b \in BOOLEAN : (b # FALSE) = b
        OBVIOUS
      <4> HIDE DEF shift
      <4> QED BY Zenon, <4>1, <4>2
    <3> HIDE DEF bit, history, shift
    <3> QED BY Zenon, <3>1, <3>3, <3>4, <1>1 DEF shift
  <2> QED BY Zenon, <2>1, <2>2, <2>3
<1>3. C!Shifted(k, modifiers) = bit
  BY DEF C!Shifted
<1> HIDE DEF bit, history
<1> QED BY Zenon, <1>2, <1>3 DEF history

(* Shift and caps lock are noted as the keys move.                         *)
LEMMA NotedIs ==
    ASSUME NEW s \in BOOLEAN, NEW c \in BOOLEAN, NEW k, NEW released \in BOOLEAN
    PROVE  C!Noted([shift |-> s, caps |-> c], k, released)
             = [shift |-> IF k = C!Shift THEN ~released ELSE s,
                caps |-> IF k = C!Caps /\ ~released THEN ~c ELSE c]
<1> DEFINE mods == [shift |-> s, caps |-> c]
<1>0. C!Shift # C!Caps
  BY DEF C!Shift, C!Caps
<1>1. CASE k = C!Shift
  <2>1. C!Noted(mods, k, released) = [mods EXCEPT !.shift = ~released]
    BY Zenon, <1>0, <1>1 DEF C!Noted
  <2> QED BY <1>0, <1>1, <2>1
<1>2. CASE k = C!Caps /\ ~released
  <2>1. C!Noted(mods, k, released) = [mods EXCEPT !.caps = ~@]
    BY Zenon, <1>0, <1>2 DEF C!Noted
  <2> QED BY <1>0, <1>2, <2>1
<1>3. CASE k # C!Shift /\ ~(k = C!Caps /\ ~released)
  <2>1. C!Noted(mods, k, released) = mods
    BY Zenon, <1>3 DEF C!Noted
  <2> QED BY <1>3, <2>1
<1> QED BY Zenon, <1>1, <1>2, <1>3

LEMMA ModifiersFollow ==
    ASSUME ConsoleInv, NEW k, NEW released \in BOOLEAN, NEW chains \in BOOLEAN,
           released <=> k \in physical.down,
           physical' = [down |-> IF released THEN physical.down \ {k} ELSE physical.down \cup {k},
                        caps |-> physical.caps # (k = C!Caps /\ ~released /\ ~chains)],
           modifiers' = IF chains THEN C!Noted(C!Noted(modifiers, k, released), k, released)
                        ELSE C!Noted(modifiers, k, released)
    PROVE  /\ modifiers' = [shift |-> C!Shift \in physical.down, caps |-> physical.caps]'
           /\ physical'.caps \in BOOLEAN
<1> DEFINE shift == C!Shift \in physical.down
           new == IF k = C!Shift THEN ~released ELSE shift
           caps == IF k = C!Caps /\ ~released THEN ~physical.caps ELSE physical.caps
           final == IF chains THEN physical.caps ELSE caps
<1>a. modifiers = [shift |-> shift, caps |-> physical.caps] /\ physical.caps \in BOOLEAN
      /\ shift \in BOOLEAN
  BY DEF ConsoleInv
<1>b. /\ physical'.down = IF released THEN physical.down \ {k} ELSE physical.down \cup {k}
      /\ physical'.caps = (physical.caps # (k = C!Caps /\ ~released /\ ~chains))
  OBVIOUS
<1>1. new \in BOOLEAN /\ caps \in BOOLEAN /\ final \in BOOLEAN
  BY <1>a
<1>2. (C!Shift \in physical'.down) <=> new
  BY <1>b
<1>3. physical'.caps <=> final
  <2>1. CASE k = C!Caps /\ ~released /\ ~chains
    BY Zenon, <1>a, <1>b, <2>1
  <2>2. CASE ~(k = C!Caps /\ ~released /\ ~chains)
    BY Zenon, <1>a, <1>b, <2>2
  <2> QED BY <2>1, <2>2
<1>4. C!Noted(modifiers, k, released) = [shift |-> new, caps |-> caps]
  <2> HIDE DEF shift
  <2>1. C!Noted([shift |-> shift, caps |-> physical.caps], k, released) = [shift |-> new, caps |-> caps]
    BY <1>a, NotedIs
  <2> QED BY <1>a, <2>1
<1>5. modifiers' = [shift |-> new, caps |-> final]
  <2>1. CASE ~chains
    BY <1>4, <2>1
  <2>2. CASE chains
    <3> DEFINE again == IF k = C!Caps /\ ~released THEN ~caps ELSE caps
    <3>1. C!Noted([shift |-> new, caps |-> caps], k, released)
            = [shift |-> IF k = C!Shift THEN ~released ELSE new, caps |-> again]
      <4> HIDE DEF new, caps
      <4> QED BY <1>1, NotedIs
    <3>2. (IF k = C!Shift THEN ~released ELSE new) = new
      OBVIOUS
    <3>3. again = physical.caps
      <4>1. CASE k = C!Caps /\ ~released
        BY Zenon, <1>a, <4>1
      <4>2. CASE ~(k = C!Caps /\ ~released)
        BY Zenon, <1>a, <4>2
      <4> QED BY <4>1, <4>2
    <3> HIDE DEF new, caps, again
    <3> QED BY <1>4, <2>2, <3>1, <3>2, <3>3
  <2> QED BY <2>1, <2>2
<1>6. physical'.caps \in BOOLEAN
  BY <1>b
<1>7. (C!Shift \in physical'.down) = new /\ physical'.caps = final
  <2>1. (C!Shift \in physical'.down) \in BOOLEAN
    OBVIOUS
  <2> HIDE DEF new, final
  <2> QED BY Zenon, <1>1, <1>2, <1>3, <1>6, <2>1
<1> HIDE DEF new, final
<1> QED BY <1>5, <1>6, <1>7

LEMMA DeliverStep ==
    ASSUME ConsoleConstants, ConsoleInv, NEW k \in C!Key, NEW released \in BOOLEAN,
           NEW chains \in BOOLEAN, C!Deliver(k, released, chains)
    PROVE  ConsoleInv'
<1> DEFINE read == got \o second \o queue
<1>a. C!TimesNoted(chains) = IF chains THEN 2 ELSE 1
  BY DEF C!Deliver, C!TimesNoted
<1>b. /\ released <=> k \in physical.down
      /\ physical' = [down |-> IF released THEN physical.down \ {k} ELSE physical.down \cup {k},
                      caps |-> physical.caps # (k = C!Caps /\ ~released /\ ~chains)]
  BY DEF C!Deliver
<1>c. modifiers' = IF chains THEN C!Noted(C!Noted(modifiers, k, released), k, released)
                   ELSE C!Noted(modifiers, k, released)
  BY <1>a DEF C!Deliver
<1>d. UNCHANGED <<second, vector, got>>
  BY DEF C!Deliver
<1>1. /\ modifiers' = [shift |-> C!Shift \in physical.down, caps |-> physical.caps]'
      /\ physical'.caps \in BOOLEAN
  BY <1>b, <1>c, ModifiersFollow
<1>2. C!TableFollows'
  <2>1. physical'.down = IF released THEN physical.down \ {k} ELSE physical.down \cup {k}
    BY <1>b
  <2>2. heard' = IF vector = "bios" THEN heard
                 ELSE IF released THEN heard \ {k} ELSE heard \cup {k}
    BY DEF C!Deliver
  <2>3. vector = "program" => heard = physical.down
    BY DEF ConsoleInv, C!TableFollows
  <2> QED BY <2>1, <2>2, <2>3, <1>d DEF C!TableFollows
<1>3. queue' \in Seq(Word) /\ typed' \in Seq(Press) /\ C!KeysReadAsTyped'
  <2>a. /\ queue \in Seq(Word) /\ got \in Seq(Word) /\ typed \in Seq(Press)
        /\ C!InOrder(read, typed)
        /\ second = <<>> \/ \E w \in Word : second = <<w>>
    BY DEF ConsoleInv, C!KeysReadAsTyped
  <2>b. second \in Seq(Word)
    <3>1. CASE second = <<>>
      BY <3>1
    <3>2. CASE \E w \in Word : second = <<w>>
      BY <3>2
    <3> QED BY <2>a, <3>1, <3>2
  <2>c. read \in Seq(Word)
    BY <2>a, <2>b
  <2>1. CASE k \in C!Buffered /\ ~released
    <3> DEFINE shifted == C!Shifted(k, modifiers)
               w == [key |-> k, shifted |-> shifted, nr |-> Len(typed) + 1]
               p == [key |-> k, shifted |-> shifted, chained |-> chains]
    <3>1. shifted \in BOOLEAN
      BY <2>1, WordIs
    <3>2. w \in Word /\ p \in Press
      <4> HIDE DEF shifted
      <4> QED BY <2>1, <2>a, <3>1 DEF Word, Press
    <3>3. queue' = C!Note(queue, w, IF chains THEN 2 ELSE 1)
      BY <2>1, <1>a DEF C!Deliver
    <3>4. typed' = IF Len(queue) < Capacity THEN Append(typed, p) ELSE typed
      <4>1. shifted = (k \notin Extended /\ (C!Shift \in physical.down) # (k \in Letter /\ physical.caps))
        BY <2>1, WordIs
      <4>2. typed' = IF Len(queue) < Capacity
                     THEN Append(typed, [key |-> k,
                              shifted |-> (k \notin Extended
                                           /\ (C!Shift \in physical.down) # (k \in Letter /\ physical.caps)),
                              chained |-> chains])
                     ELSE typed
        BY <2>1 DEF C!Deliver
      <4> HIDE DEF shifted
      <4> QED BY <4>1, <4>2
    <3>5. /\ w.nr = Len(typed) + 1 /\ w.key = p.key /\ w.shifted = p.shifted
          /\ p.chained = chains
      OBVIOUS
    <3> HIDE DEF w, p, shifted
    <3>6. CASE Len(queue) >= Capacity
      <4>1. queue' = queue /\ typed' = typed
        BY <2>a, <3>2, <3>3, <3>4, <3>6, NotedOnce DEF ConsoleConstants
      <4> QED BY <2>a, <4>1, <1>d DEF C!KeysReadAsTyped
    <3>7. CASE Len(queue) < Capacity
      <4>1. typed' = Append(typed, p) /\ typed' \in Seq(Press)
        BY <2>a, <3>2, <3>4, <3>7
      <4>2. C!InOrder(Append(read, w), typed')
        <5> HIDE DEF read
        <5> QED BY <2>a, <2>c, <3>2, <3>5, <4>1, OnceInOrder
      <4>3. /\ got \o second \o Append(queue, w) = Append(read, w)
            /\ got \o second \o Append(Append(queue, w), w) = Append(Append(read, w), w)
        <5>1. got \in Seq(Word) /\ queue \in Seq(Word)
          BY <2>a
        <5>2. Append(queue, w) \in Seq(Word)
          BY <3>2, <5>1
        <5>3. \A s \in Seq(Word) : got \o second \o Append(s, w) = Append(got \o second \o s, w)
          BY <2>b, <3>2, <5>1
        <5>4. got \o second \o Append(queue, w) = Append(read, w)
          BY <5>1, <5>3
        <5>5. got \o second \o Append(Append(queue, w), w) = Append(got \o second \o Append(queue, w), w)
          BY <5>2, <5>3
        <5> QED BY <5>4, <5>5
      <4>4. Append(queue, w) \in Seq(Word) /\ Append(Append(queue, w), w) \in Seq(Word)
        BY <2>a, <3>2
      <4>5. CASE queue' = Append(queue, w)
        BY <4>1, <4>2, <4>3, <4>4, <4>5, <1>d DEF C!KeysReadAsTyped
      <4>6. CASE chains /\ queue' = Append(Append(queue, w), w)
        <5> DEFINE r == Append(read, w)
        <5>1. /\ r \in Seq(Word) /\ Len(r) = Len(read) + 1 /\ Len(r) > 0 /\ r[Len(r)] = w
              /\ Len(read) \in Nat /\ (Len(r) > 1 => Len(read) \in 1..Len(read) /\ r[Len(r) - 1] = read[Len(read)])
          <6> HIDE DEF read
          <6> QED BY <2>c, <3>2
        <5>2. typed'[w.nr].chained
          <6>1. Append(typed, p)[Len(typed) + 1] = p
            BY <2>a
          <6> QED BY <3>5, <4>1, <4>6, <6>1
        <5>3. Len(r) > 1 => r[Len(r) - 1].nr # w.nr
          <6>1. \A i \in 1..Len(read) : read[i].nr \in 1..Len(typed)
            BY <2>a DEF C!InOrder
          <6>2. Len(typed) \in Nat
            BY <2>a
          <6> HIDE DEF read, r
          <6> QED BY <3>5, <5>1, <6>1, <6>2
        <5>4. C!InOrder(r, typed')
          BY <4>2
        <5> HIDE DEF r
        <5>5. C!InOrder(Append(r, w), typed')
          BY <3>2, <4>1, <5>1, <5>2, <5>3, <5>4, TwiceInOrder
        <5> QED BY <4>1, <4>3, <4>4, <4>6, <5>5, <1>d DEF C!KeysReadAsTyped, r
      <4>7. \/ queue' = Append(queue, w)
           \/ (chains /\ queue' = Append(Append(queue, w), w))
        BY <2>a, <3>2, <3>3, <3>7, NotedOnce DEF ConsoleConstants
      <4> QED BY <4>5, <4>6, <4>7
    <3>8. Len(queue) >= Capacity \/ Len(queue) < Capacity
      BY <2>a DEF ConsoleConstants
    <3> QED BY <3>6, <3>7, <3>8
  <2>2. CASE ~(k \in C!Buffered /\ ~released)
    <3>1. UNCHANGED <<queue, typed>>
      BY <2>2 DEF C!Deliver
    <3> QED BY <3>1, <2>a, <1>d DEF C!KeysReadAsTyped
  <2> QED BY <2>1, <2>2
<1>4. got' \in Seq(Word) /\ (second' = <<>> \/ \E w \in Word : second' = <<w>>)
  BY <1>d DEF ConsoleInv
<1> QED BY <1>1, <1>2, <1>3, <1>4 DEF ConsoleInv

LEMMA ReadStep ==
    ASSUME ConsoleInv, C!ReadWord \/ C!ReadByte
    PROVE  ConsoleInv'
<1>a. /\ queue \in Seq(Word) /\ got \in Seq(Word)
      /\ second = <<>> \/ \E w \in Word : second = <<w>>
      /\ C!InOrder(got \o second \o queue, typed) /\ typed \in Seq(Press)
  BY DEF ConsoleInv, C!KeysReadAsTyped
<1>c. got \in Seq(Word)
  BY DEF ConsoleInv
<1>b. UNCHANGED <<modifiers, vector, heard, physical, typed>>
  BY DEF C!ReadWord, C!ReadByte
<1>1. /\ queue' \in Seq(Word) /\ got' \in Seq(Word)
      /\ second' = <<>> \/ \E w \in Word : second' = <<w>>
      /\ got' \o second' \o queue' = got \o second \o queue
  <2>1. CASE second # <<>>
    <3>1. PICK w \in Word : second = <<w>>
      BY <2>1, <1>a
    <3>2. C!ReadByte
      BY <2>1 DEF C!ReadWord
    <3>3. got' = Append(got, w) /\ second' = <<>> /\ queue' = queue
      BY <2>1, <3>1, <3>2 DEF C!ReadByte
    <3>4. got' \in Seq(Word) /\ got' \o second' \o queue' = got \o second \o queue
      BY <1>a, <3>1, <3>3
    <3> QED BY <1>a, <3>3, <3>4
  <2>2. CASE second = <<>>
    <3> DEFINE w == Head(queue)
    <3>1. queue # <<>> /\ queue' = Tail(queue)
      BY <2>2 DEF C!ReadWord, C!ReadByte
    <3>2. w \in Word /\ queue' \in Seq(Word) /\ queue = <<w>> \o queue'
      BY <3>1, <1>a
    <3>3. \/ got' = Append(got, w) /\ second' = <<>>
          \/ got' = got /\ second' = <<w>>
      BY <2>2 DEF C!ReadWord, C!ReadByte
    <3> HIDE DEF w
    <3>4. got \o second \o queue = got \o (<<w>> \o queue')
      BY <2>2, <3>2, <1>a
    <3>5. CASE got' = Append(got, w) /\ second' = <<>>
      <4>1. Append(got, w) \o <<>> \o queue' = got \o (<<w>> \o queue')
        BY <3>2, <1>c
      <4>2. got' \o second' \o queue' = got \o second \o queue
        BY <3>4, <3>5, <4>1, <1>a
      <4>3. got' \in Seq(Word)
        BY <3>2, <3>5, <1>a
      <4> QED BY <3>2, <3>5, <4>2, <4>3
    <3>6. CASE got' = got /\ second' = <<w>>
      <4>1. got \o <<w>> \o queue' = got \o (<<w>> \o queue')
        BY <3>2, <1>c
      <4>2. got' \o second' \o queue' = got \o second \o queue
        BY <3>4, <3>6, <4>1, <1>a
      <4> QED BY <3>2, <3>6, <4>2, <1>a
    <3> QED BY <3>3, <3>5, <3>6
  <2> QED BY <2>1, <2>2
<1>2. C!TableFollows'
  BY <1>b DEF ConsoleInv, C!TableFollows
<1>3. /\ modifiers' = [shift |-> C!Shift \in physical.down, caps |-> physical.caps]'
      /\ physical'.caps \in BOOLEAN
  BY <1>b DEF ConsoleInv
<1>4. C!KeysReadAsTyped' /\ typed' \in Seq(Press)
  BY <1>1, <1>a, <1>b DEF C!KeysReadAsTyped
<1> QED BY <1>1, <1>2, <1>3, <1>4 DEF ConsoleInv

(* Every key that was buffered is read, in the order of typing and with the*)
(* case that shift and caps lock gave it, through whichever calls and      *)
(* whether or not the program has put its own handler in place: once, or,  *)
(* where that handler went on to the BIOS's, at most twice on end.  And the*)
(* handler's table has the keys that are down (deliver_scancode of         *)
(* interrupts.py, note_bios_keystroke and int16 of DOSMachine).            *)
THEOREM KeysHold == ASSUME ConsoleConstants PROVE C!Spec => []C!TypedIsRead
<1>1. C!Init => ConsoleInv
  <2> SUFFICES ASSUME C!Init PROVE ConsoleInv
    OBVIOUS
  <2>1. /\ queue = <<>> /\ second = <<>> /\ got = <<>> /\ typed = <<>> /\ vector = "bios"
        /\ modifiers = [shift |-> FALSE, caps |-> FALSE]
        /\ physical = [down |-> {}, caps |-> FALSE]
    BY DEF C!Init
  <2>2. queue \in Seq(Word) /\ got \in Seq(Word) /\ typed \in Seq(Press) /\ C!KeysReadAsTyped
    <3>1. got \o second \o queue = <<>> /\ Len(typed) = 0 /\ Len(<<>>) = 0
      BY <2>1
    <3>2. C!InOrder(<<>>, typed)
      BY <3>1 DEF C!InOrder
    <3> QED BY <2>1, <3>1, <3>2 DEF C!KeysReadAsTyped
  <2>3. (C!Shift \in physical.down) = FALSE /\ physical.caps = FALSE
    BY <2>1
  <2>4. modifiers = [shift |-> C!Shift \in physical.down, caps |-> physical.caps]
    BY <2>1, <2>3
  <2> QED BY <2>1, <2>2, <2>3, <2>4 DEF ConsoleInv, C!TableFollows
<1>2. ConsoleInv /\ [C!Next]_C!consoleVars => ConsoleInv'
  <2> SUFFICES ASSUME ConsoleInv, [C!Next]_C!consoleVars PROVE ConsoleInv'
    OBVIOUS
  <2>1. CASE \E k \in C!Key, released, chains \in BOOLEAN : C!Deliver(k, released, chains)
    BY <2>1, DeliverStep
  <2>2. CASE C!Install
    BY <2>2 DEF C!Install, ConsoleInv, C!KeysReadAsTyped, C!TableFollows
  <2>3. CASE C!ReadWord \/ C!ReadByte
    BY <2>3, ReadStep
  <2>4. CASE UNCHANGED C!consoleVars
    BY <2>4 DEF C!consoleVars, ConsoleInv, C!KeysReadAsTyped, C!TableFollows
  <2> QED BY <2>1, <2>2, <2>3, <2>4 DEF C!Next
<1>3. ConsoleInv => C!TypedIsRead
  BY DEF ConsoleInv, C!TypedIsRead
<1> QED BY <1>1, <1>2, <1>3, PTL DEF C!Spec

-----------------------------------------------------------------------------
(* The mouse.                                                              *)
MouseConstants == Width \in Nat /\ Height \in Nat /\ Parts \in Nat \ {0} /\ Coordinates \subseteq Int

(* Both machines keep the same whole numbers, and a box of four of them.   *)
MouseInv ==
    /\ real = pm /\ answers.real = answers.pm
    /\ real = [x |-> real.x, y |-> real.y, buttons |-> real.buttons, range |-> real.range]
    /\ real.x \in Int /\ real.y \in Int
    /\ real.range = <<real.range[1], real.range[2], real.range[3], real.range[4]>>
    /\ \A i \in 1..4 : real.range[i] \in Int

LEMMA TowardsWhole ==
    ASSUME MouseConstants, NEW low \in Int, NEW high \in Int, NEW u \in 0..Parts
    PROVE  M!Towards(low, high, u) \in Int
<1> DEFINE d == IF high >= low THEN u * (high - low) ELSE u * (low - high)
<1>1. \A n \in Int : n \div Parts \in Int
  BY DEF MouseConstants
<1>2. d \in Int
  BY DEF MouseConstants
<1>3. M!Towards(low, high, u) = IF high >= low THEN low + (d \div Parts) ELSE low - (d \div Parts)
  BY DEF M!Towards
<1> HIDE DEF d
<1> QED BY <1>1, <1>2, <1>3

(* The clamp of the one machine is that of the other, and a number in any  *)
(* box there is.                                                           *)
LEMMA ClampIn ==
    ASSUME NEW v \in Int, NEW low \in Int, NEW high \in Int, low <= high
    PROVE  M!Clamp(v, low, high) \in low..high
BY DEF M!Clamp, M!Most, M!Least

LEMMA AnswersSame ==
    ASSUME NEW fn \in M!Functions, NEW m
    PROVE  M!RealAnswer(m, fn) = M!PmAnswer(m, fn)
<1>1. CASE fn = "read"
  BY <1>1 DEF M!RealAnswer, M!PmAnswer, M!PmRead, M!Clamp
<1>2. CASE fn \in {"position", "across", "down", "cursor", "handler"}
  BY <1>2 DEF M!RealAnswer, M!PmAnswer
<1>3. CASE fn \in {"reset", "motion", "version", "presses", "sensitivity"}
  BY <1>3 DEF M!RealAnswer, M!PmAnswer
<1> QED BY <1>1, <1>2, <1>3 DEF M!Functions

(* What a call does to the state both have.                                *)
LEMMA ChangeWhole ==
    ASSUME MouseConstants, NEW m, m = [x |-> m.x, y |-> m.y, buttons |-> m.buttons, range |-> m.range],
           m.x \in Int, m.y \in Int,
           m.range = <<m.range[1], m.range[2], m.range[3], m.range[4]>>,
           \A i \in 1..4 : m.range[i] \in Int,
           NEW fn \in M!Functions, NEW cx \in Int, NEW dx \in Int
    PROVE  LET after == M!Change(m, fn, cx, dx)
           IN  /\ after = [x |-> after.x, y |-> after.y, buttons |-> after.buttons, range |-> after.range]
               /\ after.x \in Int /\ after.y \in Int
               /\ after.range = <<after.range[1], after.range[2], after.range[3], after.range[4]>>
               /\ \A i \in 1..4 : after.range[i] \in Int
<1> DEFINE after == M!Change(m, fn, cx, dx)
<1>1. CASE fn = "reset"
  <2>1. after = [x |-> Width \div 2, y |-> Height \div 2, buttons |-> 0, range |-> <<0, Width, 0, Height>>]
    BY <1>1 DEF M!Change, M!Reset, M!Box
  <2> QED BY <2>1 DEF MouseConstants
<1>2. CASE fn = "position"
  <2>1. after = [m EXCEPT !.x = cx, !.y = dx]
    BY <1>2 DEF M!Change
  <2> QED BY <2>1
<1>3. CASE fn = "across"
  <2>1. after = [m EXCEPT !.range = <<cx, dx, m.range[3], m.range[4]>>]
    BY <1>3 DEF M!Change
  <2> QED BY <2>1
<1>4. CASE fn = "down"
  <2>1. after = [m EXCEPT !.range = <<m.range[1], m.range[2], cx, dx>>]
    BY <1>4 DEF M!Change
  <2> QED BY <2>1
<1>5. CASE fn \notin {"reset", "position", "across", "down"}
  <2>1. after = m
    BY <1>5 DEF M!Change
  <2> QED BY <2>1
<1> QED BY <1>1, <1>2, <1>3, <1>4, <1>5

LEMMA CallStep ==
    ASSUME MouseConstants, MouseInv, NEW fn \in M!Functions, NEW cx \in Coordinates,
           NEW dx \in Coordinates, M!Call(fn, cx, dx)
    PROVE  MouseInv'
<1>1. /\ real' = M!Change(real, fn, cx, dx) /\ pm' = M!Change(pm, fn, cx, dx)
      /\ answers' = [real |-> M!RealAnswer(real, fn), pm |-> M!PmAnswer(pm, fn)]
  BY DEF M!Call
<1>2. real' = pm' /\ answers'.real = answers'.pm
  BY <1>1, AnswersSame DEF MouseInv
<1>3. /\ real' = [x |-> real'.x, y |-> real'.y, buttons |-> real'.buttons, range |-> real'.range]
      /\ real'.x \in Int /\ real'.y \in Int
      /\ real'.range = <<real'.range[1], real'.range[2], real'.range[3], real'.range[4]>>
      /\ \A i \in 1..4 : real'.range[i] \in Int
  <2>1. cx \in Int /\ dx \in Int
    BY DEF MouseConstants
  <2> QED BY <1>1, <2>1, ChangeWhole DEF MouseInv
<1> QED BY <1>2, <1>3 DEF MouseInv

LEMMA PointerStep ==
    ASSUME MouseConstants, MouseInv, NEW u \in 0..Parts, NEW v \in 0..Parts,
           NEW buttons \in {0, 1}, M!Move(u, v, buttons)
    PROVE  MouseInv'
<1> DEFINE h == M!Towards(real.range[1], real.range[2], u)
           w == M!Towards(real.range[3], real.range[4], v)
<1>1. /\ real' = [real EXCEPT !.x = h, !.y = w, !.buttons = buttons]
      /\ pm' = M!Moved(pm, u, v, buttons) /\ real' = M!Moved(real, u, v, buttons)
      /\ UNCHANGED answers
  BY DEF M!Move, M!Moved
<1>0. /\ real.range[1] \in Int /\ real.range[2] \in Int
      /\ real.range[3] \in Int /\ real.range[4] \in Int
  BY DEF MouseInv
<1>2. h \in Int /\ w \in Int
  BY <1>0, TowardsWhole
<1> HIDE DEF h, w
<1>3. real' = pm'
  BY <1>1 DEF MouseInv
<1>4. real'.x \in Int /\ real'.y \in Int /\ real'.range = real.range
      /\ real' = [x |-> real'.x, y |-> real'.y, buttons |-> real'.buttons, range |-> real'.range]
  BY <1>1, <1>2 DEF MouseInv
<1> QED BY <1>1, <1>3, <1>4 DEF MouseInv

(* A program is told the same by the real-mode driver and the protected-   *)
(* mode one, whatever it and the front-end do, and while its box has its   *)
(* ends in order the pointer it reads is in it (int33 of DOSMachine and    *)
(* _int33 of DOS4GW).                                                      *)
THEOREM MouseHolds == ASSUME MouseConstants PROVE M!Spec => []M!MouseAlike
<1>1. M!Init => MouseInv
  <2> SUFFICES ASSUME M!Init PROVE MouseInv
    OBVIOUS
  <2>1. /\ real = [x |-> Width \div 2, y |-> Height \div 2, buttons |-> 0, range |-> <<0, Width, 0, Height>>]
        /\ pm = real /\ answers.real = answers.pm
    BY DEF M!Init, M!Reset, M!Box
  <2> QED BY <2>1 DEF MouseInv, MouseConstants
<1>2. MouseInv /\ [M!Next]_M!mouseVars => MouseInv'
  <2> SUFFICES ASSUME MouseInv, [M!Next]_M!mouseVars PROVE MouseInv'
    OBVIOUS
  <2>1. CASE \E fn \in M!Functions, cx, dx \in Coordinates : M!Call(fn, cx, dx)
    BY <2>1, CallStep
  <2>2. CASE \E u, v \in 0..Parts, buttons \in {0, 1} : M!Move(u, v, buttons)
    BY <2>2, PointerStep
  <2>3. CASE UNCHANGED M!mouseVars
    BY <2>3 DEF M!mouseVars, MouseInv
  <2> QED BY <2>1, <2>2, <2>3 DEF M!Next
<1>3. MouseInv => M!MouseAlike
  <2> SUFFICES ASSUME MouseInv PROVE M!MouseAlike
    OBVIOUS
  <2>1. M!RealAnswer(real, "read").cx = M!Clamp(real.x, real.range[1], real.range[2])
    BY DEF M!RealAnswer, M!Silence
  <2>2. M!RealAnswer(real, "read").dx = M!Clamp(real.y, real.range[3], real.range[4])
    BY DEF M!RealAnswer, M!Silence
  <2>0. /\ real.x \in Int /\ real.range[1] \in Int /\ real.range[2] \in Int
        /\ real.y \in Int /\ real.range[3] \in Int /\ real.range[4] \in Int
    BY DEF MouseInv
  <2>3. M!ReadInBox
    <3>1. real.range[1] <= real.range[2]
              => M!Clamp(real.x, real.range[1], real.range[2]) \in real.range[1]..real.range[2]
      BY <2>0, ClampIn
    <3>2. real.range[3] <= real.range[4]
              => M!Clamp(real.y, real.range[3], real.range[4]) \in real.range[3]..real.range[4]
      BY <2>0, ClampIn
    <3> QED BY <2>1, <2>2, <3>1, <3>2 DEF M!ReadInBox
  <2> QED BY <2>3 DEF MouseInv, M!MouseAlike, M!AnswersAlike
<1> QED BY <1>1, <1>2, <1>3, PTL DEF M!Spec
=============================================================================
