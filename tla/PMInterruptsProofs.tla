------------------------- MODULE PMInterruptsProofs -------------------------
(***************************************************************************)
(* Proofs about PMInterrupts, for any card, timer, program and bounds.     *)
(***************************************************************************)
EXTENDS PMInterrupts, SequenceTheorems, FiniteSetTheorems, WellFoundedInduction,
        TLAPS

-----------------------------------------------------------------------------
(* Arithmetic of the rings.                                                *)
LEMMA ModFacts ==
    ASSUME NEW a \in Nat, NEW S \in Nat \ {0}
    PROVE  /\ a % S \in 0..(S - 1)
           /\ a = S * (a \div S) + (a % S) /\ a \div S \in Int
OBVIOUS

LEMMA ModRange ==
    ASSUME NEW a \in Nat, NEW S \in Nat \ {0}
    PROVE  a % S \in 0..(S - 1) /\ a % S \in Nat
OBVIOUS

LEMMA ModSmall ==
    ASSUME NEW a \in Nat, NEW S \in Nat \ {0}, a < S
    PROVE  a % S = a
OBVIOUS

LEMMA ModUnique ==
    ASSUME NEW q \in Int, NEW r \in Nat, NEW S \in Nat \ {0}, r < S
    PROVE  (S * q + r) % S = r
OBVIOUS

LEMMA ModSucc ==
    ASSUME NEW a \in Nat, NEW S \in Nat \ {0}
    PROVE  ((a % S) + 1) % S = (a + 1) % S
<1> DEFINE q == a \div S
           r == a % S
<1>1. a = S * q + r /\ q \in Int /\ r \in 0..(S - 1)
  BY ModFacts
<1> HIDE DEF q, r
<1>2. CASE r + 1 < S
  <2>1. a + 1 = S * q + (r + 1)
    BY <1>1
  <2>2. (S * q + (r + 1)) % S = r + 1
    BY <1>1, <1>2, ModUnique
  <2>3. (r + 1) % S = r + 1
    BY <1>1, <1>2, ModSmall
  <2> QED BY <2>1, <2>2, <2>3 DEF r
<1>3. CASE r + 1 = S
  <2>1. S * (q + 1) = S * q + S
    BY <1>1
  <2>2. a + 1 = S * (q + 1) + 0
    BY <1>1, <1>3, <2>1
  <2>3. (S * (q + 1) + 0) % S = 0 /\ (S * 1 + 0) % S = 0
    BY <1>1, ModUnique
  <2> QED BY <1>1, <1>3, <2>2, <2>3 DEF r
<1> QED BY <1>1, <1>2, <1>3

(* A register that is written one byte at a time stays a register.         *)
LEMMA SetByteType ==
    ASSUME NEW word \in SB!Address, NEW high \in BOOLEAN, NEW byte \in 0..(Half - 1)
    PROVE  SB!SetByte(word, high, byte) \in SB!Address
<1>h. Half \in Nat \ {0}
  BY MachineConstants
<1> DEFINE q == word \div Half
           r == word % Half
<1>1. word = Half * q + r /\ q \in Int /\ r \in 0..(Half - 1)
  BY <1>h, ModFacts DEF SB!Address
<1>2. word \in 0..(Half * Half - 1) /\ Half * Half \in Nat
  BY <1>h DEF SB!Address
<1> HIDE DEF q, r
<1>3. CASE high
  <2>1. Half * byte \in 0..(Half * (Half - 1))
    BY <1>h
  <2>2. Half * (Half - 1) = Half * Half - Half
    BY <1>h
  <2> QED BY <1>h, <1>1, <1>2, <1>3, <2>1, <2>2 DEF SB!SetByte, SB!Address, r
<1>4. CASE ~high
  <2>1. q < Half
    <3>1. Half * q < Half * Half
      BY <1>1, <1>2, <1>h
    <3> QED BY <1>1, <1>h, <3>1
  <2>2. q >= 0
    <3>1. Half * q > 0 - Half
      BY <1>1, <1>2, <1>h
    <3> QED BY <1>1, <1>h, <3>1
  <2>3. Half * q \in 0..(Half * Half - Half)
    <3>1. Half * q <= Half * (Half - 1)
      BY <1>1, <1>h, <2>1, <2>2
    <3>2. Half * (Half - 1) = Half * Half - Half
      BY <1>h
    <3> QED BY <1>1, <1>h, <2>2, <3>1, <3>2
  <2>4. word - (word % Half) = Half * q
    BY <1>1, <1>2, <1>h DEF r
  <2> QED BY <1>h, <1>2, <1>4, <2>3, <2>4 DEF SB!SetByte, SB!Address
<1> QED BY <1>3, <1>4

-----------------------------------------------------------------------------
(* The card.                                                               *)

(* What a program can ask the card to play.                                *)
Samples == Length \cup {1}

(* A command has as many arguments as it has been given and still needs.   *)
Fed(c) == /\ c.needed + Len(c.args) = SB!Arguments(c.cmd)
          /\ c.args \in Seq(Samples)
          /\ c.blocklen \in Samples \cup {0}

(* The address after a in the ring, and a block that goes around it.       *)
After(ch, a) == ch.base + ((a - ch.base + 1) % SB!Size(ch))
Buffer(ch) == ch.base..(ch.base + ch.count)
Final(block) == block[Len(block)]
GoesAround(ch, block) ==
    /\ block \in Seq(Buffer(ch)) /\ block # <<>>
    /\ \A i \in 1..(Len(block) - 1) : block[i + 1] = After(ch, block[i])

(* The blocks of an auto-init buffer go around it one after the other, and *)
(* the channel stands where the last one ended.                            *)
InOrder(ch, played) ==
    /\ Len(played) <= 2
    /\ ch.auto =>
          /\ \A j \in 1..Len(played) : GoesAround(ch, played[j])
          /\ Len(played) = 2 => played[2][1] = After(ch, Final(played[1]))
          /\ played # <<>> => ch.cur = After(ch, Final(played[Len(played)]))

Plays(c) == c \in SB!Card /\ Fed(c) /\ InOrder(c.channel, c.played)

LEMMA ConstantFacts ==
    /\ Half \in Nat \ {0} /\ Decimation \in Nat \ {0} /\ TimerPeriod \in Nat \ {0}
    /\ CatchUp \in Nat /\ DetectLimit \in Nat /\ MaxLag \in Nat
BY MachineConstants

LEMMA SampleFacts == Samples \subseteq Nat \ {0} /\ 1 \in Samples /\ Length \subseteq Samples
BY MachineConstants DEF Samples

(* A ring goes around the buffer from where the channel stands, and the    *)
(* channel goes on after it.                                               *)
LEMMA RingGoesAround ==
    ASSUME NEW ch \in SB!Channel, NEW n \in Nat \ {0}
    PROVE  /\ GoesAround(ch, SB!Ring(ch, n))
           /\ Len(SB!Ring(ch, n)) = n
           /\ ch.cur \in Buffer(ch) => SB!Ring(ch, n)[1] = ch.cur
           /\ SB!AfterBlock(ch, n) \in SB!Channel
           /\ ch.auto => /\ SB!AfterBlock(ch, n).cur = After(ch, Final(SB!Ring(ch, n)))
                         /\ SB!AfterBlock(ch, n).base = ch.base
                         /\ SB!AfterBlock(ch, n).count = ch.count
                         /\ SB!AfterBlock(ch, n).auto = ch.auto
<1> DEFINE S == SB!Size(ch)
           pos == SB!Position(ch)
           ring == SB!Ring(ch, n)
<1>1. /\ ch.base \in Nat /\ ch.count \in Nat /\ ch.cur \in Nat /\ ch.auto \in BOOLEAN
      /\ S \in Nat \ {0} /\ S = ch.count + 1
  BY MachineConstants DEF SB!Channel, SB!Address, SB!Size
<1>2. pos \in 0..(S - 1) /\ (ch.cur \in Buffer(ch) => pos = ch.cur - ch.base)
  BY <1>1 DEF SB!Position, Buffer
<1>3. ring = [i \in 1..n |-> ch.base + ((pos + i - 1) % S)]
  BY DEF SB!Ring
<1>a. SB!AfterBlock(ch, n) =
        [ch EXCEPT !.cur = IF ch.auto THEN ch.base + ((pos + n) % S)
                           ELSE (ch.base + n) % (Half * Half)]
  BY DEF SB!AfterBlock
<1>b. Buffer(ch) = ch.base..(ch.base + S - 1)
  BY <1>1 DEF Buffer
<1>c. \A a : After(ch, a) = ch.base + ((a - ch.base + 1) % S)
  BY DEF After
<1> HIDE DEF S, pos, ring
<1>4. ASSUME NEW k \in Nat PROVE (pos + k) % S \in 0..(S - 1)
  <2>1. pos + k \in Nat
    BY <1>1, <1>2
  <2> QED BY <1>1, <2>1, ModRange
<1>5. ring \in Seq(Buffer(ch)) /\ Len(ring) = n /\ ring # <<>>
  <2>1. ASSUME NEW i \in 1..n PROVE ch.base + ((pos + i - 1) % S) \in Buffer(ch)
    <3>1. (pos + (i - 1)) % S \in 0..(S - 1)
      BY <1>4
    <3>2. pos + i - 1 = pos + (i - 1)
      BY <1>2
    <3> QED BY <1>1, <1>b, <3>1, <3>2
  <2> QED BY <1>3, <2>1
<1>6. ASSUME NEW i \in 1..n
      PROVE  After(ch, ring[i]) = ch.base + ((pos + i) % S)
  <2>1. ring[i] = ch.base + ((pos + i - 1) % S)
    BY <1>3
  <2>2. pos + i - 1 \in Nat /\ (pos + i - 1) + 1 = pos + i
    BY <1>2
  <2>3. (pos + i - 1) % S \in 0..(S - 1)
    BY <1>1, <2>2, ModFacts
  <2>4. ring[i] - ch.base + 1 = ((pos + i - 1) % S) + 1
    BY <1>1, <2>1, <2>3
  <2>5. (((pos + i - 1) % S) + 1) % S = (pos + i) % S
    BY <1>1, <2>2, ModSucc
  <2> QED BY <1>c, <2>4, <2>5
<1>7. ASSUME NEW i \in 1..(n - 1) PROVE ring[i + 1] = After(ch, ring[i])
  <2>1. ring[i + 1] = ch.base + ((pos + (i + 1) - 1) % S)
    BY <1>3
  <2>2. pos + (i + 1) - 1 = pos + i
    BY <1>2
  <2> QED BY <1>6, <2>1, <2>2
<1>8. GoesAround(ch, ring)
  BY <1>5, <1>7 DEF GoesAround
<1>9. ASSUME ch.cur \in Buffer(ch) PROVE ring[1] = ch.cur
  <2>1. ring[1] = ch.base + ((pos + 1 - 1) % S)
    BY <1>3
  <2>2. pos + 1 - 1 = pos /\ pos % S = pos
    BY <1>1, <1>2, ModSmall
  <2> QED BY <1>1, <1>2, <1>9, <2>1, <2>2
<1>10. SB!AfterBlock(ch, n) \in SB!Channel
  <2>1. ch.base + ((pos + n) % S) \in Nat
    BY <1>1, <1>4
  <2>2. (ch.base + n) % (Half * Half) \in Nat
    <3>1. ch.base + n \in Nat /\ Half * Half \in Nat \ {0}
      BY <1>1, MachineConstants
    <3> QED BY <3>1, ModRange
  <2> QED BY <1>a, <2>1, <2>2 DEF SB!Channel
<1>11. ASSUME ch.auto PROVE SB!AfterBlock(ch, n).cur = After(ch, Final(ring))
  BY <1>a, <1>5, <1>6, <1>11 DEF Final, SB!Channel
<1>12. /\ SB!AfterBlock(ch, n).base = ch.base
       /\ SB!AfterBlock(ch, n).count = ch.count
       /\ SB!AfterBlock(ch, n).auto = ch.auto
  BY <1>a DEF SB!Channel
<1> QED BY <1>5, <1>8, <1>9, <1>10, <1>11, <1>12 DEF ring

(* Of any sequence of blocks the last one is kept and the one before it.   *)
LEMMA KeepsTwo ==
    ASSUME NEW X, NEW s \in Seq(X), Len(s) <= 2, NEW r \in X
    PROVE  LET kept == SB!LastTwo(Append(s, r))
           IN  /\ kept \in Seq(X) /\ Len(kept) \in 1..2 /\ kept[Len(kept)] = r
               /\ Len(kept) = 2 => s # <<>> /\ kept[1] = s[Len(s)]
<1> DEFINE longer == Append(s, r)
           kept == SB!LastTwo(longer)
<1>0. Len(s) \in 0..2
  <2>1. \A k \in Nat : k <= 2 => k \in 0..2
    OBVIOUS
  <2>2. Len(s) \in Nat
    BY LenProperties
  <2> QED BY Zenon, <2>1, <2>2
<1>1. /\ longer \in Seq(X) /\ Len(longer) = Len(s) + 1
      /\ longer[Len(s) + 1] = r
      /\ \A j \in 1..Len(s) : longer[j] = s[j]
  BY AppendProperties
<1>2. kept = IF Len(longer) > 2 THEN Tail(longer) ELSE longer
  BY DEF SB!LastTwo
<1> HIDE DEF longer, kept
<1>e. s = <<>> => Len(s) = 0
  OBVIOUS
<1>3. CASE Len(s) = 2
  <2>1. Len(longer) = 3 /\ kept = Tail(longer) /\ longer # <<>>
    BY SMTT(20), <1>1, <1>2, <1>3
  <2>2. /\ kept \in Seq(X) /\ Len(kept) = 2
        /\ \A i \in 1..2 : kept[i] = longer[i + 1]
    <3>1. /\ Tail(longer) \in Seq(X) /\ Len(Tail(longer)) = Len(longer) - 1
          /\ \A i \in 1..Len(Tail(longer)) : Tail(longer)[i] = longer[i + 1]
      BY <1>1, <2>1, HeadTailProperties
    <3>2. Len(Tail(longer)) = 2
      BY <2>1, <3>1
    <3>3. Tail(longer)[1] = longer[1 + 1] /\ Tail(longer)[2] = longer[2 + 1]
      <4>1. 1 \in 1..2 /\ 2 \in 1..2
        OBVIOUS
      <4> QED BY Zenon, <3>1, <3>2, <4>1
    <3>4. \A i \in 1..2 : i = 1 \/ i = 2
      OBVIOUS
    <3> QED BY <2>1, <3>1, <3>2, <3>3, <3>4
  <2>3. kept[1] = s[2] /\ kept[2] = r
    BY <1>1, <1>3, <2>2
  <2> QED BY <1>e, <1>3, <2>2, <2>3 DEF kept, longer
<1>4. CASE Len(s) # 2
  <2>1. Len(longer) \in 1..2 /\ kept = longer
    BY <1>0, <1>1, <1>2, <1>4
  <2>2. Len(s) = 1 => s # <<>> /\ longer[1] = s[Len(s)]
    BY <1>1, <1>e
  <2> QED BY <1>0, <1>1, <1>4, <2>1, <2>2 DEF kept, longer
<1> QED BY <1>3, <1>4

(* The blocks that are kept stay in order when one more is played.         *)
LEMMA BlockInOrder ==
    ASSUME NEW ch \in SB!Channel, NEW played \in Seq(Seq(Nat)), InOrder(ch, played),
           NEW n \in Nat \ {0}
    PROVE  LET kept == SB!LastTwo(Append(played, SB!Ring(ch, n)))
           IN  kept \in Seq(Seq(Nat)) /\ InOrder(SB!AfterBlock(ch, n), kept)
<1> DEFINE ring == SB!Ring(ch, n)
           later == SB!AfterBlock(ch, n)
           kept == SB!LastTwo(Append(played, ring))
<1>1. ring \in Seq(Nat) /\ ring # <<>>
  <2>1. GoesAround(ch, ring)
    BY RingGoesAround
  <2>2. ch.base \in Nat /\ ch.count \in Nat
    BY MachineConstants DEF SB!Channel, SB!Address
  <2>3. Buffer(ch) \subseteq Nat
    BY <2>2 DEF Buffer
  <2> HIDE DEF ring
  <2>4. ring \in Seq(Buffer(ch)) /\ ring # <<>>
    BY <2>1 DEF GoesAround
  <2> QED BY <2>3, <2>4
<1>2. Len(played) <= 2
  BY DEF InOrder
<1> HIDE DEF ring
<1>3. /\ kept \in Seq(Seq(Nat)) /\ Len(kept) \in 1..2
      /\ kept[Len(kept)] = ring
      /\ Len(kept) = 2 => played # <<>> /\ kept[1] = played[Len(played)]
  BY <1>1, <1>2, KeepsTwo
<1> HIDE DEF kept
<1>4. CASE ~later.auto
  BY <1>3, <1>4 DEF InOrder, kept, ring
<1>5. CASE later.auto
  <2>1. ch.auto
    BY <1>5 DEF SB!AfterBlock, SB!Channel
  <2>2. /\ later.base = ch.base /\ later.count = ch.count
        /\ later.cur = After(ch, Final(ring)) /\ GoesAround(ch, ring)
    BY <2>1, RingGoesAround DEF ring
  <2>3. /\ \A a : After(later, a) = After(ch, a)
        /\ Buffer(later) = Buffer(ch)
    BY <2>2 DEF After, Buffer, SB!Size
  <2>4. \A block : GoesAround(ch, block) => GoesAround(later, block)
    BY <2>3 DEF GoesAround
  <2>5. CASE played = <<>>
    <3>1. Len(kept) = 1 /\ kept[1] = ring
      BY <1>3, <2>5
    <3> QED BY <1>3, <2>2, <2>3, <2>4, <3>1 DEF InOrder, kept, ring
  <2>6. CASE played # <<>>
    <3>1. /\ GoesAround(ch, played[Len(played)])
          /\ ch.cur = After(ch, Final(played[Len(played)]))
      BY <1>2, <2>1, <2>6 DEF InOrder
    <3>2. ch.cur \in Buffer(ch)
      <4>1. Final(played[Len(played)]) \in Buffer(ch)
        BY <3>1 DEF GoesAround, Final
      <4>2. ch.base \in Nat /\ ch.count \in Nat
        BY MachineConstants DEF SB!Channel, SB!Address
      <4>3. Final(played[Len(played)]) - ch.base + 1 \in Nat /\ SB!Size(ch) \in Nat \ {0}
        BY <4>1, <4>2 DEF Buffer, SB!Size
      <4>4. (Final(played[Len(played)]) - ch.base + 1) % SB!Size(ch) \in 0..(SB!Size(ch) - 1)
        BY <4>3, ModRange
      <4>5. SB!Size(ch) = ch.count + 1
        BY DEF SB!Size
      <4> QED BY <3>1, <4>2, <4>4, <4>5 DEF After, Buffer
    <3>3. ring[1] = ch.cur
      BY <3>2, RingGoesAround DEF ring
    <3>4. ASSUME NEW j \in 1..Len(kept) PROVE GoesAround(later, kept[j])
      <4>1. kept[j] \in {ring, played[Len(played)]}
        BY <1>3
      <4> QED BY <2>2, <2>4, <3>1, <4>1
    <3>5. Len(kept) = 2 => kept[2][1] = After(later, Final(kept[1]))
      BY <1>3, <2>3, <3>1, <3>3
    <3>6. later.cur = After(later, Final(kept[Len(kept)]))
      BY <1>3, <2>2, <2>3
    <3> QED BY <1>3, <3>4, <3>5, <3>6 DEF InOrder, kept, ring
  <2> QED BY <2>5, <2>6
<1>6. later.auto \in BOOLEAN
  BY RingGoesAround DEF SB!Channel
<1> QED BY <1>4, <1>5, <1>6

(* Every set of numbers with an element has a least one.                   *)
LEMMA Least ==
    ASSUME NEW T \in SUBSET Nat, T # {}
    PROVE  \E k \in T : \A j \in T : k <= j
<1>1. PICK k \in T : \A j \in T : ~(<<j, k>> \in OpToRel(<, Nat))
  BY NatLessThanWellFounded, WFMin
<1>2. ASSUME NEW j \in T PROVE k <= j
  <2>1. j \in Nat /\ k \in Nat
    OBVIOUS
  <2>2. j < k => <<j, k>> \in OpToRel(<, Nat)
    BY <2>1 DEF OpToRel
  <2>3. k <= j \/ j < k
    BY <2>1
  <2> QED BY Zenon, <1>1, <2>2, <2>3
<1> QED BY <1>2

(* A list of numbers has a bound: of the lists without one a shortest      *)
(* would not be empty, and would have one with its last left off.          *)
LEMMA ListBounded ==
    ASSUME NEW n \in Nat, NEW f \in [1..n -> Nat]
    PROVE  \E b \in Nat : \A i \in 1..n : f[i] <= b
<1> DEFINE Bounds(k, g) == {b \in Nat : \A i \in 1..k : g[i] <= b}
           Unbounded == {k \in Nat : \E g \in [1..k -> Nat] : Bounds(k, g) = {}}
<1>1. SUFFICES ASSUME Unbounded # {} PROVE FALSE
  BY Bounds(n, f) # {}
<1>2. PICK k \in Unbounded : \A j \in Unbounded : k <= j
  BY <1>1, Least
<1>3. PICK g \in [1..k -> Nat] : Bounds(k, g) = {}
  OBVIOUS
<1>4. k # 0
  <2>1. k = 0 => 0 \in Bounds(k, g)
    OBVIOUS
  <2> QED BY <1>3, <2>1
<1>5. k - 1 \in Nat /\ k \in Nat
  BY <1>4
<1>6. k - 1 \notin Unbounded
  <2>1. ~(k <= k - 1)
    BY <1>5
  <2> QED BY Zenon, <1>2, <2>1
<1> DEFINE shorter == [i \in 1..(k - 1) |-> g[i]]
<1>7. shorter \in [1..(k - 1) -> Nat]
  <2>1. \A i \in 1..(k - 1) : i \in 1..k
    BY <1>5
  <2>2. \A i \in 1..(k - 1) : g[i] \in Nat
    BY <2>1
  <2> HIDE DEF Unbounded
  <2> QED BY <2>2
<1>8. PICK b \in Nat : \A i \in 1..(k - 1) : g[i] <= b
  <2>1. Bounds(k - 1, shorter) # {}
    BY <1>5, <1>6, <1>7
  <2>2. PICK b \in Nat : \A i \in 1..(k - 1) : shorter[i] <= b
    BY <2>1
  <2> QED BY <2>2
<1>9. g[k] \in Nat
  BY <1>4, <1>5
<1>10. b + g[k] \in Bounds(k, g)
  <2>1. ASSUME NEW i \in 1..k PROVE g[i] <= b + g[k]
    <3>1. g[i] \in Nat
      OBVIOUS
    <3>2. CASE i = k
      <4>1. \A x, y \in Nat : y <= x + y
        OBVIOUS
      <4> QED BY Zenon, <1>9, <3>2, <4>1
    <3>3. CASE i # k
      <4>1. g[i] <= b
        BY <1>5, <1>8, <3>3
      <4>2. \A x, y, z \in Nat : x <= y => x <= y + z
        OBVIOUS
      <4> QED BY Zenon, <1>9, <3>1, <4>1, <4>2
    <3> QED BY <3>2, <3>3
  <2>2. b + g[k] \in Nat
    <3>1. \A x, y \in Nat : x + y \in Nat
      OBVIOUS
    <3> QED BY Zenon, <1>9, <3>1
  <2> QED BY Zenon, <2>1, <2>2
<1> QED BY <1>3, <1>10

(* There is a longest block: LongAgo is older than any of them reaches     *)
(* back.                                                                   *)
LEMMA LongestLength ==
    /\ SB!LongAgo \in Int /\ SB!Unset = SB!LongAgo - 1
    /\ SB!LongAgo < 0
    /\ \A n \in Samples : 0 - (SB!LongAgo + n) > CatchUp
<1> DEFINE Greatest(n) == n \in Length /\ \A k \in Length : k <= n
           longest == CHOOSE n \in Length : \A k \in Length : k <= n
<1>1. PICK list : \E n \in Nat : list \in Surjection(1..n, Length)
  <2>1. \E n \in Nat : ExistsSurjection(1..n, Length)
    BY MachineConstants, FS_NatSurjection
  <2> QED BY <2>1 DEF ExistsSurjection
<1>2. PICK n \in Nat : list \in Surjection(1..n, Length)
  BY <1>1
<1>3. Length \subseteq Nat \ {0} /\ Length # {}
  BY MachineConstants
<1>4. list \in [1..n -> Nat] /\ \A k \in Length : \E i \in 1..n : list[i] = k
  BY <1>2, <1>3 DEF Surjection
<1>5. PICK b \in Nat : \A i \in 1..n : list[i] <= b
  BY <1>4, ListBounded
<1> DEFINE Uppers == {u \in Nat : \A k \in Length : k <= u}
<1>6. b \in Uppers
  BY <1>4, <1>5
<1>7. PICK u \in Uppers : \A j \in Uppers : u <= j
  BY <1>6, Least
<1>8. u \in Length
  <2>1. SUFFICES ASSUME u \notin Length PROVE FALSE
    OBVIOUS
  <2>2. PICK k \in Length : TRUE
    BY <1>3
  <2>3. u \in Nat /\ u > 0
    BY <1>3, <2>2
  <2>4. ASSUME NEW j \in Length PROVE j <= u - 1
    <3>1. j <= u /\ j # u /\ j \in Nat
      BY <1>3, <2>1
    <3> QED BY <2>3, <3>1
  <2>5. u - 1 \in Uppers
    BY <2>3, <2>4
  <2> QED BY <1>7, <2>3, <2>5
<1>9. longest \in Length /\ \A k \in Length : k <= longest
  BY <1>8
<1>10. SB!LongAgo = 0 - CatchUp - longest - 1
  BY DEF SB!LongAgo
<1> HIDE DEF longest
<1>11. longest \in Nat /\ longest >= 1 /\ CatchUp \in Nat
  BY <1>3, <1>9, ConstantFacts
<1>12. ASSUME NEW k \in Samples PROVE 0 - (SB!LongAgo + k) > CatchUp
  <2>1. k \in Nat /\ k <= longest
    BY <1>3, <1>9, <1>11 DEF Samples
  <2> QED BY <1>10, <1>11, <2>1
<1> QED BY <1>10, <1>11, <1>12 DEF SB!Unset

LEMMA StartDmaPlays ==
    ASSUME NEW c, Plays(c), NEW n \in Samples
    PROVE  Plays(SB!StartDma(c, n))
<1>1. c \in SB!Card /\ n \in Nat \ {0}
  BY SampleFacts DEF Plays
<1> DEFINE asked == IF c.requests <= DetectLimit THEN c.requests + 1 ELSE c.requests
           d == [c EXCEPT !.active = TRUE, !.requests = asked]
<1>a. asked \in 0..(DetectLimit + 1)
  BY <1>1, ConstantFacts DEF SB!Card
<1> HIDE DEF asked
<1>2. /\ d \in SB!Card
      /\ d.needed = c.needed /\ d.args = c.args /\ d.cmd = c.cmd /\ d.blocklen = c.blocklen
      /\ d.channel = c.channel /\ d.played = c.played
  BY <1>1, <1>a DEF SB!Card
<1> HIDE DEF d
<1>3. CASE c.detection
  <2>1. SB!StartDma(c, n) \in {d, SB!FireIrq(d)}
    BY <1>3 DEF SB!StartDma, d, asked
  <2>2. /\ SB!FireIrq(d) \in SB!Card
        /\ SB!FireIrq(d).needed = c.needed /\ SB!FireIrq(d).args = c.args
        /\ SB!FireIrq(d).cmd = c.cmd /\ SB!FireIrq(d).blocklen = c.blocklen
        /\ SB!FireIrq(d).channel = c.channel /\ SB!FireIrq(d).played = c.played
    BY <1>2 DEF SB!Card, SB!FireIrq
  <2> QED BY <1>2, <2>1, <2>2 DEF Plays, Fed
<1>4. CASE ~c.detection
  <2> DEFINE kept == SB!LastTwo(Append(c.played, SB!Ring(c.channel, n)))
             later == SB!AfterBlock(c.channel, n)
             due == SB!Ideal(c, n)
  <2>1. SB!StartDma(c, n) = [d EXCEPT !.played = kept, !.channel = later, !.tc = TRUE,
                                      !.due = due, !.pending = TRUE]
    BY <1>2, <1>4 DEF SB!StartDma, d, asked
  <2>2. c.channel \in SB!Channel /\ c.played \in Seq(Seq(Nat)) /\ c.due \in Int
    BY <1>1 DEF SB!Card
  <2>3. kept \in Seq(Seq(Nat)) /\ InOrder(later, kept)
    BY <1>1, <2>2, BlockInOrder DEF Plays
  <2>4. later \in SB!Channel
    BY <1>1, <2>2, RingGoesAround
  <2>5. due \in Int
    BY <1>1, <2>2 DEF SB!Ideal, SB!Duration
  <2> HIDE DEF kept, later, due
  <2>6. /\ SB!StartDma(c, n) \in SB!Card
        /\ SB!StartDma(c, n).played = kept /\ SB!StartDma(c, n).channel = later
        /\ SB!StartDma(c, n).needed = c.needed /\ SB!StartDma(c, n).args = c.args
        /\ SB!StartDma(c, n).cmd = c.cmd /\ SB!StartDma(c, n).blocklen = c.blocklen
    BY <1>2, <2>1, <2>3, <2>4, <2>5 DEF SB!Card
  <2> QED BY <2>3, <2>6 DEF Plays, Fed
<1>5. c.detection \in BOOLEAN
  BY <1>1 DEF SB!Card
<1> QED BY <1>3, <1>4, <1>5

(* An operation that leaves the channel, what it has played and the        *)
(* command alone.                                                          *)
LEMMA SamePlays ==
    ASSUME NEW c, Plays(c), NEW d \in SB!Card,
           d.needed = c.needed, d.args = c.args, d.cmd = c.cmd, d.blocklen = c.blocklen,
           d.channel = c.channel, d.played = c.played
    PROVE  Plays(d)
BY DEF Plays, Fed

(* The high byte is no part of where a channel plays, and an empty history *)
(* is in order.                                                            *)
LEMMA ForgottenInOrder == \A ch : InOrder(ch, <<>>)
<1>1. Len(<<>>) = 0
  OBVIOUS
<1> QED BY <1>1 DEF InOrder

LEMMA SameRingInOrder ==
    ASSUME NEW ch, NEW later, NEW played, InOrder(ch, played),
           later.base = ch.base, later.count = ch.count,
           later.cur = ch.cur, later.auto = ch.auto
    PROVE  InOrder(later, played)
<1>1. \A a : After(later, a) = After(ch, a)
  BY DEF After, SB!Size
<1>2. Buffer(later) = Buffer(ch)
  BY DEF Buffer
<1>3. \A block : GoesAround(ch, block) => GoesAround(later, block)
  BY <1>1, <1>2 DEF GoesAround
<1> QED BY <1>1, <1>3 DEF InOrder

(* The lines of the card and its clock.                                    *)
LEMMA LinePlays ==
    ASSUME NEW c, Plays(c)
    PROVE  /\ Plays(SB!FireIrq(c)) /\ Plays(SB!Service(c)) /\ Plays(SB!Advance(c))
           /\ Plays(SB!StatusRead(c)) /\ Plays(SB!ReadStatus(c)) /\ Plays(SB!ReadData(c))
           /\ \A bit \in BOOLEAN : Plays(SB!Reset(c, bit))
           /\ \A a \in BOOLEAN : Plays([c EXCEPT !.anchored = a])
           /\ \A r \in BOOLEAN : Plays([c EXCEPT !.raised = r])
           /\ \A n \in Length : Plays(SB!Resync(c, n))
<1>1. c \in SB!Card
  BY DEF Plays
<1>2. Plays(SB!FireIrq(c))
  <2>1. SB!FireIrq(c) \in SB!Card
    BY <1>1 DEF SB!FireIrq, SB!Card
  <2> QED BY <1>1, <2>1, SamePlays DEF SB!FireIrq, SB!Card
<1>3. Plays(SB!Service(c))
  <2> DEFINE d == [c EXCEPT !.pending = FALSE]
  <2>1. d \in SB!Card /\ SB!FireIrq(d) \in SB!Card
    BY <1>1 DEF SB!FireIrq, SB!Card
  <2>2. Plays(d)
    BY <1>1, <2>1, SamePlays DEF SB!Card
  <2>3. Plays(SB!FireIrq(d))
    BY <2>1, <2>2, SamePlays DEF SB!FireIrq, SB!Card
  <2> QED BY <2>3 DEF SB!Service
<1>4. Plays(SB!Advance(c))
  <2>1. c.due \in Int
    BY <1>1 DEF SB!Card
  <2>2. SB!LongAgo \in Int
    BY LongestLength
  <2> DEFINE due == IF c.due > SB!LongAgo THEN c.due - 1 ELSE SB!LongAgo
  <2>3. due \in Int /\ SB!Advance(c) \in {c, [c EXCEPT !.due = due]}
    BY <2>1, <2>2 DEF SB!Advance
  <2> HIDE DEF due
  <2>4. [c EXCEPT !.due = due] \in SB!Card
    BY <1>1, <2>3 DEF SB!Card
  <2>5. Plays([c EXCEPT !.due = due])
    BY <1>1, <2>4, SamePlays DEF SB!Card
  <2> QED BY <2>3, <2>5
<1>5. Plays(SB!StatusRead(c)) /\ Plays(SB!ReadStatus(c))
  <2>1. SB!StatusRead(c) \in SB!Card /\ SB!ReadStatus(c) \in SB!Card
    BY <1>1 DEF SB!StatusRead, SB!ReadStatus, SB!Card
  <2>2. Plays(SB!StatusRead(c))
    BY <1>1, <2>1, SamePlays DEF SB!StatusRead, SB!Card
  <2>3. Plays(SB!ReadStatus(c))
    BY <1>1, <2>1, SamePlays DEF SB!ReadStatus, SB!Card
  <2> QED BY <2>2, <2>3
<1>6. Plays(SB!ReadData(c))
  <2> DEFINE out == IF c.out = <<>> THEN c.out ELSE Tail(c.out)
  <2>1. c.out \in Seq({"AA", "id"})
    BY <1>1 DEF SB!Card
  <2>2. out \in Seq({"AA", "id"})
    BY <2>1, HeadTailProperties
  <2>3. SB!ReadData(c) = [c EXCEPT !.out = out]
    BY DEF SB!ReadData
  <2> HIDE DEF out
  <2>4. [c EXCEPT !.out = out] \in SB!Card
    BY <1>1, <2>2 DEF SB!Card
  <2>5. Plays([c EXCEPT !.out = out])
    BY <1>1, <2>4, SamePlays DEF SB!Card
  <2> QED BY <2>3, <2>5
<1>7. ASSUME NEW bit \in BOOLEAN PROVE Plays(SB!Reset(c, bit))
  <2>1. <<"AA">> \in Seq({"AA", "id"})
    OBVIOUS
  <2>2. SB!Reset(c, bit) \in SB!Card
    BY <1>1, <2>1 DEF SB!Reset, SB!Card
  <2> QED BY <1>1, <2>2, SamePlays DEF SB!Reset, SB!Card
<1>8. ASSUME NEW a \in BOOLEAN
      PROVE  Plays([c EXCEPT !.anchored = a]) /\ Plays([c EXCEPT !.raised = a])
  <2>1. [c EXCEPT !.anchored = a] \in SB!Card /\ [c EXCEPT !.raised = a] \in SB!Card
    BY <1>1 DEF SB!Card
  <2>2. Plays([c EXCEPT !.anchored = a])
    BY <1>1, <2>1, SamePlays DEF SB!Card
  <2>3. Plays([c EXCEPT !.raised = a])
    BY <1>1, <2>1, SamePlays DEF SB!Card
  <2> QED BY <2>2, <2>3
<1>9. ASSUME NEW n \in Length PROVE Plays(SB!Resync(c, n))
  <2> DEFINE armed == SB!Duration(IF c.blocklen = 0 THEN n ELSE c.blocklen)
             passed == IF c.due = SB!Unset THEN c.due ELSE SB!LongAgo
  <2>1. armed \in Int /\ passed \in Int
    BY <1>1, LongestLength, MachineConstants DEF SB!Duration, SB!Card
  <2>2. SB!Resync(c, n) \in {[c EXCEPT !.due = armed], [c EXCEPT !.due = passed]}
    BY DEF SB!Resync
  <2> HIDE DEF armed, passed
  <2>3. ASSUME NEW due \in Int PROVE Plays([c EXCEPT !.due = due])
    <3>1. [c EXCEPT !.due = due] \in SB!Card
      BY <1>1 DEF SB!Card
    <3> QED BY <1>1, <3>1, SamePlays DEF SB!Card
  <2> QED BY <2>1, <2>2, <2>3
<1> QED BY <1>2, <1>3, <1>4, <1>5, <1>6, <1>7, <1>8, <1>9

(* The registers of the channel: a new program starts a new history.       *)
LEMMA ProgramPlays ==
    ASSUME NEW c, Plays(c), NEW channel \in SB!Channel
    PROVE  Plays(SB!Program(c, channel))
<1>1. c \in SB!Card
  BY DEF Plays
<1>2. <<>> \in Seq(Seq(Nat))
  OBVIOUS
<1>3. SB!Program(c, channel) \in SB!Card
  BY <1>1, <1>2 DEF SB!Program, SB!Card
<1>4. Fed(SB!Program(c, channel))
  BY <1>1 DEF Plays, Fed, SB!Program, SB!Card
<1>5. /\ SB!Program(c, channel).played = <<>>
      /\ SB!Program(c, channel).channel = channel
  BY <1>1 DEF SB!Program, SB!Card
<1> QED BY <1>3, <1>4, <1>5, ForgottenInOrder DEF Plays

LEMMA ChannelPlays ==
    ASSUME NEW c, Plays(c), NEW byte \in 0..(Half - 1)
    PROVE  /\ Plays(SB!WriteAddress(c, byte)) /\ Plays(SB!WriteCount(c, byte))
           /\ \A auto \in BOOLEAN : Plays(SB!WriteMode(c, auto))
           /\ Plays(SB!ClearFlipFlop(c))
<1> DEFINE ch == c.channel
           base == SB!SetByte(ch.base, ch.high, byte)
           count == SB!SetByte(ch.count, ch.high, byte)
<1>1. c \in SB!Card /\ ch \in SB!Channel
  BY DEF Plays, SB!Card
<1>2. /\ ch.base \in SB!Address /\ ch.count \in SB!Address /\ ch.high \in BOOLEAN
      /\ ch.cur \in Nat /\ ch.auto \in BOOLEAN
  BY <1>1 DEF SB!Channel
<1>3. base \in SB!Address /\ count \in SB!Address
  BY <1>2, SetByteType
<1>4. SB!Address \subseteq Nat
  BY DEF SB!Address
<1> HIDE DEF base, count
<1>5. Plays(SB!WriteAddress(c, byte))
  <2> DEFINE later == [ch EXCEPT !.base = base, !.cur = base, !.high = ~ch.high]
  <2>1. later \in SB!Channel
    BY <1>1, <1>2, <1>3, <1>4 DEF SB!Channel
  <2>2. SB!WriteAddress(c, byte) = SB!Program(c, later)
    BY DEF SB!WriteAddress, base
  <2> HIDE DEF later
  <2> QED BY <2>1, <2>2, ProgramPlays
<1>6. Plays(SB!WriteCount(c, byte))
  <2> DEFINE later == [ch EXCEPT !.count = count, !.high = ~ch.high]
  <2>1. later \in SB!Channel
    BY <1>1, <1>2, <1>3 DEF SB!Channel
  <2>2. SB!WriteCount(c, byte) = SB!Program(c, later)
    BY DEF SB!WriteCount, count
  <2> HIDE DEF later
  <2> QED BY <2>1, <2>2, ProgramPlays
<1>7. ASSUME NEW auto \in BOOLEAN PROVE Plays(SB!WriteMode(c, auto))
  <2> DEFINE later == [ch EXCEPT !.auto = auto]
  <2>1. later \in SB!Channel
    BY <1>1 DEF SB!Channel
  <2>2. SB!WriteMode(c, auto) = SB!Program(c, later)
    BY DEF SB!WriteMode
  <2> HIDE DEF later
  <2> QED BY <2>1, <2>2, ProgramPlays
<1>8. Plays(SB!ClearFlipFlop(c))
  <2> DEFINE later == [ch EXCEPT !.high = FALSE]
             d == [c EXCEPT !.channel = later]
  <2>1. /\ later \in SB!Channel /\ later.base = ch.base /\ later.count = ch.count
        /\ later.cur = ch.cur /\ later.auto = ch.auto
    BY <1>1 DEF SB!Channel
  <2>2. SB!ClearFlipFlop(c) = d
    BY DEF SB!ClearFlipFlop
  <2> HIDE DEF later
  <2>3. d \in SB!Card
    BY <1>1, <2>1 DEF SB!Card
  <2>4. /\ d.channel = later /\ d.played = c.played /\ d.needed = c.needed
        /\ d.args = c.args /\ d.cmd = c.cmd /\ d.blocklen = c.blocklen
    BY <1>1 DEF SB!Card
  <2> HIDE DEF d
  <2>5. InOrder(later, c.played)
    BY <2>1, SameRingInOrder DEF Plays
  <2>6. Fed(d)
    BY <2>4 DEF Plays, Fed
  <2> QED BY <2>2, <2>3, <2>4, <2>5, <2>6 DEF Plays
<1> QED BY <1>5, <1>6, <1>7, <1>8

(* A command, and a byte of one.                                           *)
LEMMA ExecPlays ==
    ASSUME NEW c, Plays(c), c.needed = 0
    PROVE  Plays(SB!Exec(c))
<1>1. /\ c \in SB!Card /\ c.args \in Seq(Samples) /\ c.blocklen \in Samples \cup {0}
      /\ Len(c.args) = SB!Arguments(c.cmd)
  <2>1. c.needed + Len(c.args) = SB!Arguments(c.cmd) /\ c.args \in Seq(Samples)
    BY DEF Plays, Fed
  <2>2. Len(c.args) \in Nat
    BY <2>1, LenProperties
  <2> QED BY <2>1, <2>2 DEF Plays, Fed
<1>2. CASE c.cmd = "version"
  <2>1. c.out \in Seq({"AA", "id"}) /\ <<"id", "id">> \in Seq({"AA", "id"})
    BY <1>1 DEF SB!Card
  <2>2. c.out \o <<"id", "id">> \in Seq({"AA", "id"})
    BY <2>1
  <2>3. SB!Exec(c) = [c EXCEPT !.out = c.out \o <<"id", "id">>]
    BY <1>2 DEF SB!Exec
  <2>4. SB!Exec(c) \in SB!Card
    BY <1>1, <2>2, <2>3 DEF SB!Card
  <2> QED BY <1>1, <2>3, <2>4, SamePlays DEF SB!Card
<1>3. CASE c.cmd = "single"
  <2>1. Len(c.args) = 2
    BY <1>1, <1>3 DEF SB!Arguments
  <2>2. c.args[1] \in Samples
    BY <1>1, <2>1, ElementOfSeq
  <2> QED BY <1>3, <2>2, StartDmaPlays DEF SB!Exec
<1>4. CASE c.cmd = "autoinit"
  <2>1. (IF c.blocklen = 0 THEN 1 ELSE c.blocklen) \in Samples
    BY <1>1, SampleFacts
  <2> QED BY <1>4, <2>1, StartDmaPlays DEF SB!Exec
<1>5. CASE c.cmd = "blocklen"
  <2>1. Len(c.args) = 2
    BY <1>1, <1>5 DEF SB!Arguments
  <2>2. c.args[1] \in Samples /\ c.args[1] \in Nat
    <3>1. c.args[1] \in Samples
      BY <1>1, <2>1, ElementOfSeq
    <3>2. Samples \subseteq Nat
      BY SampleFacts
    <3> QED BY <3>1, <3>2
  <2>3. SB!Exec(c) = [c EXCEPT !.blocklen = c.args[1]]
    BY <1>5 DEF SB!Exec
  <2>4. SB!Exec(c) \in SB!Card
    BY <1>1, <2>2, <2>3 DEF SB!Card
  <2>5. /\ SB!Exec(c).blocklen = c.args[1] /\ SB!Exec(c).needed = c.needed
        /\ SB!Exec(c).args = c.args /\ SB!Exec(c).cmd = c.cmd
        /\ SB!Exec(c).channel = c.channel /\ SB!Exec(c).played = c.played
    BY <1>1, <2>3 DEF SB!Card
  <2> QED BY <2>2, <2>4, <2>5 DEF Plays, Fed
<1>6. CASE c.cmd = "force"
  BY <1>6, LinePlays DEF SB!Exec
<1>7. CASE c.cmd = "other"
  BY <1>7 DEF SB!Exec
<1>8. c.cmd \in SB!Command
  BY <1>1 DEF SB!Card
<1> QED BY <1>2, <1>3, <1>4, <1>5, <1>6, <1>7, <1>8 DEF SB!Command

LEMMA FeedsPlay ==
    ASSUME NEW c, Plays(c), NEW cmd \in SB!Command, NEW n \in Samples
    PROVE  Plays(IF c.needed > 0
                 THEN [c EXCEPT !.args = Append(c.args, n), !.needed = c.needed - 1]
                 ELSE [c EXCEPT !.cmd = cmd, !.args = <<>>, !.needed = SB!Arguments(cmd)])
<1>1. /\ c \in SB!Card /\ c.args \in Seq(Samples) /\ c.needed \in 0..2
      /\ c.needed + Len(c.args) = SB!Arguments(c.cmd) /\ Len(c.args) \in Nat
  <2>1. c.args \in Seq(Samples)
    BY DEF Plays, Fed
  <2>2. Len(c.args) \in Nat
    BY <2>1, LenProperties
  <2>3. c \in SB!Card
    BY DEF Plays
  <2>4. c.needed \in 0..2
    BY <2>3 DEF SB!Card
  <2> QED BY <2>1, <2>2, <2>3, <2>4 DEF Plays, Fed
<1> DEFINE more == [c EXCEPT !.args = Append(@, n), !.needed = @ - 1]
           new == [c EXCEPT !.cmd = cmd, !.args = <<>>, !.needed = SB!Arguments(cmd)]
<1>2. ASSUME c.needed > 0 PROVE Plays(more)
  <2> DEFINE args == Append(c.args, n)
  <2>1. args \in Seq(Samples) /\ Len(args) = Len(c.args) + 1
    BY <1>1, AppendProperties
  <2>2. Samples \subseteq Nat
    BY SampleFacts
  <2>3. args \in Seq(Nat)
    BY <2>1, <2>2, SeqMonotonic
  <2>4. c.needed - 1 \in 0..2
    BY <1>1, <1>2
  <2>5. more = [c EXCEPT !.args = args, !.needed = c.needed - 1]
    OBVIOUS
  <2> HIDE DEF args, more
  <2>6. more \in SB!Card
    BY <1>1, <2>3, <2>4, <2>5 DEF SB!Card
  <2>7. /\ more.args = args /\ more.needed = c.needed - 1 /\ more.cmd = c.cmd
        /\ more.blocklen = c.blocklen /\ more.channel = c.channel /\ more.played = c.played
    BY <1>1, <2>5 DEF SB!Card
  <2>8. more.needed + Len(more.args) = SB!Arguments(more.cmd)
    BY <1>1, <2>1, <2>7
  <2>9. Fed(more)
    BY <2>1, <2>7, <2>8 DEF Plays, Fed
  <2> QED BY <2>6, <2>7, <2>9 DEF Plays
<1>3. Plays(new)
  <2>1. <<>> \in Seq(Nat) /\ <<>> \in Seq(Samples) /\ Len(<<>>) = 0
    OBVIOUS
  <2>2. SB!Arguments(cmd) \in 0..2
    BY DEF SB!Arguments
  <2>3. new \in SB!Card
    BY <1>1, <2>1, <2>2 DEF SB!Card
  <2>4. /\ new.args = <<>> /\ new.needed = SB!Arguments(cmd) /\ new.cmd = cmd
        /\ new.blocklen = c.blocklen /\ new.channel = c.channel /\ new.played = c.played
    BY <1>1 DEF SB!Card
  <2> HIDE DEF new
  <2>5. Fed(new)
    BY <2>1, <2>2, <2>4 DEF Plays, Fed
  <2> QED BY <2>3, <2>4, <2>5 DEF Plays
<1> QED BY <1>2, <1>3

LEMMA FeedPlays ==
    ASSUME NEW c, Plays(c), NEW cmd \in SB!Command, NEW n \in Samples
    PROVE  Plays(SB!Feed(c, cmd, n))
<1> DEFINE d == IF c.needed > 0
                THEN [c EXCEPT !.args = Append(c.args, n), !.needed = c.needed - 1]
                ELSE [c EXCEPT !.cmd = cmd, !.args = <<>>, !.needed = SB!Arguments(cmd)]
<1>1. Plays(d)
  BY FeedsPlay
<1>2. SB!Feed(c, cmd, n) = IF d.needed = 0 THEN SB!Exec(d) ELSE d
  BY DEF SB!Feed
<1> HIDE DEF d
<1> QED BY <1>1, <1>2, ExecPlays

(* The card as it is attached, and one that plays block after block.       *)
LEMMA FreshPlays ==
    \A detection \in BOOLEAN : Plays(SB!Fresh(detection, FALSE)) /\ ~SB!Fresh(detection, FALSE).raised
<1> SUFFICES ASSUME NEW detection \in BOOLEAN
             PROVE  Plays(SB!Fresh(detection, FALSE)) /\ ~SB!Fresh(detection, FALSE).raised
  OBVIOUS
<1> DEFINE c == SB!Fresh(detection, FALSE)
           ch == [base |-> 0, count |-> 0, cur |-> 0, auto |-> FALSE, high |-> FALSE]
<1>1. ch \in SB!Channel
  <2>1. 0 \in SB!Address
    <3>1. Half * Half \in Nat \ {0}
      BY ConstantFacts
    <3> QED BY <3>1 DEF SB!Address
  <2> QED BY <2>1 DEF SB!Channel
<1>2. /\ <<>> \in Seq(Nat) /\ <<>> \in Seq(Samples) /\ <<>> \in Seq(Seq(Nat))
      /\ <<>> \in Seq({"AA", "id"}) /\ Len(<<>>) = 0
  OBVIOUS
<1>3. SB!Unset \in Int /\ 0 \in 0..(DetectLimit + 1)
  BY LongestLength, ConstantFacts
<1>4. /\ c = [detection |-> detection, requests |-> 0, resetting |-> FALSE, out |-> <<>>,
              cmd |-> "other", needed |-> 0, args |-> <<>>, blocklen |-> 0,
              active |-> FALSE, line |-> FALSE, pending |-> FALSE, due |-> SB!Unset,
              tc |-> FALSE, anchored |-> FALSE, played |-> <<>>, raised |-> FALSE,
              channel |-> ch]
  BY DEF SB!Fresh
<1> HIDE DEF c, ch
<1>5. c \in SB!Card
  BY <1>1, <1>2, <1>3, <1>4 DEF SB!Card, SB!Command
<1>6. /\ c.needed = 0 /\ c.args = <<>> /\ c.cmd = "other" /\ c.blocklen = 0 /\ ~c.raised
      /\ c.played = <<>>
  BY <1>4
<1>7. Fed(c)
  BY <1>2, <1>6 DEF Fed, SB!Arguments
<1> QED BY <1>5, <1>6, <1>7, ForgottenInOrder DEF Plays, c

LEMMA FirstCardPlays == \A c \in FirstCard : Plays(c) /\ ~c.raised
<1>1. ASSUME NEW n \in Length, NEW count \in SB!Address
      PROVE  Plays(Streaming(n, count)) /\ ~Streaming(n, count).raised
  <2> DEFINE ch == [base |-> 0, count |-> count, cur |-> 0, auto |-> TRUE, high |-> FALSE]
             c == SB!Fresh(FALSE, FALSE)
             d == [c EXCEPT !.blocklen = n, !.channel = ch]
  <2>1. c \in SB!Card /\ Plays(c) /\ c.played = <<>> /\ ~c.raised /\ ~c.detection
    BY FreshPlays DEF Plays, SB!Fresh
  <2> HIDE DEF c
  <2>2. ch \in SB!Channel
    <3>1. 0 \in SB!Address
      BY ConstantFacts DEF SB!Address
    <3> QED BY <3>1 DEF SB!Channel
  <2> HIDE DEF ch
  <2>3. n \in Nat /\ n \in Samples
    BY SampleFacts
  <2>4. d \in SB!Card
    BY <2>1, <2>2, <2>3 DEF SB!Card
  <2>5. /\ d.needed = c.needed /\ d.args = c.args /\ d.cmd = c.cmd /\ d.blocklen = n
        /\ d.channel = ch /\ d.played = <<>> /\ ~d.raised /\ ~d.detection
    BY <2>1 DEF SB!Card
  <2>6. Streaming(n, count) = SB!StartDma(d, n)
    BY DEF Streaming, c, ch
  <2> HIDE DEF d
  <2>7. Plays(d)
    BY <2>1, <2>3, <2>4, <2>5, ForgottenInOrder DEF Plays, Fed
  <2>8. ~SB!StartDma(d, n).raised
    BY <2>4, <2>5 DEF SB!StartDma, SB!Card
  <2> QED BY <2>3, <2>6, <2>7, <2>8, StartDmaPlays
<1>2. \A s \in Streams : s[1] \in Length /\ s[2] \in SB!Address
  BY MachineConstants DEF SB!Address
<1> QED BY <1>1, <1>2, FreshPlays DEF FirstCard

-----------------------------------------------------------------------------
(* The machine: of the handlers under way only the innermost can owe the   *)
(* end of its interrupt, and what it owes is what is in service.           *)
InService(m) == IF m.stack = <<>> \/ Top(m).stage = "ended" THEN {} ELSE {Top(m).line}

Runs(m) == /\ m \in Machine /\ Plays(m.card) /\ ~m.card.raised
           /\ \A i \in 1..(Len(m.stack) - 1) : m.stack[i].stage = "ended"
           /\ m.isr = InService(m)

LEMMA SameRuns ==
    ASSUME NEW m, Runs(m), NEW n \in Machine, n.stack = m.stack, n.isr = m.isr,
           Plays(n.card), ~n.card.raised
    PROVE  Runs(n)
BY DEF Runs, InService, Top

(* One field set to a value of its type.                                   *)
LEMMA SetRuns ==
    ASSUME NEW m, Runs(m)
    PROVE  /\ \A v \in BOOLEAN : Runs([m EXCEPT !.flag = v])
           /\ \A v \in 0..(Decimation - 1) : Runs([m EXCEPT !.decim = v])
           /\ \A v \in BOOLEAN : Runs([m EXCEPT !.detached = v])
           /\ \A v \in SUBSET Line : Runs([m EXCEPT !.imr = v]) /\ Runs([m EXCEPT !.irr = v])
           /\ \A v \in [Line -> {"none", "stub", "handler"}] : Runs([m EXCEPT !.vector = v])
           /\ \A k \in Nat : Runs([m EXCEPT !.kbc = k])
           /\ \A k \in Nat, p \in BOOLEAN : Runs([m EXCEPT !.parameter = p, !.kbc = k])
           /\ \A v \in (-MaxLag)..Unarmed : Runs([m EXCEPT !.timer = v])
           /\ \A v \in BOOLEAN : Runs([m EXCEPT !.wall = v])
<1>1. m \in Machine /\ Plays(m.card) /\ ~m.card.raised
  BY DEF Runs
<1>2. ASSUME NEW v \in BOOLEAN
      PROVE  /\ Runs([m EXCEPT !.flag = v]) /\ Runs([m EXCEPT !.detached = v])
             /\ Runs([m EXCEPT !.wall = v])
  <2>1. /\ [m EXCEPT !.flag = v] \in Machine /\ [m EXCEPT !.detached = v] \in Machine
        /\ [m EXCEPT !.wall = v] \in Machine
    BY <1>1 DEF Machine
  <2>2. Runs([m EXCEPT !.flag = v])
    BY <1>1, <2>1, SameRuns DEF Machine
  <2>3. Runs([m EXCEPT !.detached = v])
    BY <1>1, <2>1, SameRuns DEF Machine
  <2>4. Runs([m EXCEPT !.wall = v])
    BY <1>1, <2>1, SameRuns DEF Machine
  <2> QED BY <2>2, <2>3, <2>4
<1>3. ASSUME NEW v \in 0..(Decimation - 1) PROVE Runs([m EXCEPT !.decim = v])
  <2>1. [m EXCEPT !.decim = v] \in Machine
    BY <1>1 DEF Machine
  <2> QED BY <1>1, <2>1, SameRuns DEF Machine
<1>4. ASSUME NEW v \in SUBSET Line
      PROVE  Runs([m EXCEPT !.imr = v]) /\ Runs([m EXCEPT !.irr = v])
  <2>1. [m EXCEPT !.imr = v] \in Machine /\ [m EXCEPT !.irr = v] \in Machine
    BY <1>1 DEF Machine
  <2>2. Runs([m EXCEPT !.imr = v])
    BY <1>1, <2>1, SameRuns DEF Machine
  <2>3. Runs([m EXCEPT !.irr = v])
    BY <1>1, <2>1, SameRuns DEF Machine
  <2> QED BY <2>2, <2>3
<1>5. ASSUME NEW v \in [Line -> {"none", "stub", "handler"}]
      PROVE  Runs([m EXCEPT !.vector = v])
  <2>1. [m EXCEPT !.vector = v] \in Machine
    BY <1>1 DEF Machine
  <2> QED BY <1>1, <2>1, SameRuns DEF Machine
<1>6. ASSUME NEW k \in Nat, NEW p \in BOOLEAN
      PROVE  Runs([m EXCEPT !.parameter = p, !.kbc = k]) /\ Runs([m EXCEPT !.kbc = k])
  <2>1. [m EXCEPT !.parameter = p, !.kbc = k] \in Machine /\ [m EXCEPT !.kbc = k] \in Machine
    BY <1>1 DEF Machine
  <2>2. Runs([m EXCEPT !.parameter = p, !.kbc = k])
    BY <1>1, <2>1, SameRuns DEF Machine
  <2>3. Runs([m EXCEPT !.kbc = k])
    BY <1>1, <2>1, SameRuns DEF Machine
  <2> QED BY <2>2, <2>3
<1>7. ASSUME NEW v \in (-MaxLag)..Unarmed PROVE Runs([m EXCEPT !.timer = v])
  <2>1. [m EXCEPT !.timer = v] \in Machine
    BY <1>1 DEF Machine
  <2> QED BY <1>1, <2>1, SameRuns DEF Machine
<1> QED BY <1>2, <1>3, <1>4, <1>5, <1>6, <1>7

LEMMA CardRuns ==
    ASSUME NEW m, Runs(m), NEW card, Plays(card), ~card.raised
    PROVE  Runs([m EXCEPT !.card = card])
<1>1. [m EXCEPT !.card = card] \in Machine
  BY DEF Runs, Plays, Machine
<1>2. m \in Machine
  BY DEF Runs
<1> QED BY <1>1, <1>2, SameRuns DEF Machine

LEMMA RaiseRuns ==
    ASSUME NEW m, Runs(m), NEW n \in Line
    PROVE  Runs(RaiseIrq(m, n))
<1>1. m.irr \in SUBSET Line
  BY DEF Runs, Machine
<1>2. m.irr \cup {n} \in SUBSET Line
  BY <1>1
<1> QED BY <1>2, SetRuns DEF RaiseIrq

LEMMA PlugRuns ==
    ASSUME NEW m, Runs(m), NEW card, Plays(card)
    PROVE  Runs(Plug(m, card))
<1> DEFINE quiet == [card EXCEPT !.raised = FALSE]
<1>1. Plays(quiet)
  BY LinePlays
<1>2. ~quiet.raised
  BY DEF Plays, SB!Card
<1> HIDE DEF quiet
<1>3. Runs([m EXCEPT !.card = quiet])
  BY <1>1, <1>2, CardRuns
<1>4. Runs(RaiseIrq([m EXCEPT !.card = quiet], Sound))
  BY <1>3, RaiseRuns DEF Line
<1> QED BY <1>3, <1>4 DEF Plug, quiet

(* The 8259 takes the lowest line.                                         *)
LEMMA LowestLine ==
    ASSUME NEW lines \in SUBSET Line, lines # {}
    PROVE  Lowest(lines) \in lines
<1>1. \E n \in lines : \A k \in lines : n <= k
  <2>0. \A k \in lines : k \in Nat
    BY DEF Line, Timer, Keyboard, Sound
  <2> QED BY <2>0, Least
<1> QED BY <1>1 DEF Lowest

(* An interrupt that is acknowledged meets no other in service: its        *)
(* handler is the only one to owe an end, or the host ends it.             *)
LEMMA AcknowledgeRuns ==
    ASSUME NEW m, Runs(m), Acknowledgeable(m) # {}
    PROVE  LET n == Lowest(Acknowledgeable(m))
               a == Acknowledge(m)
           IN  Runs(Deliver(a, n)) /\ Runs(Dismiss(a))
<1> DEFINE n == Lowest(Acknowledgeable(m))
           a == Acknowledge(m)
           frame == [line |-> n, stage |-> "entered"]
           entered == Append(m.stack, frame)
<1>1. m \in Machine /\ m.stack \in Seq(Frame)
  BY DEF Runs, Machine
<1>2. m.isr = {} /\ Acknowledgeable(m) \in SUBSET Line
  BY <1>1 DEF Acknowledgeable, Machine
<1>3. n \in Line
  BY <1>2, LowestLine
<1>4. a = [m EXCEPT !.irr = m.irr \ {n}, !.isr = {n}]
  BY <1>2 DEF Acknowledge
<1> HIDE DEF n, a
<1>5. frame \in Frame
  BY <1>3 DEF Frame
<1>6. m.stack = <<>> \/ Top(m).stage = "ended"
  BY <1>2 DEF Runs, InService
<1>e. Len(m.stack) \in Nat /\ (m.stack = <<>> <=> Len(m.stack) = 0)
  BY <1>1, LenProperties, EmptySeq
<1>7. /\ entered \in Seq(Frame) /\ Len(entered) = Len(m.stack) + 1
      /\ entered[Len(m.stack) + 1] = frame
      /\ \A i \in 1..Len(m.stack) : entered[i] = m.stack[i]
  BY <1>1, <1>5, AppendProperties
<1> HIDE DEF frame, entered
<1>8. \A i \in 1..Len(m.stack) : entered[i].stage = "ended"
  <2> SUFFICES ASSUME NEW i \in 1..Len(m.stack) PROVE m.stack[i].stage = "ended"
    BY <1>7
  <2>1. CASE i = Len(m.stack)
    BY <1>6, <1>e, <2>1 DEF Top
  <2>2. CASE i # Len(m.stack)
    <3>1. i \in 1..(Len(m.stack) - 1)
      BY <1>e, <2>2
    <3> QED BY <3>1 DEF Runs
  <2> QED BY <2>1, <2>2
<1>9. Runs(Deliver(a, n))
  <2> DEFINE d == Deliver(a, n)
  <2>1. d = [m EXCEPT !.irr = m.irr \ {n}, !.isr = {n}, !.stack = entered, !.flag = FALSE]
    BY <1>1, <1>4 DEF Deliver, entered, frame, Machine
  <2> HIDE DEF d
  <2>2. d \in Machine /\ d.card = m.card /\ d.stack = entered /\ d.isr = {n}
    BY <1>1, <1>3, <1>7, <2>1 DEF Machine
  <2>3. \A i \in 1..(Len(d.stack) - 1) : d.stack[i].stage = "ended"
    <3>1. Len(d.stack) - 1 = Len(m.stack)
      BY <1>7, <1>e, <2>2
    <3> QED BY <1>8, <2>2, <3>1
  <2>4. d.stack # <<>> /\ Top(d) = frame
    <3>1. Len(d.stack) # 0
      BY <1>7, <1>e, <2>2
    <3> QED BY <1>7, <2>2, <3>1 DEF Top
  <2>5. InService(d) = {n}
    BY <2>4 DEF InService, frame
  <2> QED BY <2>2, <2>3, <2>5 DEF Runs, d
<1>10. Runs(Dismiss(a))
  <2> DEFINE irr == m.irr \ {n}
  <2>1. Lowest({n}) = n
    <3>1. {n} \in SUBSET Line /\ {n} # {}
      BY <1>3
    <3> QED BY <3>1, LowestLine
  <2>2. a.isr = {n}
    BY <1>1, <1>4 DEF Machine
  <2>3. Dismiss(a) = [a EXCEPT !.isr = {}]
    BY <2>1, <2>2 DEF Dismiss, Eoi
  <2>4. Dismiss(a) = [m EXCEPT !.irr = irr]
    BY <1>1, <1>2, <1>4, <2>3 DEF Machine
  <2>5. irr \in SUBSET Line
    BY <1>1 DEF Machine
  <2> HIDE DEF irr
  <2>6. \A v \in SUBSET Line : Runs([m EXCEPT !.irr = v])
    BY SetRuns
  <2> QED BY <2>4, <2>5, <2>6
<1> QED BY <1>9, <1>10 DEF n, a

LEMMA TimerTypes ==
    /\ Never \in Nat /\ Unarmed \in Nat /\ TimerPeriod \in Nat \ {0} /\ MaxLag \in Nat
    /\ Never = TimerPeriod + 1 /\ Unarmed = TimerPeriod + 2
BY ConstantFacts DEF Never, Unarmed

LEMMA RequestsRuns ==
    ASSUME NEW m, Runs(m)
    PROVE  Runs(Requests(m))
<1>1. ASSUME NEW r, Runs(r) PROVE Runs(ServiceCard(r))
  BY <1>1, LinePlays, PlugRuns DEF ServiceCard, Runs
<1>2. ASSUME NEW r, Runs(r) PROVE Runs(ServiceKeyboard(r))
  BY <1>2, RaiseRuns DEF ServiceKeyboard, Line
<1>3. ASSUME NEW r, Runs(r) PROVE Runs(ServiceTimer(r))
  <2> DEFINE armed == IF r.timer = Unarmed THEN TimerPeriod ELSE r.timer
  <2>1. armed \in (-MaxLag)..Unarmed
    BY <1>3, TimerTypes DEF Runs, Machine
  <2> HIDE DEF armed
  <2>2. armed <= 0 => armed + TimerPeriod \in (-MaxLag)..Unarmed
    BY <2>1, TimerTypes
  <2>3. Runs([r EXCEPT !.timer = armed])
    BY <1>3, <2>1, SetRuns
  <2>4. armed <= 0 => Runs(RaiseIrq([r EXCEPT !.timer = armed + TimerPeriod], Timer))
    <3>1. ASSUME armed <= 0 PROVE Runs([r EXCEPT !.timer = armed + TimerPeriod])
      BY <1>3, <2>2, <3>1, SetRuns
    <3> QED BY <3>1, RaiseRuns DEF Line
  <2> QED BY <1>3, <2>3, <2>4 DEF ServiceTimer, armed
<1> QED BY <1>1, <1>2, <1>3 DEF Requests

LEMMA PollRuns ==
    ASSUME NEW m, Runs(m)
    PROVE  Runs(Poll(m))
<1>1. m.decim \in 0..(Decimation - 1) /\ Decimation \in Nat \ {0}
  BY ConstantFacts DEF Runs, Machine
<1>s. \A v \in 0..(Decimation - 1) : Runs([m EXCEPT !.decim = v])
  BY SetRuns
<1>2. Runs([m EXCEPT !.decim = 0])
  <2>1. 0 \in 0..(Decimation - 1)
    BY <1>1
  <2> QED BY <1>s, <2>1
<1>3. m.decim + 1 < Decimation => Runs([m EXCEPT !.decim = m.decim + 1])
  <2>1. m.decim + 1 < Decimation => m.decim + 1 \in 0..(Decimation - 1)
    BY <1>1
  <2> QED BY <1>s, <2>1
<1>4. ASSUME NEW q, Runs(q) PROVE Runs(PendingIrq(q))
  BY <1>4, RequestsRuns, AcknowledgeRuns DEF PendingIrq
<1> QED BY <1>2, <1>3, <1>4 DEF Poll

LEMMA TickRuns ==
    ASSUME NEW m, Runs(m)
    PROVE  Runs(Tick(m))
<1> DEFINE timer == IF m.timer \in {Never, Unarmed} \/ m.timer = -MaxLag THEN m.timer
                    ELSE m.timer - 1
           card == IF m.wall THEN m.card ELSE SB!Advance(m.card)
<1>1. m.timer \in (-MaxLag)..Unarmed
  BY DEF Runs, Machine
<1>2. timer \in (-MaxLag)..Unarmed
  BY <1>1, TimerTypes
<1>3. Plays(card) /\ ~card.raised
  <2>1. Plays(SB!Advance(m.card)) /\ Plays(m.card)
    BY LinePlays DEF Runs
  <2>2. ~SB!Advance(m.card).raised /\ ~m.card.raised
    BY DEF Runs, SB!Advance, Plays, SB!Card
  <2> QED BY <2>1, <2>2
<1>4. Tick(m) = [[m EXCEPT !.timer = timer] EXCEPT !.card = card]
  BY DEF Tick, Runs, Machine
<1> HIDE DEF timer, card
<1>5. Runs([m EXCEPT !.timer = timer])
  BY <1>2, SetRuns
<1> QED BY ZenonT(40), <1>3, <1>4, <1>5, CardRuns

(* What a handler does to the innermost frame.                             *)
LEMMA TopFrame ==
    ASSUME NEW m, Runs(m), m.stack # <<>>
    PROVE  /\ Len(m.stack) \in Nat \ {0} /\ m.stack \in Seq(Frame)
           /\ Top(m) \in Frame /\ Top(m) = m.stack[Len(m.stack)]
<1>1. m.stack \in Seq(Frame)
  BY DEF Runs, Machine
<1>2. Len(m.stack) \in Nat \ {0}
  BY <1>1, EmptySeq
<1>3. m.stack[Len(m.stack)] \in Frame
  BY <1>1, <1>2, ElementOfSeq
<1> QED BY <1>1, <1>2, <1>3 DEF Top

LEMMA AdvancedFacts ==
    ASSUME NEW m, Runs(m), m.stack # <<>>,
           NEW stage \in {"entered", "served", "refilled", "ended"}
    PROVE  LET a == Advanced(m, stage)
           IN  /\ a \in Machine /\ a.card = m.card /\ a.isr = m.isr /\ a.stack # <<>>
               /\ Len(a.stack) = Len(m.stack)
               /\ \A i \in 1..(Len(a.stack) - 1) : a.stack[i].stage = "ended"
               /\ Top(a).stage = stage /\ Top(a).line = Top(m).line
<1> DEFINE k == Len(m.stack)
           top == [Top(m) EXCEPT !.stage = stage]
           stack == [m.stack EXCEPT ![k] = top]
           a == Advanced(m, stage)
<1>1. k \in Nat \ {0} /\ m.stack \in Seq(Frame) /\ Top(m) \in Frame
  BY TopFrame
<1>2. top \in Frame /\ top.stage = stage /\ top.line = Top(m).line
  BY <1>1 DEF Frame
<1>3. m \in Machine
  BY DEF Runs
<1>4. a = [m EXCEPT !.stack = stack]
  BY DEF Advanced, Top
<1> HIDE DEF top
<1>5. k \in 1..k
  BY <1>1
<1> HIDE DEF k
<1>6. /\ stack \in Seq(Frame) /\ Len(stack) = k
      /\ \A j \in 1..k : stack[j] = IF j = k THEN top ELSE m.stack[j]
  BY <1>1, <1>2, <1>5, ExceptSeq DEF k
<1> HIDE DEF stack, a
<1>7. a \in Machine /\ a.card = m.card /\ a.isr = m.isr /\ a.stack = stack
  BY <1>3, <1>4, <1>6 DEF Machine
<1>8. stack # <<>>
  BY <1>1, <1>6
<1>9. Top(a) = top
  BY <1>5, <1>6, <1>7 DEF Top
<1>10. \A i \in 1..(k - 1) : stack[i].stage = "ended"
  <2> SUFFICES ASSUME NEW i \in 1..(k - 1) PROVE stack[i].stage = "ended"
    OBVIOUS
  <2>1. stack[i] = m.stack[i]
    BY <1>1, <1>6
  <2> QED BY <2>1 DEF Runs, k
<1> QED BY <1>2, <1>6, <1>7, <1>8, <1>9, <1>10 DEF a, k

(* A handler that has not ended its interrupt goes on owing it ...         *)
LEMMA AdvancedRuns ==
    ASSUME NEW m, Runs(m), m.stack # <<>>, Top(m).stage # "ended",
           NEW stage \in {"served", "refilled"}
    PROVE  Runs(Advanced(m, stage))
<1>1. m.isr = {Top(m).line} /\ Plays(m.card) /\ ~m.card.raised
  BY DEF Runs, InService
<1> DEFINE a == Advanced(m, stage)
<1>2. /\ a \in Machine /\ a.card = m.card /\ a.isr = m.isr /\ a.stack # <<>>
      /\ \A i \in 1..(Len(a.stack) - 1) : a.stack[i].stage = "ended"
      /\ Top(a).stage = stage /\ Top(a).line = Top(m).line
  BY AdvancedFacts
<1> HIDE DEF a
<1> QED BY <1>1, <1>2 DEF Runs, InService, a

(* ... until it ends it: the interrupt in service is its own.              *)
LEMMA EndedRuns ==
    ASSUME NEW m, Runs(m), m.stack # <<>>, Top(m).stage # "ended"
    PROVE  Runs(Eoi(Advanced(m, "ended")))
<1> DEFINE n == Top(m).line
           a == Advanced(m, "ended")
<1>1. m.isr = {n} /\ Plays(m.card) /\ ~m.card.raised
  BY DEF Runs, InService
<1>2. /\ a \in Machine /\ a.card = m.card /\ a.isr = m.isr /\ a.stack # <<>>
      /\ \A i \in 1..(Len(a.stack) - 1) : a.stack[i].stage = "ended"
      /\ Top(a).stage = "ended"
  BY AdvancedFacts
<1>3. Lowest({n}) = n
  <2>1. n \in Line
    BY TopFrame DEF Frame
  <2>2. {n} \in SUBSET Line /\ {n} # {}
    BY <2>1
  <2> QED BY <2>2, LowestLine
<1> HIDE DEF a, n
<1>4. Eoi(a) = [a EXCEPT !.isr = {}]
  BY <1>1, <1>2, <1>3 DEF Eoi
<1>5. /\ Eoi(a) \in Machine /\ Eoi(a).card = a.card /\ Eoi(a).isr = {}
      /\ Eoi(a).stack = a.stack
  BY <1>2, <1>4 DEF Machine
<1>6. InService(Eoi(a)) = {}
  BY <1>2, <1>5 DEF InService, Top
<1> QED BY <1>1, <1>2, <1>5, <1>6 DEF Runs, a

(* What is left after a return are handlers that have ended theirs.        *)
LEMMA ReturnedRuns ==
    ASSUME NEW m, Runs(m), m.stack # <<>>, Top(m).stage = "ended"
    PROVE  Runs([m EXCEPT !.stack = SubSeq(m.stack, 1, Len(m.stack) - 1), !.flag = TRUE])
<1> DEFINE k == Len(m.stack) - 1
           stack == SubSeq(m.stack, 1, k)
           r == [m EXCEPT !.stack = stack, !.flag = TRUE]
<1>1. k \in Nat /\ m.stack \in Seq(Frame) /\ Len(m.stack) = k + 1
  BY TopFrame
<1> HIDE DEF k
<1>2. \A i \in 1..k : m.stack[i] \in Frame /\ m.stack[i].stage = "ended"
  BY <1>1, ElementOfSeq DEF Runs, k
<1>3. /\ stack \in Seq(Frame) /\ Len(stack) = k
      /\ \A i \in 1..k : stack[i] = m.stack[i]
  <2>1. 1 \in Int /\ k \in Int
    BY <1>1
  <2>2. /\ stack \in Seq(Frame) /\ Len(stack) = IF 1 <= k THEN k - 1 + 1 ELSE 0
        /\ \A i \in 1..(k - 1 + 1) : stack[i] = m.stack[1 + i - 1]
    BY <1>2, <2>1, SubSeqProperties
  <2> HIDE DEF stack
  <2>3. ASSUME NEW i \in 1..k PROVE stack[i] = m.stack[i]
    <3>1. i \in 1..(k - 1 + 1) /\ 1 + i - 1 = i
      BY <1>1
    <3> QED BY <2>2, <3>1
  <2> QED BY <1>1, <2>2, <2>3
<1>4. m \in Machine /\ m.isr = {} /\ Plays(m.card) /\ ~m.card.raised
  BY DEF Runs, InService
<1> HIDE DEF stack
<1>5. /\ r \in Machine /\ r.card = m.card /\ r.isr = {} /\ r.stack = stack
  BY <1>3, <1>4 DEF Machine
<1> HIDE DEF r
<1>6. InService(r) = {}
  <2>1. CASE k = 0
    BY <1>3, <1>5, <2>1, LenProperties DEF InService
  <2>2. CASE k # 0
    <3>1. k \in 1..k /\ Top(r) = stack[k]
      BY <1>1, <1>3, <1>5, <2>2 DEF Top
    <3>2. Top(r).stage = "ended"
      BY <1>2, <1>3, <3>1
    <3> QED BY <3>2 DEF InService
  <2> QED BY <2>1, <2>2
<1>7. \A i \in 1..(Len(r.stack) - 1) : r.stack[i].stage = "ended"
  <2> SUFFICES ASSUME NEW i \in 1..(k - 1) PROVE stack[i].stage = "ended"
    BY <1>3, <1>5
  <2>1. i \in 1..k
    BY <1>1
  <2> QED BY <1>2, <1>3, <2>1
<1> QED BY <1>4, <1>5, <1>6, <1>7 DEF Runs, r, stack, k

-----------------------------------------------------------------------------
(* Every step of the specification.                                        *)

LEMMA InitRuns == ASSUME Init PROVE Runs(live)
<1>1. PICK timer \in {Never, Unarmed}, card \in FirstCard :
        live = [flag |-> TRUE, decim |-> 0, detached |-> FALSE,
                imr |-> {}, irr |-> {}, isr |-> {},
                vector |-> [n \in Line |-> "handler"],
                stack |-> <<>>, kbc |-> 0, parameter |-> FALSE,
                timer |-> timer, wall |-> FALSE, card |-> card]
  BY DEF Init
<1>2. Plays(card) /\ ~card.raised /\ card \in SB!Card
  BY FirstCardPlays DEF Plays
<1>3. /\ timer \in (-MaxLag)..Unarmed /\ 0 \in 0..(Decimation - 1)
  BY TimerTypes, ConstantFacts
<1>4. <<>> \in Seq(Frame) /\ Len(<<>>) = 0
  OBVIOUS
<1>5. live \in Machine
  BY <1>1, <1>2, <1>3, <1>4 DEF Machine
<1>6. live.stack = <<>> /\ live.isr = {} /\ live.card = card
  BY <1>1
<1>7. InService(live) = {}
  BY <1>6 DEF InService
<1>8. \A i \in 1..(Len(live.stack) - 1) : live.stack[i].stage = "ended"
  BY <1>4, <1>6
<1> QED BY <1>2, <1>5, <1>6, <1>7, <1>8 DEF Runs

(* The effects of the main line's instructions.                            *)
LEMMA KeyboardRuns ==
    ASSUME NEW m, Runs(m)
    PROVE  /\ \A command : Runs(KeyboardWrite(m, command))
           /\ Runs(KeyboardRead(m))
<1>1. m.kbc \in Nat /\ m.parameter \in BOOLEAN
  BY DEF Runs, Machine
<1>2. ASSUME NEW k \in Nat, NEW p \in BOOLEAN
      PROVE  Runs([m EXCEPT !.parameter = p, !.kbc = k]) /\ Runs([m EXCEPT !.kbc = k])
  BY SetRuns
<1>3. /\ m.kbc + 1 \in Nat /\ m.kbc + 2 \in Nat /\ m.kbc + 3 \in Nat
      /\ (IF m.kbc = 0 THEN m.kbc ELSE m.kbc - 1) \in Nat
  BY <1>1
<1>4. Runs(KeyboardRead(m))
  BY <1>2, <1>3 DEF KeyboardRead
<1>5. ASSUME NEW command PROVE Runs(KeyboardWrite(m, command))
  BY <1>2, <1>3 DEF KeyboardWrite
<1> QED BY <1>4, <1>5

LEMMA StrayEoiRuns ==
    ASSUME NEW m, Runs(m), m.stack = <<>>
    PROVE  Runs(Eoi(m))
<1>1. m.isr = {} /\ m \in Machine
  BY DEF Runs, InService
<1>2. Eoi(m) = [m EXCEPT !.isr = m.isr]
  BY <1>1 DEF Eoi
<1>3. Eoi(m) = m
  BY <1>1, <1>2 DEF Machine
<1> QED BY <1>3

LEMMA VectorRuns ==
    ASSUME NEW m, Runs(m), NEW v \in Vectors
    PROVE  Runs([m EXCEPT !.vector[v[1]] = v[2]])
<1> DEFINE vector == [m.vector EXCEPT ![v[1]] = v[2]]
<1>1. m.vector \in [Line -> {"none", "stub", "handler"}] /\ m \in Machine
  BY DEF Runs, Machine
<1>2. v[1] \in Line /\ v[2] \in {"none", "stub", "handler"}
  BY ProgramConstants
<1>3. vector \in [Line -> {"none", "stub", "handler"}]
  BY <1>1, <1>2
<1>4. [m EXCEPT !.vector[v[1]] = v[2]] = [m EXCEPT !.vector = vector]
  OBVIOUS
<1> HIDE DEF vector
<1> QED BY <1>3, <1>4, SetRuns

LEMMA MainRuns ==
    ASSUME Runs(live),
           \/ Nop \/ Cli \/ Sti \/ StrayEoi \/ EnterCall \/ LeaveCall
           \/ \E lines \in Masks : MaskLines(lines)
           \/ \E v \in Vectors : SetVector(v[1], v[2])
           \/ \E command \in {"set", "identify", "reset", "other"} : CommandKeyboard(command)
    PROVE  Runs(live')
<1> DEFINE p == Poll(live)
<1>1. Runs(p)
  BY PollRuns
<1>2. ASSUME NEW e, Runs(e) PROVE Runs(Tick(e))
  BY <1>2, TickRuns
<1>3. CASE Nop
  <2>1. live' = Tick(p)
    BY <1>3 DEF Nop, Execute, Outside
  <2> QED BY <1>1, <1>2, <2>1
<1>4. CASE Cli
  <2>1. live' = Tick([p EXCEPT !.flag = FALSE])
    BY <1>4 DEF Cli, Execute, Outside
  <2> HIDE DEF p
  <2>2. Runs([p EXCEPT !.flag = FALSE])
    BY <1>1, SetRuns
  <2> QED BY <1>2, <2>1, <2>2
<1>5. CASE Sti
  <2>1. live' = Tick([p EXCEPT !.flag = TRUE])
    BY <1>5 DEF Sti, Execute, Outside
  <2> HIDE DEF p
  <2>2. Runs([p EXCEPT !.flag = TRUE])
    BY <1>1, SetRuns
  <2> QED BY <1>2, <2>1, <2>2
<1>6. CASE StrayEoi
  <2>1. live' = Tick(Eoi(p)) /\ p.stack = <<>>
    BY <1>6 DEF StrayEoi, Main, Execute, Outside
  <2> HIDE DEF p
  <2>2. Runs(Eoi(p))
    BY <1>1, <2>1, StrayEoiRuns
  <2> QED BY <1>2, <2>1, <2>2
<1>7. CASE EnterCall
  <2>1. live' = Tick([p EXCEPT !.detached = TRUE])
    BY <1>7 DEF EnterCall, Execute, Outside
  <2> HIDE DEF p
  <2>2. Runs([p EXCEPT !.detached = TRUE])
    BY <1>1, SetRuns
  <2> QED BY <1>2, <2>1, <2>2
<1>8. CASE LeaveCall
  <2>1. live' = Tick([p EXCEPT !.detached = FALSE])
    BY <1>8 DEF LeaveCall, Execute, Outside
  <2> HIDE DEF p
  <2>2. Runs([p EXCEPT !.detached = FALSE])
    BY <1>1, SetRuns
  <2> QED BY <1>2, <2>1, <2>2
<1>9. ASSUME NEW lines \in Masks, MaskLines(lines) PROVE Runs(live')
  <2>1. live' = Tick([p EXCEPT !.imr = lines])
    BY <1>9 DEF MaskLines, Execute, Outside
  <2> HIDE DEF p
  <2>2. lines \in SUBSET Line
    BY ProgramConstants
  <2>3. Runs([p EXCEPT !.imr = lines])
    BY <1>1, <2>2, SetRuns
  <2> QED BY <1>2, <2>1, <2>3
<1>10. ASSUME NEW v \in Vectors, SetVector(v[1], v[2]) PROVE Runs(live')
  <2>1. live' = Tick([p EXCEPT !.vector[v[1]] = v[2]])
    BY <1>10 DEF SetVector, Execute, Outside
  <2> HIDE DEF p
  <2>2. Runs([p EXCEPT !.vector[v[1]] = v[2]])
    BY <1>1, VectorRuns
  <2> QED BY <1>2, <2>1, <2>2
<1>11. ASSUME NEW command, CommandKeyboard(command) PROVE Runs(live')
  <2>1. live' = Tick(KeyboardWrite(p, command))
    BY <1>11 DEF CommandKeyboard, Execute, Outside
  <2> HIDE DEF p
  <2>2. Runs(KeyboardWrite(p, command))
    BY <1>1, KeyboardRuns
  <2> QED BY <1>2, <2>1, <2>2
<1> QED BY <1>3, <1>4, <1>5, <1>6, <1>7, <1>8, <1>9, <1>10, <1>11

LEMMA DeviceRuns ==
    ASSUME Runs(live),
           \/ ReadDsp
           \/ \E command \in DspCommand, n \in Length : WriteDsp(command, n)
           \/ \E bit \in BOOLEAN : ResetDsp(bit)
           \/ \E register \in Register, byte \in Bytes : ProgramChannel(register, byte)
    PROVE  Runs(live')
<1> DEFINE p == Poll(live)
<1>1. Runs(p) /\ Plays(p.card)
  BY PollRuns DEF Runs
<1>2. ASSUME NEW card, Plays(card) PROVE Runs(Tick(Plug(p, card)))
  <2> HIDE DEF p
  <2> QED BY <1>1, <1>2, PlugRuns, TickRuns
<1>3. CASE ReadDsp
  <2>1. live' = Tick(Plug(p, SB!ReadData(p.card)))
    BY <1>3 DEF ReadDsp, OnCard, Execute, Outside
  <2> HIDE DEF p
  <2> QED BY <1>1, <1>2, <2>1, LinePlays
<1>4. ASSUME NEW command \in DspCommand, NEW n \in Length, WriteDsp(command, n)
      PROVE  Runs(live')
  <2>1. live' = Tick(Plug(p, SB!Feed(p.card, command, n)))
    BY <1>4 DEF WriteDsp, OnCard, Execute, Outside
  <2> HIDE DEF p
  <2>2. command \in SB!Command /\ n \in Samples
    BY SampleFacts DEF DspCommand, SB!Command
  <2> QED BY <1>1, <1>2, <2>1, <2>2, FeedPlays
<1>5. ASSUME NEW bit \in BOOLEAN, ResetDsp(bit) PROVE Runs(live')
  <2>1. live' = Tick(Plug(p, SB!Reset(p.card, bit)))
    BY <1>5 DEF ResetDsp, OnCard, Execute, Outside
  <2> HIDE DEF p
  <2> QED BY <1>1, <1>2, <2>1, LinePlays
<1>6. ASSUME NEW register \in Register, NEW byte \in Bytes, ProgramChannel(register, byte)
      PROVE  Runs(live')
  <2> DEFINE Written(c) == CASE register = "address" -> SB!WriteAddress(c, byte)
                             [] register = "count" -> SB!WriteCount(c, byte)
                             [] register = "mode" -> SB!WriteMode(c, byte = 1)
                             [] register = "flipflop" -> SB!ClearFlipFlop(c)
                             [] register = "status" -> SB!StatusRead(c)
  <2>1. live' = Tick(Plug(p, Written(p.card)))
    BY <1>6 DEF ProgramChannel, OnCard, Execute, Outside
  <2> HIDE DEF p
  <2>2. byte \in 0..(Half - 1) /\ (byte = 1) \in BOOLEAN
    BY MachineConstants
  <2>3. /\ Plays(SB!WriteAddress(p.card, byte)) /\ Plays(SB!WriteCount(p.card, byte))
        /\ Plays(SB!WriteMode(p.card, byte = 1)) /\ Plays(SB!ClearFlipFlop(p.card))
        /\ Plays(SB!StatusRead(p.card))
    BY <1>1, <2>2, ChannelPlays, LinePlays
  <2>4. Plays(Written(p.card))
    BY <2>3 DEF Register
  <2> HIDE DEF Written
  <2> QED BY <1>2, <2>1, <2>4
<1> QED BY <1>3, <1>4, <1>5, <1>6

LEMMA HandlerRuns ==
    ASSUME Runs(live), Handler
    PROVE  Runs(live')
<1> DEFINE p == Poll(live)
<1>1. Runs(p)
  BY PollRuns
<1>2. ASSUME NEW e, Runs(e) PROVE Runs(Tick(e))
  BY <1>2, TickRuns
<1>3. ASSUME NEW stage, Handling(stage) PROVE p.stack # <<>> /\ Top(p).stage = stage
  BY <1>3 DEF Handling, Top
<1>4. CASE Serve
  <2> DEFINE s == Advanced(p, "served")
             e == CASE Top(p).line = Keyboard -> KeyboardRead(s)
                    [] Top(p).line = Sound -> Plug(s, SB!ReadStatus(s.card))
                    [] OTHER -> s
  <2>1. live' = Tick(e) /\ p.stack # <<>> /\ Top(p).stage = "entered"
    BY <1>3, <1>4 DEF Serve, Execute, Outside
  <2> HIDE DEF p
  <2>2. Runs(s)
    BY <1>1, <2>1, AdvancedRuns
  <2> HIDE DEF s
  <2>3. Runs(KeyboardRead(s)) /\ Runs(Plug(s, SB!ReadStatus(s.card)))
    BY <2>2, KeyboardRuns, PlugRuns, LinePlays DEF Runs
  <2>4. Runs(e)
    BY <2>2, <2>3
  <2> HIDE DEF e
  <2> QED BY <1>2, <2>1, <2>4
<1>5. CASE NextBlock
  <2> DEFINE a == Advanced(p, "refilled")
  <2>1. /\ live' = Tick(Plug(a, SB!Feed(a.card, "autoinit", 1)))
        /\ p.stack # <<>> /\ Top(p).stage = "served"
    BY <1>3, <1>5 DEF NextBlock, Execute, Outside
  <2> HIDE DEF p
  <2>2. Runs(a)
    BY <1>1, <2>1, AdvancedRuns
  <2> HIDE DEF a
  <2>3. Plays(SB!Feed(a.card, "autoinit", 1))
    BY <2>2, SampleFacts, FeedPlays DEF Runs, SB!Command
  <2> QED BY <1>2, <2>1, <2>2, <2>3, PlugRuns
<1>6. CASE LetIn
  <2>1. live' = Tick([p EXCEPT !.flag = TRUE])
    BY <1>6 DEF LetIn, Execute, Outside
  <2> HIDE DEF p
  <2>2. Runs([p EXCEPT !.flag = TRUE])
    BY <1>1, SetRuns
  <2> QED BY <1>2, <2>1, <2>2
<1>7. CASE EndInterrupt
  <2>1. /\ live' = Tick(Eoi(Advanced(p, "ended")))
        /\ p.stack # <<>> /\ Top(p).stage # "ended"
    BY <1>3, <1>7 DEF EndInterrupt, Execute, Outside
  <2> HIDE DEF p
  <2>2. Runs(Eoi(Advanced(p, "ended")))
    BY <1>1, <2>1, EndedRuns
  <2> QED BY <1>2, <2>1, <2>2
<1>8. CASE Iret
  <2> DEFINE r == [p EXCEPT !.stack = SubSeq(p.stack, 1, Len(p.stack) - 1), !.flag = TRUE]
  <2>1. live' = Tick(r) /\ p.stack # <<>> /\ Top(p).stage = "ended"
    BY <1>3, <1>8 DEF Iret, Execute, Outside
  <2> HIDE DEF p
  <2>2. Runs(r)
    BY <1>1, <2>1, ReturnedRuns
  <2> HIDE DEF r
  <2> QED BY <1>2, <2>1, <2>2
<1> QED BY <1>4, <1>5, <1>6, <1>7, <1>8 DEF Handler

LEMMA OutsideRuns ==
    ASSUME Runs(live),
           \/ Press \/ WallTick \/ Snapshot
           \/ \E deterministic \in BOOLEAN : SetSoundClock(deterministic)
    PROVE  Runs(live')
<1>1. CASE Press
  <2>1. live' = [live EXCEPT !.kbc = live.kbc + 1]
    BY <1>1 DEF Press, Outside
  <2>2. live.kbc + 1 \in Nat
    BY DEF Runs, Machine
  <2>3. \A k \in Nat : Runs([live EXCEPT !.kbc = k])
    BY SetRuns
  <2> QED BY <2>1, <2>2, <2>3
<1>2. CASE WallTick
  <2>1. live' = [live EXCEPT !.card = SB!Advance(live.card)]
    BY <1>2 DEF WallTick, Outside
  <2>2. Plays(SB!Advance(live.card)) /\ Plays(live.card)
    BY LinePlays DEF Runs
  <2>3. ~SB!Advance(live.card).raised
    BY <2>2 DEF Runs, SB!Advance, Plays, SB!Card
  <2> QED BY <2>1, <2>2, <2>3, CardRuns
<1>3. CASE Snapshot
  BY <1>3 DEF Snapshot
<1>4. ASSUME NEW deterministic \in BOOLEAN, SetSoundClock(deterministic)
      PROVE  Runs(live')
  <2> DEFINE n == CHOOSE n \in Length : TRUE
             switched == [live.card EXCEPT !.anchored = ~deterministic]
             card == SB!Resync(switched, n)
  <2>1. live' = [[live EXCEPT !.wall = ~deterministic] EXCEPT !.card = card]
    BY <1>4 DEF SetSoundClock, Outside, Switched, Runs, Machine
  <2>2. n \in Length
    BY MachineConstants
  <2> HIDE DEF n
  <2>3. Plays(switched) /\ ~switched.raised
    <3>1. Plays(live.card) /\ (~deterministic) \in BOOLEAN
      BY DEF Runs
    <3>2. ~switched.raised
      BY <3>1 DEF Runs, Plays, SB!Card
    <3> QED BY <3>1, <3>2, LinePlays
  <2> HIDE DEF switched
  <2>4. Plays(card) /\ ~card.raised
    <3>1. ~card.raised
      BY <2>3 DEF SB!Resync, Plays, SB!Card
    <3> QED BY <2>2, <2>3, <3>1, LinePlays
  <2> HIDE DEF card
  <2>5. Runs([live EXCEPT !.wall = ~deterministic])
    <3>1. (~deterministic) \in BOOLEAN
      OBVIOUS
    <3>2. \A v \in BOOLEAN : Runs([live EXCEPT !.wall = v])
      BY SetRuns
    <3> QED BY <3>1, <3>2
  <2> QED BY <2>1, <2>4, <2>5, CardRuns
<1> QED BY <1>1, <1>2, <1>3, <1>4

LEMMA NextRuns == ASSUME Runs(live), [Next]_vars PROVE Runs(live')
<1>1. CASE Next
  BY <1>1, MainRuns, DeviceRuns, HandlerRuns, OutsideRuns DEF Next, Program
<1>2. CASE UNCHANGED vars
  BY <1>2 DEF vars
<1> QED BY <1>1, <1>2

LEMMA SpecRuns == Spec => []Runs(live)
<1>1. Init => Runs(live)
  BY InitRuns
<1>2. Runs(live) /\ [Next]_vars => Runs(live)'
  BY NextRuns DEF Runs
<1> QED BY <1>1, <1>2, PTL DEF Spec

(* The 8259 and the stack of handlers agree, in every state of every       *)
(* program: what is in service is owed by the one handler that has not     *)
(* ended its interrupt, and nothing is in service when there is none.      *)
LEMMA RunsOwed == ASSUME Runs(live) PROVE InServiceOwed
<1> DEFINE s == live.stack
<1>1. live.isr = InService(live) /\ s \in Seq(Frame)
  BY DEF Runs, Machine
<1>2. Owed(live) = {s[i].line : i \in {i \in 1..Len(s) : s[i].stage # "ended"}}
  <2>1. DOMAIN s = 1..Len(s)
    BY <1>1, LenProperties
  <2> QED BY <2>1 DEF Owed
<1>3. \A i \in 1..(Len(s) - 1) : s[i].stage = "ended"
  BY DEF Runs
<1>4. CASE s = <<>>
  <2>1. Len(s) = 0
    BY <1>4
  <2>2. Owed(live) = {} /\ live.isr = {}
    BY <1>1, <1>2, <1>4, <2>1 DEF InService
  <2>3. Cardinality({}) = 0
    BY FS_EmptySet
  <2> QED BY <2>2, <2>3 DEF InServiceOwed
<1>5. CASE s # <<>>
  <2>1. Len(s) \in Nat \ {0} /\ Top(live) = s[Len(s)]
    BY <1>5, TopFrame
  <2> HIDE DEF s
  <2>2. \A i \in 1..Len(s) : s[i].stage # "ended" => i = Len(s)
    BY <1>3, <2>1
  <2>3. CASE Top(live).stage = "ended"
    <3>1. Owed(live) = {} /\ live.isr = {}
      BY <1>1, <1>2, <2>1, <2>2, <2>3 DEF InService
    <3>2. Cardinality({}) = 0
      BY FS_EmptySet
    <3> QED BY <3>1, <3>2 DEF InServiceOwed
  <2>4. CASE Top(live).stage # "ended"
    <3>1. live.isr = {Top(live).line}
      BY <1>1, <1>5, <2>4 DEF InService, s
    <3>2. Owed(live) = {s[Len(s)].line}
      <4>1. {i \in 1..Len(s) : s[i].stage # "ended"} = {Len(s)}
        BY <2>1, <2>2, <2>4
      <4> QED BY <1>2, <4>1
    <3>3. Cardinality({Top(live).line}) = 1
      BY FS_Singleton
    <3> QED BY <2>1, <3>1, <3>2, <3>3 DEF InServiceOwed
  <2> QED BY <2>3, <2>4
<1> QED BY <1>4, <1>5

(* No line is left in service without the innermost handler owing its end, *)
(* and no two at once: nothing a program, its user, the clock or a         *)
(* snapshot does blocks the lines behind one that nobody will end.         *)
THEOREM ServiceOwed == Spec => []InServiceOwed
<1>1. Runs(live) => InServiceOwed
  BY RunsOwed
<1> QED BY <1>1, SpecRuns, PTL

(* The blocks follow each other around the buffer, whatever the program    *)
(* asks of the card and whenever its clock is changed.                     *)
LEMMA RunsInOrder == ASSUME Runs(live) PROVE PlayedInOrder
<1> DEFINE ch == live.card.channel
           played == live.card.played
           all == Flattened(played)
<1>1. InOrder(ch, played) /\ played \in Seq(Seq(Nat))
  BY DEF Runs, Plays, SB!Card
<1>2. \A a : After(ch, a) = ch.base + ((a - ch.base + 1) % SB!Size(ch))
  BY DEF After
<1>3. SUFFICES ASSUME ch.auto, NEW i \in 1..(Len(all) - 1)
               PROVE  all[i + 1] = After(ch, all[i])
  BY <1>2 DEF PlayedInOrder
<1>4. CASE Len(played) # 2
  <2>1. all = <<>> /\ Len(<<>>) = 0
    BY <1>4 DEF Flattened
  <2> QED BY <1>3, <2>1
<1>5. CASE Len(played) = 2
  <2> DEFINE b1 == played[1]
             b2 == played[2]
  <2>1. all = b1 \o b2
    BY <1>5 DEF Flattened
  <2>2. /\ GoesAround(ch, b1) /\ GoesAround(ch, b2)
        /\ b2[1] = After(ch, Final(b1))
    BY <1>1, <1>3, <1>5 DEF InOrder
  <2> HIDE DEF b1, b2, all, played, ch
  <2>3. /\ b1 \in Seq(Buffer(ch)) /\ b2 \in Seq(Buffer(ch))
        /\ Len(b1) \in Nat \ {0} /\ Len(b2) \in Nat \ {0}
        /\ \A j \in 1..(Len(b1) - 1) : b1[j + 1] = After(ch, b1[j])
        /\ \A j \in 1..(Len(b2) - 1) : b2[j + 1] = After(ch, b2[j])
    BY <2>2, EmptySeq DEF GoesAround
  <2>4. /\ Len(all) = Len(b1) + Len(b2)
        /\ \A j \in 1..(Len(b1) + Len(b2)) :
              all[j] = IF j <= Len(b1) THEN b1[j] ELSE b2[j - Len(b1)]
    BY <2>1, <2>3, ConcatProperties
  <2>5. i \in Nat \ {0} /\ i < Len(b1) + Len(b2)
    BY <1>3, <2>3, <2>4
  <2>6. /\ i \in 1..(Len(b1) + Len(b2)) /\ i + 1 \in 1..(Len(b1) + Len(b2))
    BY <2>3, <2>5
  <2>7. CASE i < Len(b1)
    <3>1. all[i] = b1[i] /\ all[i + 1] = b1[i + 1] /\ i \in 1..(Len(b1) - 1)
      BY <2>3, <2>4, <2>5, <2>6, <2>7
    <3> QED BY <2>3, <3>1
  <2>8. CASE i = Len(b1)
    <3>1. all[i] = Final(b1)
      BY <2>3, <2>4, <2>6, <2>8 DEF Final
    <3>2. all[i + 1] = b2[(i + 1) - Len(b1)] /\ (i + 1) - Len(b1) = 1
      BY <2>3, <2>4, <2>6, <2>8
    <3> QED BY <2>2, <3>1, <3>2
  <2>9. CASE i > Len(b1)
    <3> DEFINE j == i - Len(b1)
    <3>1. /\ j \in 1..(Len(b2) - 1) /\ (i + 1) - Len(b1) = j + 1
      BY <2>3, <2>5, <2>9
    <3>2. all[i] = b2[j] /\ all[i + 1] = b2[j + 1]
      BY <2>3, <2>4, <2>5, <2>6, <2>9, <3>1
    <3> HIDE DEF j
    <3> QED BY <2>3, <3>1, <3>2
  <2> QED BY <2>3, <2>5, <2>7, <2>8, <2>9
<1> QED BY <1>4, <1>5

(* The card plays a stream's blocks in the order they lie in the buffer,   *)
(* each once, whatever the handlers miss and however the clock changes.    *)
THEOREM InOrderAlways == Spec => []PlayedInOrder
<1>1. Runs(live) => PlayedInOrder
  BY RunsInOrder
<1> QED BY <1>1, SpecRuns, PTL

-----------------------------------------------------------------------------
(* A machine and the one restored from its snapshot.  Their cards differ   *)
(* in what was played and in the due time: that of a block that is overdue *)
(* or over, which the wall clock's card looks at only if it is recent.     *)
Other(c, due, played) == [c EXCEPT !.due = due, !.played = played]

Dues(c, due) ==
    /\ c.pending => due = c.due \/ (due <= 0 /\ c.due <= 0)
    /\ c.anchored => \/ due = c.due
                     \/ ~c.pending /\ {due, c.due} \subseteq {SB!LongAgo, SB!Unset}

Similar(c, d) == \E due, played : due \in Int /\ d = Other(c, due, played) /\ Dues(c, due)

(* An operation of two similar cards: the results are similar, and on the  *)
(* same clock as before.                                                   *)
Keeps(c, e, f) == Similar(e, f) /\ e.anchored = c.anchored

LEMMA KeepSimilar ==
    ASSUME NEW c, NEW due \in Int, NEW played, Dues(c, due), NEW e,
           e.pending = c.pending, e.due = c.due, e.anchored = c.anchored
    PROVE  Keeps(c, e, Other(e, due, played))
<1>1. Dues(e, due)
  BY DEF Dues
<1> QED BY <1>1 DEF Keeps, Similar

LEMMA SimilarLines ==
    ASSUME NEW c, Plays(c), NEW d, Similar(c, d)
    PROVE  /\ Keeps(c, SB!FireIrq(c), SB!FireIrq(d))
           /\ Keeps(c, SB!StatusRead(c), SB!StatusRead(d))
           /\ Keeps(c, SB!ReadStatus(c), SB!ReadStatus(d))
           /\ Keeps(c, SB!ReadData(c), SB!ReadData(d))
           /\ Keeps(c, SB!ClearFlipFlop(c), SB!ClearFlipFlop(d))
           /\ \A bit \in BOOLEAN : Keeps(c, SB!Reset(c, bit), SB!Reset(d, bit))
           /\ Keeps(c, [c EXCEPT !.raised = FALSE], [d EXCEPT !.raised = FALSE])
           /\ d.raised = c.raised /\ d.channel = c.channel
<1>1. c \in SB!Card
  BY DEF Plays
<1>2. PICK due, played : due \in Int /\ d = Other(c, due, played) /\ Dues(c, due)
  BY DEF Similar
<1>3. ASSUME NEW e, e.pending = c.pending, e.due = c.due, e.anchored = c.anchored
      PROVE  Keeps(c, e, Other(e, due, played))
  BY <1>2, <1>3, KeepSimilar
<1>4. Keeps(c, SB!FireIrq(c), SB!FireIrq(d))
  <2>1. SB!FireIrq(d) = Other(SB!FireIrq(c), due, played)
    BY <1>1, <1>2 DEF SB!FireIrq, Other, SB!Card
  <2> QED BY <1>1, <1>3, <2>1 DEF SB!FireIrq, SB!Card
<1>5. Keeps(c, SB!StatusRead(c), SB!StatusRead(d))
  <2>1. SB!StatusRead(d) = Other(SB!StatusRead(c), due, played)
    BY <1>1, <1>2 DEF SB!StatusRead, Other, SB!Card
  <2> QED BY <1>1, <1>3, <2>1 DEF SB!StatusRead, SB!Card
<1>6. Keeps(c, SB!ReadStatus(c), SB!ReadStatus(d))
  <2>1. SB!ReadStatus(d) = Other(SB!ReadStatus(c), due, played)
    BY <1>1, <1>2 DEF SB!ReadStatus, Other, SB!Card
  <2> QED BY <1>1, <1>3, <2>1 DEF SB!ReadStatus, SB!Card
<1>7. Keeps(c, SB!ReadData(c), SB!ReadData(d))
  <2>1. SB!ReadData(d) = Other(SB!ReadData(c), due, played)
    BY <1>1, <1>2 DEF SB!ReadData, Other, SB!Card
  <2> QED BY <1>1, <1>3, <2>1 DEF SB!ReadData, SB!Card
<1>8. Keeps(c, SB!ClearFlipFlop(c), SB!ClearFlipFlop(d))
  <2> DEFINE ch == [c.channel EXCEPT !.high = FALSE]
  <2>1. /\ SB!ClearFlipFlop(c) = [c EXCEPT !.channel = ch]
        /\ SB!ClearFlipFlop(d) = [d EXCEPT !.channel = ch]
    BY <1>1, <1>2 DEF SB!ClearFlipFlop, Other, SB!Card
  <2> HIDE DEF ch
  <2>2. SB!ClearFlipFlop(d) = Other(SB!ClearFlipFlop(c), due, played)
    BY <1>1, <1>2, <2>1 DEF Other, SB!Card
  <2> QED BY ZenonT(40), <1>1, <1>3, <2>1, <2>2 DEF SB!Card
<1>9. ASSUME NEW bit \in BOOLEAN PROVE Keeps(c, SB!Reset(c, bit), SB!Reset(d, bit))
  <2>1. SB!Reset(d, bit) = Other(SB!Reset(c, bit), due, played)
    BY <1>1, <1>2 DEF SB!Reset, Other, SB!Card
  <2> QED BY <1>1, <1>3, <2>1 DEF SB!Reset, SB!Card
<1>10. Keeps(c, [c EXCEPT !.raised = FALSE], [d EXCEPT !.raised = FALSE])
  <2>1. [d EXCEPT !.raised = FALSE] = Other([c EXCEPT !.raised = FALSE], due, played)
    BY <1>1, <1>2 DEF Other, SB!Card
  <2> QED BY <1>1, <1>3, <2>1 DEF SB!Card
<1>11. d.raised = c.raised /\ d.channel = c.channel
  BY <1>1, <1>2 DEF Other, SB!Card
<1> QED BY <1>4, <1>5, <1>6, <1>7, <1>8, <1>9, <1>10, <1>11

LEMMA SimilarChannels ==
    ASSUME NEW c, Plays(c), NEW d, Similar(c, d), NEW byte \in 0..(Half - 1)
    PROVE  /\ Keeps(c, SB!WriteAddress(c, byte), SB!WriteAddress(d, byte))
           /\ Keeps(c, SB!WriteCount(c, byte), SB!WriteCount(d, byte))
           /\ \A auto \in BOOLEAN : Keeps(c, SB!WriteMode(c, auto), SB!WriteMode(d, auto))
<1>1. c \in SB!Card
  BY DEF Plays
<1>2. PICK due, played : due \in Int /\ d = Other(c, due, played) /\ Dues(c, due)
  BY DEF Similar
<1>3. d.channel = c.channel
  BY SimilarLines
<1>4. ASSUME NEW ch PROVE Keeps(c, SB!Program(c, ch), SB!Program(d, ch))
  <2>1. SB!Program(d, ch) = Other(SB!Program(c, ch), due, <<>>)
    BY <1>1, <1>2 DEF SB!Program, Other, SB!Card
  <2>2. /\ SB!Program(c, ch).pending = c.pending /\ SB!Program(c, ch).due = c.due
        /\ SB!Program(c, ch).anchored = c.anchored
    BY <1>1 DEF SB!Program, SB!Card
  <2> QED BY <1>2, <2>1, <2>2, KeepSimilar
<1> QED BY <1>3, <1>4 DEF SB!WriteAddress, SB!WriteCount, SB!WriteMode

(* The clock, and the end of a block.                                      *)
LEMMA SimilarClock ==
    ASSUME NEW c, Plays(c), NEW d, Similar(c, d)
    PROVE  /\ Keeps(c, SB!Service(c), SB!Service(d))
           /\ Keeps(c, SB!Advance(c), SB!Advance(d))
           /\ SB!Remaining(d) = SB!Remaining(c)
           /\ \A a \in BOOLEAN, n \in Length :
                 LET e == SB!Resync([c EXCEPT !.anchored = a], n)
                     f == SB!Resync([d EXCEPT !.anchored = a], n)
                 IN  Similar(e, f) /\ e.anchored = a
<1>1. c \in SB!Card /\ c.due \in Int /\ c.pending \in BOOLEAN /\ c.anchored \in BOOLEAN
  BY DEF Plays, SB!Card
<1>2. PICK due, played : due \in Int /\ d = Other(c, due, played) /\ Dues(c, due)
  BY DEF Similar
<1>3. /\ d.due = due /\ d.pending = c.pending /\ d.blocklen = c.blocklen
      /\ d.anchored = c.anchored
  BY <1>1, <1>2 DEF Other, SB!Card
<1>4. Keeps(c, SB!Service(c), SB!Service(d))
  <2>1. (c.pending /\ c.due <= 0) <=> (d.pending /\ d.due <= 0)
    BY <1>1, <1>2, <1>3 DEF Dues
  <2>2. CASE ~(c.pending /\ c.due <= 0)
    <3>1. SB!Service(c) = c /\ SB!Service(d) = d
      BY <2>1, <2>2 DEF SB!Service
    <3> QED BY <3>1 DEF Keeps
  <2>3. CASE c.pending /\ c.due <= 0
    <3> DEFINE e == SB!FireIrq([c EXCEPT !.pending = FALSE])
    <3>1. SB!Service(c) = e /\ SB!Service(d) = SB!FireIrq([d EXCEPT !.pending = FALSE])
      BY <2>1, <2>3 DEF SB!Service
    <3>2. SB!FireIrq([d EXCEPT !.pending = FALSE]) = Other(e, due, played)
      BY <1>1, <1>2 DEF SB!FireIrq, Other, SB!Card
    <3>3. e.due = c.due /\ e.anchored = c.anchored /\ ~e.pending
      BY <1>1 DEF SB!FireIrq, SB!Card
    <3>4. Dues(e, due)
      BY <1>2, <2>3, <3>3 DEF Dues
    <3> HIDE DEF e
    <3>5. Keeps(c, e, Other(e, due, played))
      BY <1>2, <3>3, <3>4 DEF Keeps, Similar
    <3> QED BY <3>1, <3>2, <3>5
  <2> QED BY <2>2, <2>3
<1>5. Keeps(c, SB!Advance(c), SB!Advance(d))
  <2> DEFINE Later(t) == IF t = SB!Unset THEN t
                         ELSE IF t > SB!LongAgo THEN t - 1 ELSE SB!LongAgo
             e == SB!Advance(c)
  <2>1. e = [c EXCEPT !.due = Later(c.due)]
    BY <1>1 DEF SB!Advance, SB!Card
  <2>2. SB!Advance(d) = Other(e, Later(due), played)
    <3>1. SB!Advance(d) = [d EXCEPT !.due = Later(due)]
      BY <1>1, <1>2, <1>3 DEF SB!Advance, SB!Card, Other
    <3> HIDE DEF e, Later
    <3> QED BY <1>1, <1>2, <2>1, <3>1 DEF Other, SB!Card
  <2>3. Later(due) \in Int
    BY <1>2, LongestLength
  <2>4. e.due = Later(c.due) /\ e.anchored = c.anchored /\ e.pending = c.pending
    BY <1>1, <2>1 DEF SB!Card
  <2> HIDE DEF e
  <2>5. Dues(e, Later(due))
    <3>1. c.pending => Later(due) = Later(c.due) \/ (Later(due) <= 0 /\ Later(c.due) <= 0)
      <4>1. \A t \in Int : t <= 0 => Later(t) <= 0
        BY LongestLength
      <4> QED BY <1>1, <1>2, <4>1 DEF Dues
    <3>2. Later(SB!LongAgo) = SB!LongAgo /\ Later(SB!Unset) = SB!Unset
      BY LongestLength
    <3> HIDE DEF Later
    <3>3. ASSUME c.anchored
          PROVE  \/ Later(due) = Later(c.due)
                 \/ ~c.pending /\ {Later(due), Later(c.due)} \subseteq {SB!LongAgo, SB!Unset}
      BY <1>2, <3>2, <3>3 DEF Dues
    <3> QED BY <2>4, <3>1, <3>3 DEF Dues
  <2> HIDE DEF Later
  <2>6. Keeps(c, e, SB!Advance(d))
    BY <2>2, <2>3, <2>4, <2>5 DEF Keeps, Similar
  <2> QED BY <2>6 DEF e
<1>6. SB!Remaining(d) = SB!Remaining(c)
  BY <1>1, <1>2, <1>3 DEF SB!Remaining, Dues
<1>7. ASSUME NEW a \in BOOLEAN, NEW n \in Length
      PROVE  LET e == SB!Resync([c EXCEPT !.anchored = a], n)
                 f == SB!Resync([d EXCEPT !.anchored = a], n)
             IN  Similar(e, f) /\ e.anchored = a
  <2> DEFINE armed == SB!Duration(IF c.blocklen = 0 THEN n ELSE c.blocklen)
             Passed(t) == IF t = SB!Unset THEN t ELSE SB!LongAgo
             New(t) == IF c.pending THEN armed ELSE Passed(t)
             e == SB!Resync([c EXCEPT !.anchored = a], n)
             f == SB!Resync([d EXCEPT !.anchored = a], n)
  <2>1. e = [c EXCEPT !.anchored = a, !.due = New(c.due)]
    BY <1>1 DEF SB!Resync, SB!Card
  <2>2. f = [d EXCEPT !.anchored = a, !.due = New(due)]
    BY <1>1, <1>2 DEF SB!Resync, Other, SB!Card
  <2>3. New(due) \in Int
    BY <1>1, LongestLength, MachineConstants DEF SB!Duration, SB!Card
  <2>4. c.pending => New(due) = New(c.due)
    OBVIOUS
  <2>5. ~c.pending => {New(due), New(c.due)} \subseteq {SB!LongAgo, SB!Unset}
    OBVIOUS
  <2> HIDE DEF e, f, New
  <2>6. f = Other(e, New(due), played)
    BY <1>1, <1>2, <2>1, <2>2 DEF Other, SB!Card
  <2>7. e.anchored = a /\ e.pending = c.pending /\ e.due = New(c.due)
    BY <1>1, <2>1 DEF SB!Card
  <2>8. Dues(e, New(due))
    BY <2>4, <2>5, <2>7 DEF Dues
  <2> QED BY <2>3, <2>6, <2>7, <2>8 DEF Similar, e, f
<1> QED BY <1>4, <1>5, <1>6, <1>7

(* A block begins: a due time that is long past does not put it forward.   *)
LEMMA SimilarStart ==
    ASSUME NEW c, Plays(c), NEW d, Similar(c, d), NEW n \in Samples
    PROVE  Keeps(c, SB!StartDma(c, n), SB!StartDma(d, n))
<1>1. c \in SB!Card /\ c.due \in Int /\ c.detection \in BOOLEAN
  BY DEF Plays, SB!Card
<1>2. PICK due, played : due \in Int /\ d = Other(c, due, played) /\ Dues(c, due)
  BY DEF Similar
<1>3. /\ d.due = due /\ d.pending = c.pending /\ d.detection = c.detection
      /\ d.anchored = c.anchored /\ d.requests = c.requests /\ d.channel = c.channel
      /\ d.played = played
  BY <1>1, <1>2 DEF Other, SB!Card
<1> DEFINE asked == IF c.requests <= DetectLimit THEN c.requests + 1 ELSE c.requests
           e == [c EXCEPT !.active = TRUE, !.requests = asked]
           f == [d EXCEPT !.active = TRUE, !.requests = asked]
<1> HIDE DEF asked
<1>4. f = Other(e, due, played)
  BY <1>1, <1>2 DEF Other, SB!Card
<1>5. /\ e.pending = c.pending /\ e.due = c.due /\ e.anchored = c.anchored
      /\ e.requests = asked /\ f.requests = asked
  BY <1>1, <1>4 DEF Other, SB!Card
<1>6. CASE c.detection
  <2>1. /\ SB!StartDma(c, n) = IF asked <= DetectLimit THEN SB!FireIrq(e) ELSE e
        /\ SB!StartDma(d, n) = IF asked <= DetectLimit THEN SB!FireIrq(f) ELSE f
    BY <1>1, <1>3, <1>5, <1>6 DEF SB!StartDma, asked
  <2>2. SB!FireIrq(f) = Other(SB!FireIrq(e), due, played)
    BY <1>1, <1>4 DEF SB!FireIrq, Other, SB!Card
  <2>3. /\ SB!FireIrq(e).pending = c.pending /\ SB!FireIrq(e).due = c.due
        /\ SB!FireIrq(e).anchored = c.anchored
    BY <1>1 DEF SB!FireIrq, SB!Card
  <2>4. Keeps(c, SB!FireIrq(e), SB!FireIrq(f))
    BY <1>2, <2>2, <2>3, KeepSimilar
  <2>5. Keeps(c, e, f)
    <3> HIDE DEF e, f
    <3> QED BY <1>2, <1>4, <1>5, KeepSimilar
  <2> QED BY <2>1, <2>4, <2>5
<1>7. CASE ~c.detection
  <2> DEFINE after == SB!AfterBlock(c.channel, n)
             K(blocks) == SB!LastTwo(Append(blocks, SB!Ring(c.channel, n)))
             mine == K(c.played)
             its == K(played)
             t == SB!Ideal(c, n)
  <2>1. SB!Ideal(d, n) = t
    <3>1. CASE ~c.anchored
      BY <1>3, <3>1 DEF SB!Ideal
    <3>2. CASE c.anchored /\ due = c.due
      BY <1>3, <3>2 DEF SB!Ideal
    <3>3. CASE c.anchored /\ {due, c.due} \subseteq {SB!LongAgo, SB!Unset}
      <4>1. 0 - (SB!LongAgo + SB!Duration(n)) > CatchUp
        BY LongestLength DEF SB!Duration
      <4>2. SB!LongAgo \in Int /\ SB!Duration(n) \in Int /\ CatchUp \in Int
        BY LongestLength, SampleFacts, ConstantFacts DEF SB!Duration
      <4>3. ~(0 - (SB!LongAgo + SB!Duration(n)) <= CatchUp)
        BY <4>1, <4>2
      <4>4. \A s \in {SB!LongAgo, SB!Unset} :
               ~(s # SB!Unset /\ 0 - (s + SB!Duration(n)) <= CatchUp)
        BY <4>3
      <4>5. t = SB!Duration(n) /\ SB!Ideal(d, n) = SB!Duration(n)
        BY <1>3, <3>3, <4>4 DEF SB!Ideal
      <4> QED BY <4>5
    <3> QED BY <1>2, <3>1, <3>2, <3>3 DEF Dues
  <2>2. t \in Int
    BY <1>1, SampleFacts DEF SB!Ideal, SB!Duration
  <2>3. SB!StartDma(c, n) = [e EXCEPT !.played = mine, !.channel = after, !.tc = TRUE,
                                      !.due = t, !.pending = TRUE]
    BY <1>1, <1>7 DEF SB!StartDma, SB!Card, asked
  <2>4. SB!StartDma(d, n) = [f EXCEPT !.played = its, !.channel = after, !.tc = TRUE,
                                      !.due = t, !.pending = TRUE]
    <3> HIDE DEF t, after
    <3>1. SB!StartDma(d, n) =
            [[d EXCEPT !.active = TRUE,
                       !.requests = IF d.requests <= DetectLimit THEN d.requests + 1
                                    ELSE d.requests]
               EXCEPT !.played = SB!LastTwo(Append(d.played, SB!Ring(d.channel, n))),
                      !.channel = SB!AfterBlock(d.channel, n), !.tc = TRUE,
                      !.due = SB!Ideal(d, n), !.pending = TRUE]
      BY <1>1, <1>2, <1>3, <1>7 DEF SB!StartDma, SB!Card, Other
    <3> QED BY <1>3, <2>1, <3>1 DEF asked, t, after
  <2> HIDE DEF after, mine, its, t
  <2>5. SB!StartDma(d, n) = Other(SB!StartDma(c, n), t, its)
    BY ZenonT(40), <1>1, <1>2, <2>3, <2>4 DEF Other, SB!Card
  <2>6. /\ SB!StartDma(c, n).due = t /\ SB!StartDma(c, n).anchored = c.anchored
    BY <1>1, <2>3 DEF SB!Card
  <2>7. Dues(SB!StartDma(c, n), t)
    BY <2>6 DEF Dues
  <2> QED BY <2>2, <2>5, <2>6, <2>7 DEF Keeps, Similar
<1> QED BY <1>1, <1>6, <1>7

LEMMA SimilarExec ==
    ASSUME NEW c, Plays(c), NEW d, Similar(c, d), c.needed = 0
    PROVE  Keeps(c, SB!Exec(c), SB!Exec(d))
<1>1. /\ c \in SB!Card /\ c.args \in Seq(Samples) /\ c.blocklen \in Samples \cup {0}
      /\ Len(c.args) = SB!Arguments(c.cmd)
  <2>1. c.needed + Len(c.args) = SB!Arguments(c.cmd) /\ c.args \in Seq(Samples)
    BY DEF Plays, Fed
  <2>2. Len(c.args) \in Nat
    BY <2>1, LenProperties
  <2> QED BY <2>1, <2>2 DEF Plays, Fed
<1>2. PICK due, played : due \in Int /\ d = Other(c, due, played) /\ Dues(c, due)
  BY DEF Similar
<1>3. d.cmd = c.cmd /\ d.args = c.args /\ d.blocklen = c.blocklen /\ d.out = c.out
  BY <1>1, <1>2 DEF Other, SB!Card
<1>4. CASE c.cmd = "version"
  <2> DEFINE out == c.out \o <<"id", "id">>
             e == [c EXCEPT !.out = out]
  <2>1. SB!Exec(c) = e /\ SB!Exec(d) = [d EXCEPT !.out = out]
    BY <1>3, <1>4 DEF SB!Exec
  <2> HIDE DEF out
  <2>2. [d EXCEPT !.out = out] = Other(e, due, played)
    BY <1>1, <1>2 DEF Other, SB!Card
  <2>3. e.pending = c.pending /\ e.due = c.due /\ e.anchored = c.anchored
    BY <1>1 DEF SB!Card
  <2> HIDE DEF e
  <2> QED BY <1>2, <2>1, <2>2, <2>3, KeepSimilar
<1>5. CASE c.cmd = "single"
  <2>1. Len(c.args) = 2
    BY <1>1, <1>5 DEF SB!Arguments
  <2>2. c.args[1] \in Samples
    BY <1>1, <2>1, ElementOfSeq
  <2> QED BY <1>3, <1>5, <2>2, SimilarStart DEF SB!Exec
<1>6. CASE c.cmd = "autoinit"
  <2>1. (IF c.blocklen = 0 THEN 1 ELSE c.blocklen) \in Samples
    BY <1>1, SampleFacts
  <2> QED BY <1>3, <1>6, <2>1, SimilarStart DEF SB!Exec
<1>7. CASE c.cmd = "blocklen"
  <2> DEFINE len == c.args[1]
             e == [c EXCEPT !.blocklen = len]
  <2>1. SB!Exec(c) = e /\ SB!Exec(d) = [d EXCEPT !.blocklen = len]
    BY <1>3, <1>7 DEF SB!Exec
  <2> HIDE DEF len
  <2>2. [d EXCEPT !.blocklen = len] = Other(e, due, played)
    BY <1>1, <1>2 DEF Other, SB!Card
  <2>3. e.pending = c.pending /\ e.due = c.due /\ e.anchored = c.anchored
    BY <1>1 DEF SB!Card
  <2> HIDE DEF e
  <2> QED BY <1>2, <2>1, <2>2, <2>3, KeepSimilar
<1>8. CASE c.cmd = "force"
  BY <1>3, <1>8, SimilarLines DEF SB!Exec
<1>9. CASE c.cmd = "other"
  <2>1. SB!Exec(c) = c /\ SB!Exec(d) = d
    BY <1>3, <1>9 DEF SB!Exec
  <2> QED BY <2>1 DEF Keeps
<1>10. c.cmd \in SB!Command
  BY <1>1 DEF SB!Card
<1> QED BY <1>4, <1>5, <1>6, <1>7, <1>8, <1>9, <1>10 DEF SB!Command

LEMMA SimilarFeed ==
    ASSUME NEW c, Plays(c), NEW d, Similar(c, d), NEW cmd \in SB!Command, NEW n \in Samples
    PROVE  Keeps(c, SB!Feed(c, cmd, n), SB!Feed(d, cmd, n))
<1>1. c \in SB!Card
  BY DEF Plays
<1>2. PICK due, played : due \in Int /\ d = Other(c, due, played) /\ Dues(c, due)
  BY DEF Similar
<1>3. d.needed = c.needed /\ d.args = c.args
  BY <1>1, <1>2 DEF Other, SB!Card
<1> DEFINE args == Append(c.args, n)
           left == c.needed - 1
           want == SB!Arguments(cmd)
           More(b) == [b EXCEPT !.args = args, !.needed = left]
           New(b) == [b EXCEPT !.cmd = cmd, !.args = <<>>, !.needed = want]
           Fed1(b) == IF c.needed > 0 THEN More(b) ELSE New(b)
           e == Fed1(c)
           f == Fed1(d)
<1>4. /\ SB!Feed(c, cmd, n) = IF e.needed = 0 THEN SB!Exec(e) ELSE e
      /\ SB!Feed(d, cmd, n) = IF f.needed = 0 THEN SB!Exec(f) ELSE f
  BY <1>3 DEF SB!Feed
<1> HIDE DEF args, left, want
<1>5. f = Other(e, due, played)
  <2>1. More(d) = Other(More(c), due, played)
    BY <1>1, <1>2 DEF Other, SB!Card
  <2>2. New(d) = Other(New(c), due, played)
    BY <1>1, <1>2 DEF Other, SB!Card
  <2> HIDE DEF More, New
  <2> QED BY <2>1, <2>2
<1>6. /\ e.pending = c.pending /\ e.due = c.due /\ e.anchored = c.anchored
      /\ f.needed = e.needed
  <2>1. /\ e.pending = c.pending /\ e.due = c.due /\ e.anchored = c.anchored
    BY <1>1 DEF SB!Card
  <2>2. More(d).needed = left /\ More(c).needed = left
    BY <1>1, <1>2 DEF Other, SB!Card
  <2>3. New(d).needed = want /\ New(c).needed = want
    BY <1>1, <1>2 DEF Other, SB!Card
  <2>4. f.needed = e.needed
    <3> HIDE DEF More, New
    <3> QED BY <2>2, <2>3
  <2> QED BY <2>1, <2>4
<1>7. Plays(e)
  BY FeedsPlay DEF Fed1, args, left, want, More, New
<1> HIDE DEF e, f
<1>8. Keeps(c, e, f)
  BY <1>2, <1>5, <1>6, KeepSimilar
<1>9. CASE e.needed = 0
  <2>1. Keeps(e, SB!Exec(e), SB!Exec(f))
    BY <1>7, <1>8, <1>9, SimilarExec DEF Keeps
  <2> QED BY <1>4, <1>6, <1>8, <1>9, <2>1 DEF Keeps
<1>10. CASE e.needed # 0
  BY <1>4, <1>6, <1>8, <1>10
<1> QED BY <1>9, <1>10

(* Two machines that differ in such cards, on the clock that the machine   *)
(* runs by.                                                                *)
Twins(m, n) ==
    /\ m.wall = m.card.anchored
    /\ \E d : n = [m EXCEPT !.card = d] /\ Similar(m.card, d)

LEMMA OwnTwin == ASSUME NEW m, Runs(m), m.wall = m.card.anchored PROVE Twins(m, m)
<1>1. m \in Machine /\ m.card \in SB!Card
  BY DEF Runs, Plays
<1>2. m.card = Other(m.card, m.card.due, m.card.played) /\ m.card.due \in Int
  BY <1>1 DEF Other, SB!Card
<1>3. Dues(m.card, m.card.due)
  BY DEF Dues
<1>4. Similar(m.card, m.card)
  BY <1>2, <1>3 DEF Similar
<1>5. m = [m EXCEPT !.card = m.card]
  BY <1>1 DEF Machine
<1> QED BY <1>4, <1>5 DEF Twins

(* They behave alike.                                                      *)
LEMMA TwinsAlike == ASSUME NEW m, Runs(m), NEW n, Twins(m, n) PROVE Alike(m, n)
<1>1. m \in Machine /\ m.card \in SB!Card /\ Plays(m.card)
  BY DEF Runs, Plays
<1>2. PICK d : n = [m EXCEPT !.card = d] /\ Similar(m.card, d)
  BY DEF Twins
<1>3. PICK due, played : due \in Int /\ d = Other(m.card, due, played) /\ Dues(m.card, due)
  BY <1>2 DEF Similar
<1>4. SB!Remaining(d) = SB!Remaining(m.card)
  BY <1>1, <1>2, SimilarClock
<1> DEFINE r == SB!Remaining(m.card)
<1> HIDE DEF r
<1>5. [d EXCEPT !.due = r, !.played = <<>>] = [m.card EXCEPT !.due = r, !.played = <<>>]
  BY <1>1, <1>3 DEF Other, SB!Card
<1>6. n.card = d
  BY <1>1, <1>2 DEF Machine
<1>7. /\ Behaviour(m) = [m EXCEPT !.card = [m.card EXCEPT !.due = r, !.played = <<>>]]
      /\ Behaviour(n) = [n EXCEPT !.card = [d EXCEPT !.due = r, !.played = <<>>]]
  BY <1>4, <1>6 DEF Behaviour, r
<1>8. Behaviour(n) = Behaviour(m)
  BY <1>1, <1>2, <1>5, <1>7 DEF Machine
<1>9. n # Nobody
  <2>1. "irr" \in DOMAIN n
    BY <1>1, <1>2 DEF Machine
  <2>2. "irr" \notin DOMAIN Nobody
    BY DEF Nobody
  <2> QED BY <2>1, <2>2
<1> QED BY <1>8, <1>9 DEF Alike

(* What does not look at the card.                                         *)
LEMMA TwinFacts ==
    ASSUME NEW m, Runs(m), NEW n, Twins(m, n)
    PROVE  /\ n.flag = m.flag /\ n.decim = m.decim /\ n.detached = m.detached
           /\ n.imr = m.imr /\ n.irr = m.irr /\ n.isr = m.isr /\ n.vector = m.vector
           /\ n.stack = m.stack /\ n.kbc = m.kbc /\ n.parameter = m.parameter
           /\ n.timer = m.timer /\ n.wall = m.wall /\ Similar(m.card, n.card)
           /\ m \in Machine /\ n = [m EXCEPT !.card = n.card] /\ Plays(m.card)
           /\ Top(n) = Top(m) /\ Acknowledgeable(n) = Acknowledgeable(m)
<1>1. m \in Machine /\ Plays(m.card)
  BY DEF Runs
<1>2. PICK d : n = [m EXCEPT !.card = d] /\ Similar(m.card, d)
  BY DEF Twins
<1>3. n.card = d
  BY <1>1, <1>2 DEF Machine
<1>4. /\ n.flag = m.flag /\ n.decim = m.decim /\ n.detached = m.detached
      /\ n.imr = m.imr /\ n.irr = m.irr /\ n.isr = m.isr /\ n.vector = m.vector
      /\ n.stack = m.stack /\ n.kbc = m.kbc /\ n.parameter = m.parameter
      /\ n.timer = m.timer /\ n.wall = m.wall
  BY <1>1, <1>2 DEF Machine
<1> QED BY <1>1, <1>2, <1>3, <1>4 DEF Top, Acknowledgeable

LEMMA TwinSets ==
    ASSUME NEW m, Runs(m), NEW n, Twins(m, n), NEW v
    PROVE  /\ Twins([m EXCEPT !.flag = v], [n EXCEPT !.flag = v])
           /\ Twins([m EXCEPT !.decim = v], [n EXCEPT !.decim = v])
           /\ Twins([m EXCEPT !.detached = v], [n EXCEPT !.detached = v])
           /\ Twins([m EXCEPT !.imr = v], [n EXCEPT !.imr = v])
           /\ Twins([m EXCEPT !.irr = v], [n EXCEPT !.irr = v])
           /\ Twins([m EXCEPT !.isr = v], [n EXCEPT !.isr = v])
           /\ Twins([m EXCEPT !.vector = v], [n EXCEPT !.vector = v])
           /\ Twins([m EXCEPT !.kbc = v], [n EXCEPT !.kbc = v])
           /\ Twins([m EXCEPT !.timer = v], [n EXCEPT !.timer = v])
           /\ Twins([m EXCEPT !.stack = v], [n EXCEPT !.stack = v])
           /\ \A w : Twins([m EXCEPT !.parameter = w, !.kbc = v],
                           [n EXCEPT !.parameter = w, !.kbc = v])
           /\ \A w : Twins([m EXCEPT !.stack = v, !.flag = w],
                           [n EXCEPT !.stack = v, !.flag = w])
           /\ \A w : Twins([m EXCEPT !.irr = v, !.isr = w],
                           [n EXCEPT !.irr = v, !.isr = w])
<1> DEFINE d == n.card
<1>1. m \in Machine /\ n = [m EXCEPT !.card = d] /\ Similar(m.card, d)
      /\ m.wall = m.card.anchored
  BY TwinFacts DEF Twins
<1> HIDE DEF d
<1>2. ASSUME NEW a, NEW b, b = [a EXCEPT !.card = d], a.card = m.card, a.wall = m.wall
      PROVE  Twins(a, b)
  BY <1>1, <1>2 DEF Twins
<1>3. Twins([m EXCEPT !.flag = v], [n EXCEPT !.flag = v])
  <2>1. /\ [n EXCEPT !.flag = v] = [[m EXCEPT !.flag = v] EXCEPT !.card = d]
        /\ [m EXCEPT !.flag = v].card = m.card /\ [m EXCEPT !.flag = v].wall = m.wall
    BY <1>1 DEF Machine
  <2> QED BY <1>2, <2>1
<1>4. Twins([m EXCEPT !.decim = v], [n EXCEPT !.decim = v])
  <2>1. /\ [n EXCEPT !.decim = v] = [[m EXCEPT !.decim = v] EXCEPT !.card = d]
        /\ [m EXCEPT !.decim = v].card = m.card /\ [m EXCEPT !.decim = v].wall = m.wall
    BY <1>1 DEF Machine
  <2> QED BY <1>2, <2>1
<1>5. Twins([m EXCEPT !.detached = v], [n EXCEPT !.detached = v])
  <2>1. /\ [n EXCEPT !.detached = v] = [[m EXCEPT !.detached = v] EXCEPT !.card = d]
        /\ [m EXCEPT !.detached = v].card = m.card /\ [m EXCEPT !.detached = v].wall = m.wall
    BY <1>1 DEF Machine
  <2> QED BY <1>2, <2>1
<1>6. Twins([m EXCEPT !.imr = v], [n EXCEPT !.imr = v])
  <2>1. /\ [n EXCEPT !.imr = v] = [[m EXCEPT !.imr = v] EXCEPT !.card = d]
        /\ [m EXCEPT !.imr = v].card = m.card /\ [m EXCEPT !.imr = v].wall = m.wall
    BY <1>1 DEF Machine
  <2> QED BY <1>2, <2>1
<1>7. Twins([m EXCEPT !.irr = v], [n EXCEPT !.irr = v])
  <2>1. /\ [n EXCEPT !.irr = v] = [[m EXCEPT !.irr = v] EXCEPT !.card = d]
        /\ [m EXCEPT !.irr = v].card = m.card /\ [m EXCEPT !.irr = v].wall = m.wall
    BY <1>1 DEF Machine
  <2> QED BY <1>2, <2>1
<1>8. Twins([m EXCEPT !.isr = v], [n EXCEPT !.isr = v])
  <2>1. /\ [n EXCEPT !.isr = v] = [[m EXCEPT !.isr = v] EXCEPT !.card = d]
        /\ [m EXCEPT !.isr = v].card = m.card /\ [m EXCEPT !.isr = v].wall = m.wall
    BY <1>1 DEF Machine
  <2> QED BY <1>2, <2>1
<1>9. Twins([m EXCEPT !.vector = v], [n EXCEPT !.vector = v])
  <2>1. /\ [n EXCEPT !.vector = v] = [[m EXCEPT !.vector = v] EXCEPT !.card = d]
        /\ [m EXCEPT !.vector = v].card = m.card /\ [m EXCEPT !.vector = v].wall = m.wall
    BY <1>1 DEF Machine
  <2> QED BY <1>2, <2>1
<1>10. Twins([m EXCEPT !.kbc = v], [n EXCEPT !.kbc = v])
  <2>1. /\ [n EXCEPT !.kbc = v] = [[m EXCEPT !.kbc = v] EXCEPT !.card = d]
        /\ [m EXCEPT !.kbc = v].card = m.card /\ [m EXCEPT !.kbc = v].wall = m.wall
    BY <1>1 DEF Machine
  <2> QED BY <1>2, <2>1
<1>11. Twins([m EXCEPT !.timer = v], [n EXCEPT !.timer = v])
  <2>1. /\ [n EXCEPT !.timer = v] = [[m EXCEPT !.timer = v] EXCEPT !.card = d]
        /\ [m EXCEPT !.timer = v].card = m.card /\ [m EXCEPT !.timer = v].wall = m.wall
    BY <1>1 DEF Machine
  <2> QED BY <1>2, <2>1
<1>12. Twins([m EXCEPT !.stack = v], [n EXCEPT !.stack = v])
  <2>1. /\ [n EXCEPT !.stack = v] = [[m EXCEPT !.stack = v] EXCEPT !.card = d]
        /\ [m EXCEPT !.stack = v].card = m.card /\ [m EXCEPT !.stack = v].wall = m.wall
    BY <1>1 DEF Machine
  <2> QED BY <1>2, <2>1
<1>13. ASSUME NEW w
       PROVE  Twins([m EXCEPT !.parameter = w, !.kbc = v], [n EXCEPT !.parameter = w, !.kbc = v])
  <2>1. /\ [n EXCEPT !.parameter = w, !.kbc = v] = [[m EXCEPT !.parameter = w, !.kbc = v] EXCEPT !.card = d]
        /\ [m EXCEPT !.parameter = w, !.kbc = v].card = m.card
        /\ [m EXCEPT !.parameter = w, !.kbc = v].wall = m.wall
    BY <1>1 DEF Machine
  <2> QED BY <1>2, <2>1
<1>14. ASSUME NEW w
       PROVE  Twins([m EXCEPT !.stack = v, !.flag = w], [n EXCEPT !.stack = v, !.flag = w])
  <2>1. /\ [n EXCEPT !.stack = v, !.flag = w] = [[m EXCEPT !.stack = v, !.flag = w] EXCEPT !.card = d]
        /\ [m EXCEPT !.stack = v, !.flag = w].card = m.card
        /\ [m EXCEPT !.stack = v, !.flag = w].wall = m.wall
    BY <1>1 DEF Machine
  <2> QED BY <1>2, <2>1
<1>15. ASSUME NEW w
       PROVE  Twins([m EXCEPT !.irr = v, !.isr = w], [n EXCEPT !.irr = v, !.isr = w])
  <2>1. /\ [n EXCEPT !.irr = v, !.isr = w] = [[m EXCEPT !.irr = v, !.isr = w] EXCEPT !.card = d]
        /\ [m EXCEPT !.irr = v, !.isr = w].card = m.card
        /\ [m EXCEPT !.irr = v, !.isr = w].wall = m.wall
    BY <1>1 DEF Machine
  <2> QED BY <1>2, <2>1
<1> QED BY <1>3, <1>4, <1>5, <1>6, <1>7, <1>8, <1>9, <1>10, <1>11, <1>12, <1>13, <1>14, <1>15

LEMMA TwinCards ==
    ASSUME NEW m, Runs(m), NEW n, Twins(m, n), NEW c, NEW d, Keeps(m.card, c, d)
    PROVE  Twins([m EXCEPT !.card = c], [n EXCEPT !.card = d])
<1>1. m \in Machine /\ n = [m EXCEPT !.card = n.card] /\ m.wall = m.card.anchored
  BY TwinFacts DEF Twins
<1> DEFINE a == [m EXCEPT !.card = c]
           b == [n EXCEPT !.card = d]
           i == n.card
<1> HIDE DEF i
<1>2. n = [m EXCEPT !.card = i]
  BY <1>1 DEF i
<1>3. b = [a EXCEPT !.card = d] /\ a.card = c /\ a.wall = m.wall
  BY <1>1, <1>2 DEF Machine
<1> HIDE DEF a, b
<1>4. Twins(a, b)
  BY <1>1, <1>3 DEF Twins, Keeps
<1> QED BY <1>4 DEF a, b

LEMMA TwinRaise ==
    ASSUME NEW m, Runs(m), NEW n, Twins(m, n), NEW line
    PROVE  Twins(RaiseIrq(m, line), RaiseIrq(n, line))
<1>1. n.irr = m.irr
  BY TwinFacts
<1> DEFINE v == m.irr \cup {line}
<1>2. RaiseIrq(m, line) = [m EXCEPT !.irr = v] /\ RaiseIrq(n, line) = [n EXCEPT !.irr = v]
  BY <1>1 DEF RaiseIrq
<1> HIDE DEF v
<1>3. Twins([m EXCEPT !.irr = v], [n EXCEPT !.irr = v])
  BY TwinSets
<1> QED BY <1>2, <1>3

LEMMA TwinPlug ==
    ASSUME NEW m, Runs(m), NEW n, Twins(m, n), NEW c, NEW d, Plays(c), Keeps(m.card, c, d)
    PROVE  Twins(Plug(m, c), Plug(n, d))
<1>1. Similar(c, d) /\ c.anchored = m.card.anchored
  BY DEF Keeps
<1> DEFINE q == [c EXCEPT !.raised = FALSE]
           r == [d EXCEPT !.raised = FALSE]
           a == [m EXCEPT !.card = q]
           b == [n EXCEPT !.card = r]
<1>2. Keeps(c, q, r) /\ d.raised = c.raised
  BY <1>1, SimilarLines
<1>3. Keeps(m.card, q, r)
  BY <1>1, <1>2 DEF Keeps
<1>4. Plays(q) /\ ~q.raised
  <2>1. Plays(q)
    BY LinePlays
  <2>2. ~q.raised
    BY DEF Plays, SB!Card
  <2> QED BY <2>1, <2>2
<1>p. /\ Plug(m, c) = IF c.raised THEN RaiseIrq(a, Sound) ELSE a
      /\ Plug(n, d) = IF c.raised THEN RaiseIrq(b, Sound) ELSE b
  BY <1>2 DEF Plug
<1> HIDE DEF q, r
<1>5. Twins(a, b)
  BY <1>3, TwinCards
<1>6. Runs(a)
  BY <1>4, CardRuns
<1> HIDE DEF a, b
<1>7. Twins(RaiseIrq(a, Sound), RaiseIrq(b, Sound))
  BY <1>5, <1>6, TwinRaise
<1> QED BY <1>p, <1>5, <1>7

LEMMA TwinRequests ==
    ASSUME NEW m, Runs(m), NEW n, Twins(m, n)
    PROVE  Twins(Requests(m), Requests(n))
<1>1. ASSUME NEW a, NEW b, Runs(a), Twins(a, b)
      PROVE  Runs(ServiceCard(a)) /\ Twins(ServiceCard(a), ServiceCard(b))
  <2>1. Similar(a.card, b.card) /\ Plays(a.card)
    BY <1>1, TwinFacts
  <2>2. Keeps(a.card, SB!Service(a.card), SB!Service(b.card)) /\ Plays(SB!Service(a.card))
    BY <2>1, SimilarClock, LinePlays
  <2> QED BY <1>1, <2>2, TwinPlug, PlugRuns DEF ServiceCard
<1>2. ASSUME NEW a, NEW b, Runs(a), Twins(a, b)
      PROVE  Runs(ServiceKeyboard(a)) /\ Twins(ServiceKeyboard(a), ServiceKeyboard(b))
  <2>1. b.kbc = a.kbc
    BY <1>2, TwinFacts
  <2>2. Runs(RaiseIrq(a, Keyboard)) /\ Twins(RaiseIrq(a, Keyboard), RaiseIrq(b, Keyboard))
    BY <1>2, TwinRaise, RaiseRuns DEF Line
  <2> QED BY <1>2, <2>1, <2>2 DEF ServiceKeyboard
<1>3. ASSUME NEW a, NEW b, Runs(a), Twins(a, b)
      PROVE  Twins(ServiceTimer(a), ServiceTimer(b))
  <2>1. b.timer = a.timer
    BY <1>3, TwinFacts
  <2> DEFINE armed == IF a.timer = Unarmed THEN TimerPeriod ELSE a.timer
  <2>2. armed \in (-MaxLag)..Unarmed
    BY <1>3, TimerTypes DEF Runs, Machine
  <2> DEFINE late == armed + TimerPeriod
  <2>3. /\ ServiceTimer(a) = IF a.timer = Never THEN a
             ELSE IF armed <= 0 THEN RaiseIrq([a EXCEPT !.timer = late], Timer)
             ELSE [a EXCEPT !.timer = armed]
        /\ ServiceTimer(b) = IF a.timer = Never THEN b
             ELSE IF armed <= 0 THEN RaiseIrq([b EXCEPT !.timer = late], Timer)
             ELSE [b EXCEPT !.timer = armed]
    BY <2>1 DEF ServiceTimer
  <2> HIDE DEF armed
  <2>4. armed <= 0 => late \in (-MaxLag)..Unarmed
    BY <2>2, TimerTypes
  <2> HIDE DEF late
  <2>5. ASSUME NEW v PROVE Twins([a EXCEPT !.timer = v], [b EXCEPT !.timer = v])
    BY <1>3, TwinSets
  <2>6. ASSUME armed <= 0
        PROVE  Twins(RaiseIrq([a EXCEPT !.timer = late], Timer),
                     RaiseIrq([b EXCEPT !.timer = late], Timer))
    <3>1. Runs([a EXCEPT !.timer = late])
      BY <1>3, <2>4, <2>6, SetRuns
    <3> QED BY <2>5, <3>1, TwinRaise
  <2> QED BY <1>3, <2>3, <2>5, <2>6
<1> DEFINE a1 == ServiceCard(m)
           b1 == ServiceCard(n)
           a2 == ServiceKeyboard(a1)
           b2 == ServiceKeyboard(b1)
<1>4. Runs(a1) /\ Twins(a1, b1)
  BY <1>1
<1>5. Runs(a2) /\ Twins(a2, b2)
  <2> HIDE DEF a1, b1
  <2> QED BY <1>2, <1>4
<1>6. Twins(ServiceTimer(a2), ServiceTimer(b2))
  <2> HIDE DEF a2, b2
  <2> QED BY <1>3, <1>5
<1> QED BY <1>6 DEF Requests

LEMMA TwinRest ==
    ASSUME NEW m, Runs(m), NEW n, Twins(m, n), NEW a, NEW b,
           b = [a EXCEPT !.card = n.card], a.card = m.card, a.wall = m.wall
    PROVE  Twins(a, b)
BY TwinFacts DEF Twins

LEMMA TwinPoll ==
    ASSUME NEW m, Runs(m), NEW n, Twins(m, n)
    PROVE  Twins(Poll(m), Poll(n))
<1>1. ASSUME NEW a, NEW b, Runs(a), Twins(a, b)
      PROVE  Twins(PendingIrq(a), PendingIrq(b))
  <2> DEFINE r == Requests(a)
             s == Requests(b)
  <2>1. Runs(r) /\ Twins(r, s)
    BY <1>1, RequestsRuns, TwinRequests
  <2> DEFINE k == Lowest(Acknowledgeable(r))
  <2>2. /\ r \in Machine /\ s = [r EXCEPT !.card = s.card]
        /\ Acknowledgeable(s) = Acknowledgeable(r)
        /\ s.irr = r.irr /\ s.isr = r.isr /\ s.stack = r.stack /\ s.vector = r.vector
    BY <2>1, TwinFacts
  <2>p. /\ PendingIrq(a) = IF Acknowledgeable(r) = {} THEN r
              ELSE IF Hooked(Acknowledge(r), k) THEN Deliver(Acknowledge(r), k)
              ELSE Dismiss(Acknowledge(r))
        /\ PendingIrq(b) = IF Acknowledgeable(r) = {} THEN s
              ELSE IF Hooked(Acknowledge(s), k) THEN Deliver(Acknowledge(s), k)
              ELSE Dismiss(Acknowledge(s))
    BY <2>2 DEF PendingIrq
  <2> DEFINE irr == r.irr \ {k}
             isr == r.isr \cup {k}
             stack == Append(r.stack, [line |-> k, stage |-> "entered"])
             less == IF isr = {} THEN isr ELSE isr \ {Lowest(isr)}
             c == s.card
  <2>3. Acknowledge(r) = [r EXCEPT !.irr = irr, !.isr = isr]
    BY DEF Acknowledge
  <2>4. Acknowledge(s) = [s EXCEPT !.irr = irr, !.isr = isr]
    BY <2>2 DEF Acknowledge
  <2>5. Hooked(Acknowledge(s), k) = Hooked(Acknowledge(r), k)
    <3>1. Acknowledge(r).vector = r.vector /\ Acknowledge(s).vector = s.vector
      <4> HIDE DEF r, s, k, irr, isr, c
      <4>1. s = [r EXCEPT !.card = c]
        BY <2>2 DEF c
      <4> QED BY <2>2, <2>3, <2>4, <4>1 DEF Machine
    <3> QED BY <2>2, <3>1 DEF Hooked
  <2>6. /\ Deliver(Acknowledge(r), k) = [r EXCEPT !.irr = irr, !.isr = isr,
                                                 !.stack = stack, !.flag = FALSE]
        /\ Deliver(Acknowledge(s), k) = [s EXCEPT !.irr = irr, !.isr = isr,
                                                 !.stack = stack, !.flag = FALSE]
    <3>1. /\ Acknowledge(r).stack = r.stack /\ Acknowledge(s).stack = r.stack
      <4> HIDE DEF r, s, k, irr, isr, c
      <4>1. s = [r EXCEPT !.card = c]
        BY <2>2 DEF c
      <4> QED BY <2>2, <2>3, <2>4, <4>1 DEF Machine
    <3>2. /\ Deliver(Acknowledge(r), k) = [Acknowledge(r) EXCEPT !.stack = stack, !.flag = FALSE]
          /\ Deliver(Acknowledge(s), k) = [Acknowledge(s) EXCEPT !.stack = stack, !.flag = FALSE]
      BY <3>1 DEF Deliver
    <3> HIDE DEF r, s, k, irr, isr, c, stack
    <3>3. s = [r EXCEPT !.card = c]
      BY <2>2 DEF c
    <3> QED BY <2>2, <2>3, <2>4, <3>2, <3>3 DEF Machine
  <2>7. /\ Dismiss(Acknowledge(r)) = [r EXCEPT !.irr = irr, !.isr = less]
        /\ Dismiss(Acknowledge(s)) = [s EXCEPT !.irr = irr, !.isr = less]
    <3>1. /\ Acknowledge(r).isr = isr /\ Acknowledge(s).isr = isr
      <4> HIDE DEF r, s, k, irr, isr, c
      <4>1. s = [r EXCEPT !.card = c]
        BY <2>2 DEF c
      <4> QED BY <2>2, <2>3, <2>4, <4>1 DEF Machine
    <3>2. /\ Dismiss(Acknowledge(r)) = [Acknowledge(r) EXCEPT !.isr = less]
          /\ Dismiss(Acknowledge(s)) = [Acknowledge(s) EXCEPT !.isr = less]
      BY <3>1 DEF Dismiss, Eoi
    <3> HIDE DEF r, s, k, irr, isr, c, less
    <3>3. s = [r EXCEPT !.card = c]
      BY <2>2 DEF c
    <3> QED BY ZenonT(40), <2>2, <2>3, <2>4, <3>2, <3>3 DEF Machine
  <2> HIDE DEF r, s, k, irr, isr, stack, less, c
  <2>8. Twins(Deliver(Acknowledge(r), k), Deliver(Acknowledge(s), k))
    <3> DEFINE e == [r EXCEPT !.irr = irr, !.isr = isr, !.stack = stack, !.flag = FALSE]
               f == [s EXCEPT !.irr = irr, !.isr = isr, !.stack = stack, !.flag = FALSE]
    <3>1. s = [r EXCEPT !.card = c] /\ r \in Machine
      BY <2>2 DEF c
    <3>2. f = [e EXCEPT !.card = c] /\ e.card = r.card /\ e.wall = r.wall
      BY <3>1 DEF Machine
    <3> HIDE DEF e, f
    <3>3. Twins(e, f)
      BY <2>1, <3>2, TwinRest DEF c
    <3> QED BY <2>6, <3>3 DEF e, f
  <2>9. Twins(Dismiss(Acknowledge(r)), Dismiss(Acknowledge(s)))
    <3>1. \A v, w : Twins([r EXCEPT !.irr = v, !.isr = w], [s EXCEPT !.irr = v, !.isr = w])
      BY <2>1, TwinSets
    <3>2. Twins([r EXCEPT !.irr = irr, !.isr = less], [s EXCEPT !.irr = irr, !.isr = less])
      BY Zenon, <3>1
    <3> QED BY Zenon, <2>7, <3>2
  <2> QED BY <2>1, <2>p, <2>5, <2>8, <2>9
<1>2. n.decim = m.decim /\ n.detached = m.detached /\ n.flag = m.flag
  BY TwinFacts
<1>3. ASSUME NEW v PROVE Twins([m EXCEPT !.decim = v], [n EXCEPT !.decim = v])
  BY TwinSets
<1>4. Runs([m EXCEPT !.decim = 0])
  <2>1. 0 \in 0..(Decimation - 1)
    BY ConstantFacts
  <2>2. \A v \in 0..(Decimation - 1) : Runs([m EXCEPT !.decim = v])
    BY SetRuns
  <2> QED BY <2>1, <2>2
<1>5. Twins(PendingIrq([m EXCEPT !.decim = 0]), PendingIrq([n EXCEPT !.decim = 0]))
  BY <1>1, <1>3, <1>4
<1> DEFINE next == m.decim + 1
<1>6. /\ Poll(m) = IF m.detached \/ ~m.flag THEN m
                   ELSE IF next < Decimation THEN [m EXCEPT !.decim = next]
                   ELSE PendingIrq([m EXCEPT !.decim = 0])
      /\ Poll(n) = IF m.detached \/ ~m.flag THEN n
                   ELSE IF next < Decimation THEN [n EXCEPT !.decim = next]
                   ELSE PendingIrq([n EXCEPT !.decim = 0])
  BY <1>2 DEF Poll
<1> HIDE DEF next
<1> QED BY <1>3, <1>5, <1>6

LEMMA TwinTick ==
    ASSUME NEW m, Runs(m), NEW n, Twins(m, n)
    PROVE  Twins(Tick(m), Tick(n))
<1> DEFINE timer == IF m.timer \in {Never, Unarmed} \/ m.timer = -MaxLag THEN m.timer
                    ELSE m.timer - 1
           a == [m EXCEPT !.timer = timer]
           b == [n EXCEPT !.timer = timer]
<1>1. n.timer = m.timer /\ n.wall = m.wall /\ Similar(m.card, n.card) /\ Plays(m.card)
      /\ m \in Machine /\ n = [m EXCEPT !.card = n.card]
  BY TwinFacts
<1> DEFINE i == n.card
<1>2. n = [m EXCEPT !.card = i]
  BY <1>1
<1>3. timer \in (-MaxLag)..Unarmed
  BY <1>1, TimerTypes DEF Machine
<1> DEFINE c == IF m.wall THEN m.card ELSE SB!Advance(m.card)
           d == IF m.wall THEN i ELSE SB!Advance(i)
<1>4. Tick(m) = [a EXCEPT !.card = c]
  BY <1>1 DEF Tick, Machine
<1>5. Tick(n) = [b EXCEPT !.card = d]
  <2>1. Tick(n) = [n EXCEPT !.timer = timer, !.card = d]
    BY <1>1 DEF Tick
  <2> HIDE DEF timer, d, i
  <2> QED BY <1>1, <1>2, <2>1 DEF Machine
<1>6. Runs(a) /\ Twins(a, b) /\ a.card = m.card
  <2> HIDE DEF timer
  <2>1. \A v \in (-MaxLag)..Unarmed : Runs([m EXCEPT !.timer = v])
    BY SetRuns
  <2>2. Twins(a, b)
    BY TwinSets
  <2> QED BY <1>1, <1>3, <2>1, <2>2 DEF Machine
<1>7. Keeps(m.card, c, d)
  <2>1. Keeps(m.card, SB!Advance(m.card), SB!Advance(i))
    BY <1>1, SimilarClock
  <2>2. Keeps(m.card, m.card, i)
    BY <1>1 DEF Keeps
  <2> QED BY <2>1, <2>2
<1> HIDE DEF a, b, c, d
<1> QED BY <1>4, <1>5, <1>6, <1>7, TwinCards

(* What instructions do, in both machines.                                 *)
LEMMA TwinKeyboard ==
    ASSUME NEW m, Runs(m), NEW n, Twins(m, n)
    PROVE  /\ \A command : Twins(KeyboardWrite(m, command), KeyboardWrite(n, command))
           /\ Twins(KeyboardRead(m), KeyboardRead(n))
<1>1. n.kbc = m.kbc /\ n.parameter = m.parameter /\ m.kbc \in Nat
  BY TwinFacts DEF Machine
<1>2. ASSUME NEW v PROVE Twins([m EXCEPT !.kbc = v], [n EXCEPT !.kbc = v])
  BY TwinSets
<1>3. ASSUME NEW v, NEW w
      PROVE  Twins([m EXCEPT !.parameter = w, !.kbc = v], [n EXCEPT !.parameter = w, !.kbc = v])
  BY TwinSets
<1> DEFINE K(j) == m.kbc + j
           less == IF m.kbc = 0 THEN m.kbc ELSE m.kbc - 1
<1>4. Twins(KeyboardRead(m), KeyboardRead(n))
  <2>1. /\ KeyboardRead(m) = [m EXCEPT !.kbc = less]
        /\ KeyboardRead(n) = [n EXCEPT !.kbc = less]
    BY <1>1 DEF KeyboardRead
  <2> QED BY <1>2, <2>1
<1>5. ASSUME NEW command
      PROVE  Twins(KeyboardWrite(m, command), KeyboardWrite(n, command))
  <2> DEFINE W(q) == IF m.parameter THEN [q EXCEPT !.parameter = FALSE, !.kbc = K(1)]
                     ELSE CASE command = "set" -> [q EXCEPT !.parameter = TRUE, !.kbc = K(1)]
                            [] command = "identify" -> [q EXCEPT !.kbc = K(3)]
                            [] command = "reset" -> [q EXCEPT !.kbc = K(2)]
                            [] OTHER -> [q EXCEPT !.kbc = K(1)]
  <2>1. KeyboardWrite(m, command) = W(m) /\ KeyboardWrite(n, command) = W(n)
    BY <1>1 DEF KeyboardWrite
  <2> HIDE DEF K
  <2>2. Twins(W(m), W(n))
    BY <1>2, <1>3
  <2> HIDE DEF W
  <2> QED BY <2>1, <2>2
<1> QED BY <1>4, <1>5

LEMMA TwinEoi ==
    ASSUME NEW m, NEW n, n.isr = m.isr,
           \A v : Twins([m EXCEPT !.isr = v], [n EXCEPT !.isr = v])
    PROVE  Twins(Eoi(m), Eoi(n))
<1> DEFINE less == IF m.isr = {} THEN m.isr ELSE m.isr \ {Lowest(m.isr)}
<1>1. Eoi(m) = [m EXCEPT !.isr = less] /\ Eoi(n) = [n EXCEPT !.isr = less]
  BY DEF Eoi
<1> HIDE DEF less
<1> QED BY <1>1

LEMMA TwinAdvanced ==
    ASSUME NEW m, Runs(m), NEW n, Twins(m, n), NEW stage
    PROVE  /\ Twins(Advanced(m, stage), Advanced(n, stage))
           /\ Twins(Eoi(Advanced(m, stage)), Eoi(Advanced(n, stage)))
<1> DEFINE stack == [m.stack EXCEPT ![Len(m.stack)].stage = stage]
<1>1. n.stack = m.stack /\ n.isr = m.isr /\ m \in Machine /\ n = [m EXCEPT !.card = n.card]
  BY TwinFacts
<1>2. Advanced(m, stage) = [m EXCEPT !.stack = stack] /\ Advanced(n, stage) = [n EXCEPT !.stack = stack]
  BY <1>1 DEF Advanced
<1> HIDE DEF stack
<1>3. Twins([m EXCEPT !.stack = stack], [n EXCEPT !.stack = stack])
  BY TwinSets
<1> DEFINE a == [m EXCEPT !.stack = stack]
           b == [n EXCEPT !.stack = stack]
           i == n.card
<1>4. n = [m EXCEPT !.card = i]
  BY <1>1
<1> HIDE DEF i
<1>5. a.isr = m.isr /\ b.isr = m.isr /\ a.card = m.card /\ a.wall = m.wall
      /\ b = [a EXCEPT !.card = i]
  BY <1>1, <1>4 DEF Machine
<1>6. ASSUME NEW v PROVE Twins([a EXCEPT !.isr = v], [b EXCEPT !.isr = v])
  <2> DEFINE e == [a EXCEPT !.isr = v]
             f == [b EXCEPT !.isr = v]
  <2>1. f = [e EXCEPT !.card = i] /\ e.card = m.card /\ e.wall = m.wall
    BY <1>1, <1>4 DEF Machine
  <2> HIDE DEF e, f
  <2>2. Twins(e, f)
    BY <2>1, TwinRest DEF i
  <2> QED BY <2>2 DEF e, f
<1> HIDE DEF a, b
<1>7. Twins(Eoi(a), Eoi(b))
  BY <1>5, <1>6, TwinEoi
<1> QED BY <1>2, <1>3, <1>7 DEF a, b

-----------------------------------------------------------------------------
(* A machine that was restored without raising the card's interrupt is a   *)
(* twin of the one that was never stopped.                                 *)
TwinInv == Twins(live, live) /\ (twin # Nobody /\ ~kicked => Twins(live, twin))

LEMMA TwinOutside ==
    ASSUME Runs(live), TwinInv, kicked' = kicked, NEW a, NEW b, live' = a,
           twin' = IF Alike(live, twin) THEN b ELSE twin,
           Twins(a, a), Twins(live, twin) => Twins(a, b)
    PROVE  TwinInv'
<1>1. ASSUME twin' # Nobody, ~kicked PROVE Twins(a, twin')
  <2>1. twin # Nobody
    BY <1>1 DEF Alike
  <2>2. Twins(live, twin) /\ Alike(live, twin)
    BY <1>1, <2>1, TwinsAlike DEF TwinInv
  <2> QED BY <2>2
<1>2. Twins(live', live') /\ (twin' # Nobody /\ ~kicked' => Twins(live', twin'))
  BY <1>1
<1> QED BY <1>2 DEF TwinInv

(* The same of an instruction, of which a and b are the states before the  *)
(* clock goes on.                                                          *)
LEMMA TwinExecute ==
    ASSUME Runs(live), TwinInv, kicked' = kicked, NEW a, NEW b, Runs(a), live' = Tick(a),
           twin' = IF Alike(live, twin) THEN Tick(b) ELSE twin,
           Twins(Poll(live), Poll(live)) => Twins(a, a),
           Twins(Poll(live), Poll(twin)) => Twins(a, b)
    PROVE  TwinInv'
<1>1. Twins(Tick(a), Tick(a))
  BY TwinPoll, TwinTick DEF TwinInv
<1>2. Twins(live, twin) => Twins(Tick(a), Tick(b))
  BY TwinPoll, TwinTick
<1> QED BY <1>1, <1>2, TwinOutside

LEMMA MainTwins ==
    ASSUME Runs(live), TwinInv,
           \/ Nop \/ Cli \/ Sti \/ LetIn \/ EnterCall \/ LeaveCall \/ StrayEoi
           \/ \E lines \in Masks : MaskLines(lines)
           \/ \E v \in Vectors : SetVector(v[1], v[2])
           \/ \E command \in {"set", "identify", "reset", "other"} : CommandKeyboard(command)
    PROVE  TwinInv'
<1> DEFINE p == Poll(live)
           q == Poll(twin)
<1>1. Runs(p) /\ Plays(p.card)
  BY PollRuns DEF Runs
<1>2. ASSUME NEW a, NEW b, Runs(a), live' = Tick(a), kicked' = kicked,
             twin' = IF Alike(live, twin) THEN Tick(b) ELSE twin,
             Twins(p, p) => Twins(a, a), Twins(p, q) => Twins(a, b)
      PROVE  TwinInv'
  BY <1>2, TwinExecute
<1> HIDE DEF p, q
<1>3. CASE Nop
  <2>1. /\ live' = Tick(p) /\ kicked' = kicked
        /\ twin' = IF Alike(live, twin) THEN Tick(q) ELSE twin
    BY <1>3 DEF Nop, Execute, Outside, p, q
  <2> QED BY <1>1, <1>2, <2>1
<1>4. CASE Cli
  <2>1. /\ live' = Tick([p EXCEPT !.flag = FALSE])
        /\ twin' = IF Alike(live, twin) THEN Tick([q EXCEPT !.flag = FALSE]) ELSE twin
        /\ kicked' = kicked
    BY <1>4 DEF Cli, Execute, Outside, p, q
  <2>2. Runs([p EXCEPT !.flag = FALSE])
    BY <1>1, SetRuns
  <2>3. \A o : Twins(p, o) => Twins([p EXCEPT !.flag = FALSE], [o EXCEPT !.flag = FALSE])
    BY <1>1, TwinSets
  <2> QED BY <1>2, <2>1, <2>2, <2>3
<1>5. CASE Sti
  <2>1. /\ live' = Tick([p EXCEPT !.flag = TRUE])
        /\ twin' = IF Alike(live, twin) THEN Tick([q EXCEPT !.flag = TRUE]) ELSE twin
        /\ kicked' = kicked
    BY <1>5 DEF Sti, Execute, Outside, p, q
  <2>2. Runs([p EXCEPT !.flag = TRUE])
    BY <1>1, SetRuns
  <2>3. \A o : Twins(p, o) => Twins([p EXCEPT !.flag = TRUE], [o EXCEPT !.flag = TRUE])
    BY <1>1, TwinSets
  <2> QED BY <1>2, <2>1, <2>2, <2>3
<1>6. CASE LetIn
  <2>1. /\ live' = Tick([p EXCEPT !.flag = TRUE])
        /\ twin' = IF Alike(live, twin) THEN Tick([q EXCEPT !.flag = TRUE]) ELSE twin
        /\ kicked' = kicked
    BY <1>6 DEF LetIn, Execute, Outside, p, q
  <2>2. Runs([p EXCEPT !.flag = TRUE])
    BY <1>1, SetRuns
  <2>3. \A o : Twins(p, o) => Twins([p EXCEPT !.flag = TRUE], [o EXCEPT !.flag = TRUE])
    BY <1>1, TwinSets
  <2> QED BY <1>2, <2>1, <2>2, <2>3
<1>7. CASE EnterCall
  <2>1. /\ live' = Tick([p EXCEPT !.detached = TRUE])
        /\ twin' = IF Alike(live, twin) THEN Tick([q EXCEPT !.detached = TRUE]) ELSE twin
        /\ kicked' = kicked
    BY <1>7 DEF EnterCall, Execute, Outside, p, q
  <2>2. Runs([p EXCEPT !.detached = TRUE])
    BY <1>1, SetRuns
  <2>3. \A o : Twins(p, o) => Twins([p EXCEPT !.detached = TRUE], [o EXCEPT !.detached = TRUE])
    BY <1>1, TwinSets
  <2> QED BY <1>2, <2>1, <2>2, <2>3
<1>8. CASE LeaveCall
  <2>1. /\ live' = Tick([p EXCEPT !.detached = FALSE])
        /\ twin' = IF Alike(live, twin) THEN Tick([q EXCEPT !.detached = FALSE]) ELSE twin
        /\ kicked' = kicked
    BY <1>8 DEF LeaveCall, Execute, Outside, p, q
  <2>2. Runs([p EXCEPT !.detached = FALSE])
    BY <1>1, SetRuns
  <2>3. \A o : Twins(p, o) => Twins([p EXCEPT !.detached = FALSE], [o EXCEPT !.detached = FALSE])
    BY <1>1, TwinSets
  <2> QED BY <1>2, <2>1, <2>2, <2>3
<1>9. CASE StrayEoi
  <2>1. /\ live' = Tick(Eoi(p)) /\ kicked' = kicked /\ p.stack = <<>>
        /\ twin' = IF Alike(live, twin) THEN Tick(Eoi(q)) ELSE twin
    BY <1>9 DEF StrayEoi, Main, Execute, Outside, p, q
  <2>2. Runs(Eoi(p))
    BY <1>1, <2>1, StrayEoiRuns
  <2>3. ASSUME NEW o, Twins(p, o) PROVE Twins(Eoi(p), Eoi(o))
    <3>1. o.isr = p.isr
      BY <1>1, <2>3, TwinFacts
    <3>2. \A v : Twins([p EXCEPT !.isr = v], [o EXCEPT !.isr = v])
      BY <1>1, <2>3, TwinSets
    <3> QED BY <3>1, <3>2, TwinEoi
  <2> QED BY <1>2, <2>1, <2>2, <2>3
<1>10. ASSUME NEW lines \in Masks, MaskLines(lines) PROVE TwinInv'
  <2>1. /\ live' = Tick([p EXCEPT !.imr = lines]) /\ kicked' = kicked
        /\ twin' = IF Alike(live, twin) THEN Tick([q EXCEPT !.imr = lines]) ELSE twin
    BY <1>10 DEF MaskLines, Execute, Outside, p, q
  <2>2. Runs([p EXCEPT !.imr = lines])
    <3>1. lines \in SUBSET Line
      BY ProgramConstants
    <3> QED BY <1>1, <3>1, SetRuns
  <2>3. \A o : Twins(p, o) => Twins([p EXCEPT !.imr = lines], [o EXCEPT !.imr = lines])
    BY <1>1, TwinSets
  <2> QED BY <1>2, <2>1, <2>2, <2>3
<1>11. ASSUME NEW v \in Vectors, SetVector(v[1], v[2]) PROVE TwinInv'
  <2> DEFINE Set(m) == [m EXCEPT !.vector[v[1]] = v[2]]
  <2>1. /\ live' = Tick(Set(p)) /\ kicked' = kicked
        /\ twin' = IF Alike(live, twin) THEN Tick(Set(q)) ELSE twin
    BY <1>11 DEF SetVector, Execute, Outside, p, q
  <2>2. Runs(Set(p))
    BY <1>1, VectorRuns
  <2>3. ASSUME NEW o, Twins(p, o) PROVE Twins(Set(p), Set(o))
    <3> DEFINE vector == [p.vector EXCEPT ![v[1]] = v[2]]
    <3>1. Set(p) = [p EXCEPT !.vector = vector] /\ Set(o) = [o EXCEPT !.vector = vector]
      BY <1>1, <2>3, TwinFacts
    <3> HIDE DEF vector, Set
    <3>2. Twins([p EXCEPT !.vector = vector], [o EXCEPT !.vector = vector])
      BY <1>1, <2>3, TwinSets
    <3> QED BY <3>1, <3>2
  <2> HIDE DEF Set
  <2> QED BY <1>2, <2>1, <2>2, <2>3
<1>12. ASSUME NEW command, CommandKeyboard(command) PROVE TwinInv'
  <2>1. /\ live' = Tick(KeyboardWrite(p, command)) /\ kicked' = kicked
        /\ twin' = IF Alike(live, twin) THEN Tick(KeyboardWrite(q, command)) ELSE twin
    BY <1>12 DEF CommandKeyboard, Execute, Outside, p, q
  <2>2. Runs(KeyboardWrite(p, command))
    BY <1>1, KeyboardRuns
  <2>3. \A o : Twins(p, o) => Twins(KeyboardWrite(p, command), KeyboardWrite(o, command))
    BY <1>1, TwinKeyboard
  <2> QED BY <1>2, <2>1, <2>2, <2>3
<1> QED BY <1>3, <1>4, <1>5, <1>6, <1>7, <1>8, <1>9, <1>10, <1>11, <1>12

LEMMA DeviceTwins ==
    ASSUME Runs(live), TwinInv,
           \/ ReadDsp
           \/ \E command \in DspCommand, n \in Length : WriteDsp(command, n)
           \/ \E bit \in BOOLEAN : ResetDsp(bit)
           \/ \E register \in Register, byte \in Bytes : ProgramChannel(register, byte)
    PROVE  TwinInv'
<1> DEFINE p == Poll(live)
           q == Poll(twin)
<1>1. Runs(p) /\ Plays(p.card)
  BY PollRuns DEF Runs
<1>2. ASSUME NEW a, NEW b, Runs(a), live' = Tick(a), kicked' = kicked,
             twin' = IF Alike(live, twin) THEN Tick(b) ELSE twin,
             Twins(p, p) => Twins(a, a), Twins(p, q) => Twins(a, b)
      PROVE  TwinInv'
  BY <1>2, TwinExecute
<1> HIDE DEF p, q
<1>3. CASE ReadDsp
  <2> DEFINE Done(c) == SB!ReadData(c)
  <2>1. /\ live' = Tick(Plug(p, Done(p.card))) /\ kicked' = kicked
        /\ twin' = IF Alike(live, twin) THEN Tick(Plug(q, Done(q.card))) ELSE twin
    BY <1>3 DEF ReadDsp, OnCard, Execute, Outside, p, q
  <2>2. Plays(Done(p.card))
    BY <1>1, LinePlays
  <2>3. ASSUME NEW d, Similar(p.card, d) PROVE Keeps(p.card, Done(p.card), Done(d))
    BY <1>1, <2>3, SimilarLines
  <2> HIDE DEF Done
  <2>4. Runs(Plug(p, Done(p.card)))
    BY <1>1, <2>2, PlugRuns
  <2>5. \A o : Twins(p, o) => Twins(Plug(p, Done(p.card)), Plug(o, Done(o.card)))
    BY <1>1, <2>2, <2>3, TwinFacts, TwinPlug
  <2> QED BY <1>2, <2>1, <2>4, <2>5
<1>4. ASSUME NEW command \in DspCommand, NEW n \in Length, WriteDsp(command, n)
      PROVE  TwinInv'
  <2> DEFINE Done(c) == SB!Feed(c, command, n)
  <2>1. /\ live' = Tick(Plug(p, Done(p.card))) /\ kicked' = kicked
        /\ twin' = IF Alike(live, twin) THEN Tick(Plug(q, Done(q.card))) ELSE twin
    BY <1>4 DEF WriteDsp, OnCard, Execute, Outside, p, q
  <2>0. command \in SB!Command /\ n \in Samples
    BY SampleFacts DEF DspCommand, SB!Command
  <2>2. Plays(Done(p.card))
    BY <1>1, <2>0, FeedPlays
  <2>3. ASSUME NEW d, Similar(p.card, d) PROVE Keeps(p.card, Done(p.card), Done(d))
    BY <1>1, <2>3, <2>0, SimilarFeed
  <2> HIDE DEF Done
  <2>4. Runs(Plug(p, Done(p.card)))
    BY <1>1, <2>2, PlugRuns
  <2>5. \A o : Twins(p, o) => Twins(Plug(p, Done(p.card)), Plug(o, Done(o.card)))
    BY <1>1, <2>2, <2>3, TwinFacts, TwinPlug
  <2> QED BY <1>2, <2>1, <2>4, <2>5
<1>5. ASSUME NEW bit \in BOOLEAN, ResetDsp(bit) PROVE TwinInv'
  <2> DEFINE Done(c) == SB!Reset(c, bit)
  <2>1. /\ live' = Tick(Plug(p, Done(p.card))) /\ kicked' = kicked
        /\ twin' = IF Alike(live, twin) THEN Tick(Plug(q, Done(q.card))) ELSE twin
    BY <1>5 DEF ResetDsp, OnCard, Execute, Outside, p, q
  <2>2. Plays(Done(p.card))
    BY <1>1, LinePlays
  <2>3. ASSUME NEW d, Similar(p.card, d) PROVE Keeps(p.card, Done(p.card), Done(d))
    BY <1>1, <2>3, SimilarLines
  <2> HIDE DEF Done
  <2>4. Runs(Plug(p, Done(p.card)))
    BY <1>1, <2>2, PlugRuns
  <2>5. \A o : Twins(p, o) => Twins(Plug(p, Done(p.card)), Plug(o, Done(o.card)))
    BY <1>1, <2>2, <2>3, TwinFacts, TwinPlug
  <2> QED BY <1>2, <2>1, <2>4, <2>5
<1>6. ASSUME NEW register \in Register, NEW byte \in Bytes, ProgramChannel(register, byte)
      PROVE  TwinInv'
  <2> DEFINE Done(c) == CASE register = "address" -> SB!WriteAddress(c, byte)
                          [] register = "count" -> SB!WriteCount(c, byte)
                          [] register = "mode" -> SB!WriteMode(c, byte = 1)
                          [] register = "flipflop" -> SB!ClearFlipFlop(c)
                          [] register = "status" -> SB!StatusRead(c)
  <2>1. /\ live' = Tick(Plug(p, Done(p.card))) /\ kicked' = kicked
        /\ twin' = IF Alike(live, twin) THEN Tick(Plug(q, Done(q.card))) ELSE twin
    BY <1>6 DEF ProgramChannel, OnCard, Execute, Outside, p, q
  <2>0. byte \in 0..(Half - 1) /\ (byte = 1) \in BOOLEAN
    BY MachineConstants
  <2>2. Plays(Done(p.card))
    <3>1. /\ Plays(SB!WriteAddress(p.card, byte)) /\ Plays(SB!WriteCount(p.card, byte))
          /\ Plays(SB!WriteMode(p.card, byte = 1)) /\ Plays(SB!ClearFlipFlop(p.card))
          /\ Plays(SB!StatusRead(p.card))
      BY <1>1, <2>0, ChannelPlays, LinePlays
    <3> QED BY <3>1 DEF Register
  <2>3. ASSUME NEW d, Similar(p.card, d) PROVE Keeps(p.card, Done(p.card), Done(d))
    <3> DEFINE c == p.card
    <3> HIDE DEF c
    <3>0. Plays(c) /\ Similar(c, d)
      BY <1>1, <2>3 DEF c
    <3>1. /\ Keeps(c, SB!WriteAddress(c, byte), SB!WriteAddress(d, byte))
          /\ Keeps(c, SB!WriteCount(c, byte), SB!WriteCount(d, byte))
          /\ Keeps(c, SB!WriteMode(c, byte = 1), SB!WriteMode(d, byte = 1))
          /\ Keeps(c, SB!ClearFlipFlop(c), SB!ClearFlipFlop(d))
          /\ Keeps(c, SB!StatusRead(c), SB!StatusRead(d))
      BY <2>0, <3>0, SimilarLines, SimilarChannels
    <3>2. Keeps(c, Done(c), Done(d))
      BY <3>1 DEF Register
    <3> HIDE DEF Done
    <3> QED BY <3>2 DEF c
  <2> HIDE DEF Done
  <2>4. Runs(Plug(p, Done(p.card)))
    BY <1>1, <2>2, PlugRuns
  <2>5. \A o : Twins(p, o) => Twins(Plug(p, Done(p.card)), Plug(o, Done(o.card)))
    BY <1>1, <2>2, <2>3, TwinFacts, TwinPlug
  <2> QED BY <1>2, <2>1, <2>4, <2>5
<1> QED BY <1>3, <1>4, <1>5, <1>6

LEMMA HandlerTwins ==
    ASSUME Runs(live), TwinInv,
           Serve \/ NextBlock \/ EndInterrupt \/ Iret
    PROVE  TwinInv'
<1> DEFINE p == Poll(live)
           q == Poll(twin)
<1>1. Runs(p) /\ Plays(p.card)
  BY PollRuns DEF Runs
<1>2. ASSUME NEW a, NEW b, Runs(a), live' = Tick(a), kicked' = kicked,
             twin' = IF Alike(live, twin) THEN Tick(b) ELSE twin,
             Twins(p, p) => Twins(a, a), Twins(p, q) => Twins(a, b)
      PROVE  TwinInv'
  BY <1>2, TwinExecute
<1> HIDE DEF p, q
<1>3. CASE Serve
  <2> DEFINE s(m) == Advanced(m, "served")
             Done(m) == CASE Top(m).line = Keyboard -> KeyboardRead(s(m))
                          [] Top(m).line = Sound -> Plug(s(m), SB!ReadStatus(s(m).card))
                          [] OTHER -> s(m)
  <2>1. /\ live' = Tick(Done(p)) /\ kicked' = kicked
        /\ twin' = IF Alike(live, twin) THEN Tick(Done(q)) ELSE twin
        /\ p.stack # <<>> /\ Top(p).stage = "entered"
    BY <1>3 DEF Serve, Handling, Top, Execute, Outside, p, q
  <2>2. Runs(s(p))
    BY <1>1, <2>1, AdvancedRuns
  <2>3. ASSUME NEW o, Twins(p, o) PROVE Twins(s(p), s(o)) /\ Top(o) = Top(p)
    BY <1>1, <2>3, TwinAdvanced, TwinFacts
  <2> HIDE DEF s
  <2>4. Runs(Done(p))
    <3>1. Runs(KeyboardRead(s(p))) /\ Runs(Plug(s(p), SB!ReadStatus(s(p).card)))
      BY <2>2, KeyboardRuns, PlugRuns, LinePlays DEF Runs
    <3> QED BY <2>2, <3>1
  <2>5. ASSUME NEW o, Twins(p, o) PROVE Twins(Done(p), Done(o))
    <3>1. Twins(KeyboardRead(s(p)), KeyboardRead(s(o)))
      BY <2>2, <2>3, <2>5, TwinKeyboard
    <3>2. /\ Plays(SB!ReadStatus(s(p).card))
          /\ Keeps(s(p).card, SB!ReadStatus(s(p).card), SB!ReadStatus(s(o).card))
      BY <2>2, <2>3, <2>5, TwinFacts, SimilarLines, LinePlays
    <3>3. Twins(Plug(s(p), SB!ReadStatus(s(p).card)), Plug(s(o), SB!ReadStatus(s(o).card)))
      BY <2>2, <2>3, <2>5, <3>2, TwinPlug
    <3> QED BY <2>3, <2>5, <3>1, <3>3
  <2> HIDE DEF Done
  <2> QED BY <1>2, <2>1, <2>4, <2>5
<1>4. CASE NextBlock
  <2> DEFINE r(m) == Advanced(m, "refilled")
             Done(m) == Plug(r(m), SB!Feed(r(m).card, "autoinit", 1))
  <2>1. /\ live' = Tick(Done(p)) /\ kicked' = kicked
        /\ twin' = IF Alike(live, twin) THEN Tick(Done(q)) ELSE twin
        /\ p.stack # <<>> /\ Top(p).stage = "served"
    BY <1>4 DEF NextBlock, Handling, Top, Execute, Outside, p, q
  <2>2. Runs(r(p))
    BY <1>1, <2>1, AdvancedRuns
  <2>3. ASSUME NEW o, Twins(p, o) PROVE Twins(r(p), r(o))
    BY <1>1, <2>3, TwinAdvanced
  <2> HIDE DEF r
  <2>4. "autoinit" \in SB!Command /\ 1 \in Samples /\ Plays(r(p).card)
    BY <2>2, SampleFacts DEF SB!Command, Runs
  <2>5. Plays(SB!Feed(r(p).card, "autoinit", 1))
    BY <2>4, FeedPlays
  <2>6. Runs(Done(p))
    BY <2>2, <2>5, PlugRuns
  <2>7. ASSUME NEW o, Twins(p, o) PROVE Twins(Done(p), Done(o))
    <3>1. Similar(r(p).card, r(o).card)
      BY <2>2, <2>3, <2>7, TwinFacts
    <3>2. Keeps(r(p).card, SB!Feed(r(p).card, "autoinit", 1), SB!Feed(r(o).card, "autoinit", 1))
      BY <2>4, <3>1, SimilarFeed
    <3> QED BY <2>2, <2>3, <2>5, <2>7, <3>2, TwinPlug
  <2> HIDE DEF Done
  <2> QED BY <1>2, <2>1, <2>6, <2>7
<1>5. CASE EndInterrupt
  <2> DEFINE Done(m) == Eoi(Advanced(m, "ended"))
  <2>1. /\ live' = Tick(Done(p)) /\ kicked' = kicked
        /\ twin' = IF Alike(live, twin) THEN Tick(Done(q)) ELSE twin
        /\ p.stack # <<>> /\ Top(p).stage # "ended"
    BY <1>5 DEF EndInterrupt, Handling, Top, Execute, Outside, p, q
  <2>2. Runs(Done(p))
    BY <1>1, <2>1, EndedRuns
  <2>3. ASSUME NEW o, Twins(p, o) PROVE Twins(Done(p), Done(o))
    BY <1>1, <2>3, TwinAdvanced
  <2> HIDE DEF Done
  <2> QED BY <1>2, <2>1, <2>2, <2>3
<1>6. CASE Iret
  <2> DEFINE Less(m) == SubSeq(m.stack, 1, Len(m.stack) - 1)
             Done(m) == [m EXCEPT !.stack = Less(m), !.flag = TRUE]
  <2>1. /\ live' = Tick(Done(p)) /\ kicked' = kicked
        /\ twin' = IF Alike(live, twin) THEN Tick(Done(q)) ELSE twin
        /\ p.stack # <<>> /\ Top(p).stage = "ended"
    BY <1>6 DEF Iret, Handling, Top, Execute, Outside, p, q
  <2>2. Runs(Done(p))
    BY <1>1, <2>1, ReturnedRuns
  <2>3. ASSUME NEW o, Twins(p, o) PROVE Twins(Done(p), Done(o))
    <3>1. Less(o) = Less(p)
      BY <1>1, <2>3, TwinFacts
    <3> HIDE DEF Less
    <3>2. \A v, w : Twins([p EXCEPT !.stack = v, !.flag = w], [o EXCEPT !.stack = v, !.flag = w])
      BY <1>1, <2>3, TwinSets
    <3>3. Done(o) = [o EXCEPT !.stack = Less(p), !.flag = TRUE]
      BY <3>1
    <3> QED BY <3>2, <3>3
  <2> HIDE DEF Done
  <2> QED BY <1>2, <2>1, <2>2, <2>3
<1> QED BY <1>3, <1>4, <1>5, <1>6

LEMMA PressTwins ==
    ASSUME Runs(live), TwinInv,
           \/ Press \/ WallTick
           \/ \E deterministic \in BOOLEAN : SetSoundClock(deterministic)
    PROVE  TwinInv'
<1>1. CASE Press
  <2> DEFINE Done(m) == [m EXCEPT !.kbc = m.kbc + 1]
  <2>1. /\ live' = Done(live) /\ kicked' = kicked
        /\ twin' = IF Alike(live, twin) THEN Done(twin) ELSE twin
    BY <1>1 DEF Press, Outside
  <2>2. ASSUME NEW o, Twins(live, o) PROVE Twins(Done(live), Done(o))
    <3> DEFINE k == live.kbc + 1
    <3>1. Done(o) = [o EXCEPT !.kbc = k] /\ Done(live) = [live EXCEPT !.kbc = k]
      BY <2>2, TwinFacts
    <3> HIDE DEF k, Done
    <3>2. Twins([live EXCEPT !.kbc = k], [o EXCEPT !.kbc = k])
      BY <2>2, TwinSets
    <3> QED BY <3>1, <3>2
  <2> HIDE DEF Done
  <2> QED BY <2>1, <2>2, TwinOutside DEF TwinInv
<1>2. CASE WallTick
  <2> DEFINE Done(m) == [m EXCEPT !.card = SB!Advance(m.card)]
  <2>1. /\ live' = Done(live) /\ kicked' = kicked
        /\ twin' = IF Alike(live, twin) THEN Done(twin) ELSE twin
    BY <1>2 DEF WallTick, Outside
  <2>2. ASSUME NEW o, Twins(live, o) PROVE Twins(Done(live), Done(o))
    <3>1. Plays(live.card) /\ Similar(live.card, o.card)
      BY <2>2, TwinFacts
    <3>2. Keeps(live.card, SB!Advance(live.card), SB!Advance(o.card))
      BY <3>1, SimilarClock
    <3> QED BY <2>2, <3>2, TwinCards
  <2> HIDE DEF Done
  <2> QED BY <2>1, <2>2, TwinOutside DEF TwinInv
<1>3. ASSUME NEW deterministic \in BOOLEAN, SetSoundClock(deterministic)
      PROVE  TwinInv'
  <2> DEFINE n == CHOOSE n \in Length : TRUE
             wall == ~deterministic
             Card(c) == SB!Resync([c EXCEPT !.anchored = wall], n)
             Done(m) == [m EXCEPT !.wall = wall, !.card = Card(m.card)]
  <2>1. /\ live' = Done(live) /\ kicked' = kicked
        /\ twin' = IF Alike(live, twin) THEN Done(twin) ELSE twin
    BY <1>3 DEF SetSoundClock, Outside, Switched
  <2>2. n \in Length /\ wall \in BOOLEAN
    BY MachineConstants
  <2> HIDE DEF n, wall
  <2>3. ASSUME NEW o, Twins(live, o) PROVE Twins(Done(live), Done(o))
    <3> DEFINE i == o.card
               c == Card(live.card)
               d == Card(i)
    <3>1. Plays(live.card) /\ Similar(live.card, i) /\ live \in Machine
      BY <2>3, TwinFacts
    <3>2. o = [live EXCEPT !.card = i]
      BY <2>3, TwinFacts
    <3>3. Similar(c, d) /\ c.anchored = wall
      BY <2>2, <3>1, SimilarClock
    <3> HIDE DEF c, d, i
    <3>4. Done(live) = [live EXCEPT !.wall = wall, !.card = c]
      BY DEF c
    <3>5. Done(o) = [o EXCEPT !.wall = wall, !.card = d]
      BY DEF d, i
    <3> HIDE DEF Done
    <3>6. /\ Done(o) = [Done(live) EXCEPT !.card = d] /\ Done(live).wall = wall
          /\ Done(live).card = c
      BY <3>1, <3>2, <3>4, <3>5 DEF Machine
    <3>7. \A a, b : b = [a EXCEPT !.card = d] /\ a.wall = wall /\ a.card = c => Twins(a, b)
      BY <3>3 DEF Twins
    <3> QED BY <3>6, <3>7
  <2> HIDE DEF Done
  <2> QED BY <2>1, <2>3, TwinOutside DEF TwinInv
<1> QED BY <1>1, <1>2, <1>3

(* The snapshot itself: without a kick it is the card but for its due time *)
(* and its history.                                                        *)
LEMMA SnapshotTwins ==
    ASSUME Runs(live), TwinInv, Snapshot
    PROVE  TwinInv'
<1> DEFINE c == live.card
           due == IF c.pending THEN SB!Remaining(c) ELSE SB!Unset
           d == [c EXCEPT !.anchored = FALSE, !.raised = FALSE, !.played = <<>>, !.due = due]
<1>1. /\ live' = live /\ kicked' = SB!Restored(c, FALSE).raised /\ ~live.wall
      /\ twin' = Plug([live EXCEPT !.wall = FALSE], SB!Restored(c, FALSE))
  BY DEF Snapshot, Resume, Capture
<1>2. live \in Machine /\ c \in SB!Card /\ ~c.raised /\ ~c.anchored /\ c.due \in Int
  <2>1. live.wall = live.card.anchored
    BY DEF TwinInv, Twins
  <2> QED BY <1>1, <2>1 DEF Runs, Plays, SB!Card
<1>3. ASSUME ~kicked' PROVE Twins(live, twin')
  <2>1. SB!Restored(c, FALSE) = d
    <3>1. SB!Restored(c, FALSE) \in {d, SB!FireIrq(d)}
      BY DEF SB!Restored
    <3> HIDE DEF due
    <3>2. SB!FireIrq(d).raised
      BY <1>2 DEF SB!FireIrq, SB!Card
    <3> QED BY <1>1, <1>3, <3>1, <3>2
  <2>2. due \in Int /\ Dues(c, due)
    <3>1. SB!Unset \in Int
      BY LongestLength
    <3> QED BY <1>2, <3>1 DEF SB!Remaining, Dues
  <2> HIDE DEF due
  <2>3. d = Other(c, due, <<>>) /\ ~d.raised /\ [d EXCEPT !.raised = FALSE] = d
    BY <1>2 DEF Other, SB!Card
  <2>4. Similar(c, d)
    BY <2>2, <2>3 DEF Similar
  <2> HIDE DEF d, c
  <2>5. twin' = [live EXCEPT !.wall = FALSE, !.card = d]
    BY <1>1, <1>2, <2>1, <2>3 DEF Plug, Machine
  <2>6. live.wall = FALSE
    BY <1>1, <1>2 DEF Machine
  <2>7. twin' = [live EXCEPT !.card = d]
    BY <1>2, <2>5, <2>6 DEF Machine
  <2> QED BY <2>4, <2>7 DEF Twins, TwinInv, c
<1>4. Twins(live', live') /\ (twin' # Nobody /\ ~kicked' => Twins(live', twin'))
  BY <1>1, <1>3 DEF TwinInv
<1> QED BY <1>4 DEF TwinInv

LEMMA InitTwins == ASSUME Init PROVE TwinInv
<1>1. PICK card \in FirstCard : live.card = card /\ live.wall = FALSE
  BY DEF Init
<1>2. ~card.anchored /\ card \in SB!Card
  <2>1. \A b \in BOOLEAN : SB!Fresh(b, FALSE).anchored = FALSE
    BY DEF SB!Fresh
  <2>2. ASSUME NEW n, NEW count PROVE Streaming(n, count).anchored = FALSE
    <3> DEFINE ch == [base |-> 0, count |-> count, cur |-> 0, auto |-> TRUE, high |-> FALSE]
               c == SB!Fresh(FALSE, FALSE)
               d == [c EXCEPT !.blocklen = n, !.channel = ch]
    <3>1. c \in SB!Card /\ ~c.anchored /\ ~c.detection
      BY FreshPlays DEF Plays, SB!Fresh
    <3> HIDE DEF c, ch
    <3>2. d.anchored = FALSE /\ ~d.detection /\ DOMAIN d = DOMAIN c
      BY <3>1 DEF SB!Card
    <3>3. Streaming(n, count) = SB!StartDma(d, n)
      BY DEF Streaming, c, ch
    <3> QED BY <3>1, <3>2, <3>3 DEF SB!StartDma, SB!Card
  <2>3. card.anchored = FALSE
    BY <2>1, <2>2 DEF FirstCard
  <2>4. card \in SB!Card
    BY FirstCardPlays DEF Plays
  <2> QED BY <2>3, <2>4
<1>3. live.wall = live.card.anchored
  BY <1>1, <1>2 DEF SB!Card
<1>4. Twins(live, live)
  BY <1>3, InitRuns, OwnTwin
<1>5. twin = Nobody
  BY DEF Init
<1> QED BY <1>4, <1>5 DEF TwinInv

LEMMA NextTwins == ASSUME Runs(live), TwinInv, [Next]_vars PROVE TwinInv'
<1>1. CASE Next
  BY <1>1, MainTwins, DeviceTwins, HandlerTwins, PressTwins, SnapshotTwins
     DEF Next, Program, Handler
<1>2. CASE UNCHANGED vars
  BY <1>2 DEF vars, TwinInv
<1> QED BY <1>1, <1>2

(* A resumed machine goes on as the one that was never stopped, for every  *)
(* program and every change of the clock, unless its card kick-started the *)
(* stream as it was restored.                                              *)
THEOREM Resumes == Spec => []ResumedAlike
<1>1. Init => Runs(live) /\ TwinInv
  BY InitRuns, InitTwins
<1>2. Runs(live) /\ TwinInv /\ [Next]_vars => (Runs(live) /\ TwinInv)'
  <2>1. ASSUME Runs(live), TwinInv, [Next]_vars PROVE Runs(live)' /\ TwinInv'
    BY <2>1, NextRuns, NextTwins DEF Runs
  <2> QED BY <2>1
<1>3. Runs(live) /\ TwinInv => ResumedAlike
  BY TwinsAlike DEF TwinInv, ResumedAlike, NeverStopped
<1> QED BY <1>1, <1>2, <1>3, PTL DEF Spec
=============================================================================
