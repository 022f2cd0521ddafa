---------------------------- MODULE MachineMemory ----------------------------
(***************************************************************************)
(* The machine's memory (src/dos_re/memory.py) as operators on a record:   *)
(* real-mode addresses that wrap, a ROM that ignores stores, the EGA's     *)
(* planes behind their aperture, with latches, write modes and the         *)
(* write path's ALU, and the block transfers that stand for loops over     *)
(* single bytes.                                                           *)
(*                                                                         *)
(* The sizes are parameters in the order the real machine has them.        *)
(* Translation through selectors and the watchers' callbacks are left out; *)
(* that somebody watches is not.                                           *)
(***************************************************************************)
EXTENDS Integers, Sequences, FiniteSets, Bitwise

CONSTANTS
    Space,       \* linear addresses (2^20)
    Window,      \* offsets in a segment, and bytes in a plane's (2^16)
    Paragraph,   \* bytes between segments (16)
    Aperture,    \* of the EGA (0xA0000), PlaneWindow bytes long
    PlaneWindow,
    Rom,         \* its first address (0xF0000)
    Bits,        \* in a byte (8)
    Planes       \* of the EGA (0..3)

Byte == 0..2^Bits - 1
Ones == 2^Bits - 1
Complement(v) == Ones - v

(* The graphics controller's registers after a reset.                      *)
PlainEga == [mapMask |-> Planes, readPlane |-> 0, rotate |-> 0, op |-> 0, writeMode |-> 0,
             setReset |-> {}, enabled |-> {}, bitMask |-> Ones,
             compares |-> FALSE, colour |-> {}, care |-> Planes]

Blank == [data |-> [a \in 0..Space - 1 |-> 0],
          planes |-> [p \in Planes |-> [a \in 0..PlaneWindow - 1 |-> 0]],
          latches |-> [p \in Planes |-> 0], planar |-> FALSE, ega |-> PlainEga,
          watched |-> FALSE]

Linear(seg, off) == (seg * Paragraph + off) % Space
NextOffset(off) == (off + 1) % Window

InAperture(m, a) == m.planar /\ a - Aperture \in 0..PlaneWindow - 1

-----------------------------------------------------------------------------
(* One byte of the planes.  A read loads the latches; it returns a plane's *)
(* byte, or the pixels that have the colour compared with.                 *)

Latched(m, po) == [m EXCEPT !.latches = [p \in Planes |-> m.planes[p][po]]]

Matching(m, pixel) ==
    \A p \in m.ega.care : (p \in m.ega.colour) = (m.latches[p] \div 2^pixel % 2 = 1)
ColourCompare(m) ==
    LET Sum[n \in 0..Bits] == IF n = 0 THEN 0
                              ELSE Sum[n - 1] + (IF Matching(m, n - 1) THEN 2^(n - 1) ELSE 0)
    IN  Sum[Bits]

PlaneRead(m) == IF m.ega.compares THEN ColourCompare(m) ELSE m.latches[m.ega.readPlane]

Rotated(v, n) == IF n = 0 THEN v ELSE v \div 2^n + (v * 2^(Bits - n) % 2^Bits)

Combined(op, src, latch) ==
    CASE op = 0 -> src [] op = 1 -> src & latch [] op = 2 -> src | latch [] op = 3 -> src ^^ latch

PlaneSource(m, p, v) ==
    IF p \in m.ega.enabled THEN (IF p \in m.ega.setReset THEN Ones ELSE 0)
    ELSE Rotated(v, m.ega.rotate)

(* Faulty, to break properties: the pixels outside the bit mask are taken  *)
(* from the plane's byte's bits in the CPU's data.                         *)
PlaneWriteUnmasked(m, p, po, v) == Combined(m.ega.op, PlaneSource(m, p, v), m.latches[p])
PlaneWrite(m, p, po, v) ==
    LET out == Combined(m.ega.op, PlaneSource(m, p, v), m.latches[p])
    IN  (out & m.ega.bitMask) | (m.latches[p] & Complement(m.ega.bitMask))

(* Write modes 2 and 3 raise: nothing is written by them here.             *)
EgaWb(m, po, v) ==
    [m EXCEPT !.planes = [p \in Planes |->
        IF p \notin m.ega.mapMask THEN m.planes[p]
        ELSE [m.planes[p] EXCEPT ![po] = IF m.ega.writeMode = 1 THEN m.latches[p]
                                         ELSE PlaneWrite(m, p, po, v)]]]

-----------------------------------------------------------------------------
(* Bytes and words.                                                        *)

Rb(m, seg, off) ==
    LET a == Linear(seg, off)
    IN  IF InAperture(m, a)
        THEN LET l == Latched(m, a - Aperture) IN [value |-> PlaneRead(l), memory |-> l]
        ELSE [value |-> m.data[a], memory |-> m]

Wb(m, seg, off, v) ==
    LET a == Linear(seg, off)
    IN  IF a >= Rom THEN m
        ELSE IF InAperture(m, a) THEN EgaWb(m, a - Aperture, v)
        ELSE [m EXCEPT !.data[a] = v]

(* The second byte is the next linear one, whatever the offset; only when  *)
(* the first is in the planes is it looked up again.                       *)
Rw(m, seg, off) ==
    LET a == Linear(seg, off)
        low == Rb(m, seg, off)
        high == IF InAperture(m, a) /\ a + 1 - Aperture < PlaneWindow
                THEN Rb(low.memory, seg, NextOffset(off))
                ELSE [value |-> m.data[(a + 1) % Space], memory |-> low.memory]
    IN  [low |-> low.value, high |-> high.value, memory |-> high.memory]

Ww(m, seg, off, low, high) ==
    LET a == Linear(seg, off)
    IN  IF a >= Rom THEN m
        ELSE IF ~InAperture(m, a)
        THEN [m EXCEPT !.data[a] = low, !.data[(a + 1) % Space] = high]
        ELSE LET first == EgaWb(m, a - Aperture, low)
             IN  IF a + 1 - Aperture < PlaneWindow
                 THEN EgaWb(first, a + 1 - Aperture, high)
                 ELSE [first EXCEPT !.data[a + 1] = high]

-----------------------------------------------------------------------------
(* Blocks.  What a loop over bytes, or elements, does:                     *)

WrittenOneByOne(m, seg, off, payload) ==
    LET After[n \in 0..Len(payload)] ==
            IF n = 0 THEN m ELSE Wb(After[n - 1], seg, (off + n - 1) % Window, payload[n])
    IN  After[Len(payload)]

CopiedOneByOne(m, fromSeg, from, toSeg, to, n) ==
    LET After[i \in 0..n] ==
            IF i = 0 THEN m
            ELSE LET r == Rb(After[i - 1], fromSeg, (from + i - 1) % Window)
                 IN  Wb(r.memory, toSeg, (to + i - 1) % Window, r.value)
    IN  After[n]

(* and when a slice of the array is the same.                              *)
OrdinaryRange(m, seg, off, n, writable) ==
    LET a == Linear(seg, off)
    IN  /\ off + n <= Window /\ a + n <= Space
        /\ writable => a + n <= Rom
        /\ ~(m.planar /\ a < Aperture + PlaneWindow /\ a + n > Aperture)

(* (The planes are kept in the same array, behind the last address.)       *)
PlaneBase(p) == Space + p * PlaneWindow
Sliced(m, to, bytes) ==
    LET At(a, old) == IF a - to \in 0..Len(bytes) - 1 THEN bytes[a - to + 1] ELSE old
    IN  [m EXCEPT !.data = [a \in 0..Space - 1 |-> At(a, m.data[a])],
                  !.planes = [p \in Planes |-> [o \in 0..PlaneWindow - 1 |->
                                At(PlaneBase(p) + o, m.planes[p][o])]]]

WriteExternalBlock(m, seg, off, payload) ==
    IF ~m.watched /\ OrdinaryRange(m, seg, off, Len(payload), TRUE)
    THEN Sliced(m, Linear(seg, off), payload)
    ELSE WrittenOneByOne(m, seg, off, payload)

Repeated(pattern, count) ==
    [i \in 1..Len(pattern) * count |-> pattern[((i - 1) % Len(pattern)) + 1]]

(* Refused means that the caller goes on with the loop.                    *)
Refused == [taken |-> FALSE]
ForwardBulkFill(m, seg, off, pattern, count) ==
    IF ~m.watched /\ OrdinaryRange(m, seg, off, Len(pattern) * count, TRUE)
    THEN [taken |-> TRUE, memory |-> Sliced(m, Linear(seg, off), Repeated(pattern, count))]
    ELSE Refused

Stored(m, a) == IF a < Space THEN m.data[a]
                ELSE m.planes[(a - Space) \div PlaneWindow][(a - Space) % PlaneWindow]
Bytes(m, a, n) == [i \in 1..n |-> Stored(m, a + i - 1)]

(* Faulty, to break properties: the overlap is forgotten, as it is in the  *)
(* helpers for authored code.                                              *)
ForwardBulkCopyMoved(m, fromSeg, from, toSeg, to, n) ==
    IF /\ ~m.watched
       /\ OrdinaryRange(m, fromSeg, from, n, FALSE) /\ OrdinaryRange(m, toSeg, to, n, TRUE)
    THEN [taken |-> TRUE, memory |-> Sliced(m, Linear(toSeg, to), Bytes(m, Linear(fromSeg, from), n))]
    ELSE Refused
ForwardBulkCopy(m, fromSeg, from, toSeg, to, n) ==
    LET src == Linear(fromSeg, from)
        dst == Linear(toSeg, to)
    IN  IF /\ ~m.watched
           /\ OrdinaryRange(m, fromSeg, from, n, FALSE) /\ OrdinaryRange(m, toSeg, to, n, TRUE)
           /\ ~(src < dst /\ dst < src + n)
        THEN [taken |-> TRUE, memory |-> Sliced(m, dst, Bytes(m, src, n))]
        ELSE Refused

(* REP MOVSB forwards, as the helpers for authored code do it (asm.py).    *)
RepMovsb(m, fromSeg, from, toSeg, to, n) ==
    LET src == Linear(fromSeg, from)
        dst == Linear(toSeg, to)
        Overlaps(a) == a < Aperture + PlaneWindow /\ a + n > Aperture
    IN  IF /\ from + n <= Window /\ to + n <= Window /\ ~m.watched
           /\ ~(m.planar /\ (Overlaps(src) \/ Overlaps(dst)))
           /\ src + n <= PlaneBase(Cardinality(Planes)) /\ dst + n <= PlaneBase(Cardinality(Planes))
        THEN Sliced(m, dst, Bytes(m, src, n))
        ELSE CopiedOneByOne(m, fromSeg, from, toSeg, to, n)

-----------------------------------------------------------------------------
(* A transfer of a block leaves the memory, the planes and the latches     *)
(* that the loop it stands for would (memory.py:310-320, cpu.py:1512-1523).*)
FillsAlike(m, seg, off, pattern, count) ==
    LET bulk == ForwardBulkFill(m, seg, off, pattern, count)
        loop == WrittenOneByOne(m, seg, off, Repeated(pattern, count))
    IN  /\ bulk.taken => bulk.memory = loop
        /\ WriteExternalBlock(m, seg, off, Repeated(pattern, count)) = loop

CopiesAlike(m, fromSeg, from, toSeg, to, n) ==
    LET bulk == ForwardBulkCopy(m, fromSeg, from, toSeg, to, n)
    IN  bulk.taken => bulk.memory = CopiedOneByOne(m, fromSeg, from, toSeg, to, n)

(* So does the block copy for authored code (asm.py:166-169 says so where  *)
(* offsets and addresses do not wrap), but where the destination overlaps  *)
(* the source from above, or the ROM, or a range ends behind the last      *)
(* address: there it is a move, and one that writes into the ROM.          *)
HelpersCopyAlike(m, fromSeg, from, toSeg, to, n) ==
    LET src == Linear(fromSeg, from)
        dst == Linear(toSeg, to)
    IN  ~(src < dst /\ dst < src + n) /\ src + n <= Space /\ dst + n <= Rom =>
            RepMovsb(m, fromSeg, from, toSeg, to, n)
                = CopiedOneByOne(m, fromSeg, from, toSeg, to, n)

(* A word is its two bytes, but for what lies at the edges: the second     *)
(* byte is the next linear one also behind a segment's last offset, is not *)
(* in the planes if the first is not, and follows the first into the ROM   *)
(* and, behind the last address, is dropped with it (memory.py:416-449).   *)
WordsAlike(m, seg, off, low, high) ==
    LET a == Linear(seg, off)
        next == NextOffset(off)
        first == Rb(m, seg, off)
        second == Rb(first.memory, seg, next)
    IN  off # Window - 1 /\ ~(m.planar /\ a + 1 = Aperture) =>
            /\ Rw(m, seg, off) = [low |-> first.value, high |-> second.value,
                                  memory |-> second.memory]
            /\ a + 1 \notin {Rom, Space} =>
                  Ww(m, seg, off, low, high) = Wb(Wb(m, seg, off, low), seg, next, high)

(* The screen the planes stand for: the colour of each pixel.              *)
Colour(m, po, pixel) == {p \in Planes : m.planes[p][po] \div 2^pixel % 2 = 1}

(* Drawing with a bit mask: a read, then a write of a colour, changes just *)
(* the pixels in the mask, and those to the colour, in the planes that may *)
(* be written (memory.py:93-104).                                          *)
PixelsDrawn(m, seg, off, colour, mask, v) ==
    LET po == Linear(seg, off) - Aperture
        set == [m EXCEPT !.ega = [PlainEga EXCEPT !.mapMask = m.ega.mapMask, !.enabled = Planes,
                                                  !.setReset = colour, !.bitMask = mask]]
        drawn == Wb(Rb(set, seg, off).memory, seg, off, v)
    IN  InAperture(m, Linear(seg, off)) =>
            \A pixel \in 0..Bits - 1, p \in Planes :
                (p \in Colour(drawn, po, pixel)) =
                    (IF p \in m.ega.mapMask /\ mask \div 2^pixel % 2 = 1 THEN p \in colour
                     ELSE p \in Colour(m, po, pixel))

(* Write mode 1 copies the colours of a byte's pixels.                     *)
PixelsCopied(m, seg, off, toOff, v) ==
    LET set == [m EXCEPT !.ega = [PlainEga EXCEPT !.writeMode = 1]]
        copied == Wb(Rb(set, seg, off).memory, seg, toOff, v)
        po(o) == Linear(seg, o) - Aperture
    IN  InAperture(m, Linear(seg, off)) /\ InAperture(m, Linear(seg, toOff)) =>
            \A pixel \in 0..Bits - 1 :
                Colour(copied, po(toOff), pixel) = Colour(m, po(off), pixel)

(* Read mode 1 finds the pixels that have a colour, in the planes cared    *)
(* for.                                                                    *)
PixelsFound(m, seg, off, colour, care) ==
    LET set == [m EXCEPT !.ega = [PlainEga EXCEPT !.compares = TRUE, !.colour = colour, !.care = care]]
        found == Rb(set, seg, off).value
    IN  InAperture(m, Linear(seg, off)) =>
            \A pixel \in 0..Bits - 1 :
                (found \div 2^pixel % 2 = 1)
                    = (Colour(m, Linear(seg, off) - Aperture, pixel) \cap care = colour \cap care)

(* No store of the CPU or of a service changes the ROM (memory.py:41-46),  *)
(* but for the second byte of a word whose first lies just below it.       *)
RomKept(m, seg, off, low, high) ==
    LET fill == ForwardBulkFill(m, seg, off, <<low, high>>, 2)
        Kept(after) == \A a \in Rom..Space - 1 : after.data[a] = m.data[a]
    IN  /\ Kept(Wb(m, seg, off, low))
        /\ Linear(seg, off) + 1 # Rom => Kept(Ww(m, seg, off, low, high))
        /\ Kept(WriteExternalBlock(m, seg, off, <<low, high, low>>))
        /\ fill.taken => Kept(fill.memory)
=============================================================================
