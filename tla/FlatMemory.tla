----------------------------- MODULE FlatMemory -----------------------------
(***************************************************************************)
(* The flat memory of the 80386 (FlatMemory of src/dos_re/cpu386.py), the  *)
(* unchained VGA behind its aperture (VGASequencer of dos4gw.py), the      *)
(* string moves and stores with their bulk form, and the frame that is     *)
(* rendered of it all.                                                     *)
(*                                                                         *)
(* A byte is any value: nothing here computes with one.  Segment bases are *)
(* zero and the index registers do not wrap.  An exception (an index past  *)
(* the end, an unmodelled write mode) leaves the memory as it was by then, *)
(* not ok, and nothing later changes it.                                   *)
(***************************************************************************)
EXTENDS Integers, Sequences, FiniteSets

CONSTANTS
    Space,      \* bytes of the memory
    Aperture,   \* of the VGA (0xA0000), Window bytes long
    Window,     \* bytes of a plane (2^16)
    Planes,     \* 0..3
    Default     \* what a CRTC at rest is taken for: width, height and offset

InAperture(m, a) == m.attached /\ a - Aperture \in 0..Window - 1

-----------------------------------------------------------------------------
(* One byte of the planes.                                                 *)

Failed(m) == [m EXCEPT !.ok = FALSE]

Enabled(m, p, off, v) == IF p \in m.mapMask THEN [m.planes[p] EXCEPT ![off] = v] ELSE m.planes[p]

VgaWrite(m, off, v) ==
    IF ~m.ok \/ m.mode \notin {0, 1} \/ (m.mode = 0 /\ ~m.fullMask)
       \/ (off >= Window /\ m.mapMask # {})
    THEN Failed(m)
    ELSE IF off >= Window THEN m
    ELSE [m EXCEPT !.planes = [p \in Planes |->
             Enabled(m, p, off, IF m.mode = 1 THEN m.latches[p] ELSE v)]]

VgaRead(m, off) ==
    IF ~m.ok \/ off >= Window THEN [value |-> 0, memory |-> Failed(m)]
    ELSE [value |-> m.planes[m.readMap][off],
          memory |-> [m EXCEPT !.latches = [p \in Planes |-> m.planes[p][off]]]]

-----------------------------------------------------------------------------
(* A unit of one, two or four bytes: whether it is in the aperture is      *)
(* asked of its first byte.                                                *)

Read(m, a, size) ==
    IF InAperture(m, a)
    THEN LET Upto[n \in 0..size] ==
                 IF n = 0 THEN [value |-> <<>>, memory |-> m]
                 ELSE LET r == VgaRead(Upto[n - 1].memory, a - Aperture + n - 1)
                      IN  [value |-> Append(Upto[n - 1].value, r.value), memory |-> r.memory]
         IN  Upto[size]
    ELSE IF ~m.ok \/ a + size > Space
    THEN [value |-> [i \in 1..size |-> 0], memory |-> Failed(m)]
    ELSE [value |-> [i \in 1..size |-> m.data[a + i - 1]], memory |-> m]

(* (The bytes below the end are written before the one behind it raises.)  *)
Stored(m, a, v) ==
    [m EXCEPT !.data = [b \in 0..Space - 1 |->
        IF b - a \in 0..Len(v) - 1 THEN v[b - a + 1] ELSE m.data[b]]]

Write(m, a, v) ==
    IF InAperture(m, a)
    THEN LET Upto[n \in 0..Len(v)] ==
                 IF n = 0 THEN m ELSE VgaWrite(Upto[n - 1], a - Aperture + n - 1, v[n])
         IN  Upto[Len(v)]
    ELSE IF ~m.ok THEN m
    ELSE IF a + Len(v) > Space THEN Failed(Stored(m, a, v))
    ELSE Stored(m, a, v)

-----------------------------------------------------------------------------
(* REP MOVS and REP STOS, forwards: unit by unit.                          *)

MovsByUnits(m, src, dst, size, count) ==
    LET After[i \in 0..count] ==
            IF i = 0 THEN m
            ELSE LET r == Read(After[i - 1], src + (i - 1) * size, size)
                 IN  Write(r.memory, dst + (i - 1) * size, r.value)
    IN  After[count]

StosByUnits(m, v, dst, count) ==
    LET After[i \in 0..count] ==
            IF i = 0 THEN m ELSE Write(After[i - 1], dst + (i - 1) * Len(v), v)
    IN  After[count]

(* The copy within the aperture, byte by byte where the ranges overlap or  *)
(* leave the planes.                                                       *)
ByteByByte(m, src, dst, n) ==
    LET After[i \in 0..n] ==
            IF i = 0 THEN m
            ELSE LET r == VgaRead(After[i - 1], src + i - 1)
                 IN  VgaWrite(r.memory, dst + i - 1, r.value)
    IN  After[n]

Overlap(src, dst, n) == src + n > dst /\ dst + n > src

PlaneMoved(m, p, src, dst, n) ==
    IF p \notin m.mapMask THEN m.planes[p]
    ELSE [o \in 0..Window - 1 |->
             IF o - dst \notin 0..n - 1 THEN m.planes[p][o]
             ELSE m.planes[IF m.mode = 1 THEN p ELSE m.readMap][src + o - dst]]

(* Faulty, to break properties: overlapping ranges are moved in one go.    *)
BulkCopyAtOnce(m, src, dst, n) ==
    IF src + n > Window \/ dst + n > Window THEN ByteByByte(m, src, dst, n)
    ELSE [m EXCEPT !.planes = [p \in Planes |-> PlaneMoved(m, p, src, dst, n)],
                   !.latches = [p \in Planes |-> m.planes[p][src + n - 1]]]
BulkCopy(m, src, dst, n) ==
    IF src + n > Window \/ dst + n > Window \/ (Overlap(src, dst, n) /\ src # dst)
    THEN ByteByByte(m, src, dst, n)
    ELSE IF m.mode \notin {0, 1} THEN Failed(m)
    ELSE LET moved == [m EXCEPT !.planes = [p \in Planes |-> PlaneMoved(m, p, src, dst, n)]]
         IN  [moved EXCEPT !.latches = [p \in Planes |-> moved.planes[p][src + n - 1]]]

(* The bulk form: Declined where it leaves the work to the loop.           *)
Declined == [declined |-> TRUE]

Across(m, a, n) == InAperture(m, a) # InAperture(m, a + n - 1)

(* A slice beyond the end of the memory makes it longer.                   *)
Scattered(m, dst, bytes) ==
    IF ~InAperture(m, dst)
    THEN [Stored(m, dst, bytes) EXCEPT !.grown = m.grown \/ dst + Len(bytes) > Space]
    ELSE IF m.mode = 1 \/ dst - Aperture + Len(bytes) > Window THEN Declined
    ELSE [m EXCEPT !.planes = [p \in Planes |-> [o \in 0..Window - 1 |->
             IF p \in m.mapMask /\ o - (dst - Aperture) \in 0..Len(bytes) - 1
             THEN bytes[o - (dst - Aperture) + 1] ELSE m.planes[p][o]]]]

(* (What the slice behind the end of the memory would be is less of it;    *)
(* the copy then shrinks or grows the memory: it is taken as grown.)       *)
Gathered(m, src, n) ==
    IF ~InAperture(m, src)
    THEN [value |-> [i \in 1..n |-> IF src + i - 1 < Space THEN m.data[src + i - 1] ELSE 0],
          memory |-> [m EXCEPT !.grown = m.grown \/ src + n > Space]]
    ELSE [value |-> [i \in 1..n |-> m.planes[m.readMap][src - Aperture + i - 1]],
          memory |-> [m EXCEPT !.latches =
                        [p \in Planes |-> m.planes[p][src - Aperture + n - 1]]]]

BulkMovs(m, src, dst, size, count) ==
    LET n == count * size
        inside == InAperture(m, src) /\ InAperture(m, dst)
    IN  IF count = 0 THEN m
        ELSE IF \/ Across(m, dst, n) \/ Across(m, src, n)
                \/ (InAperture(m, src) \/ InAperture(m, dst)) /\ ~m.fullMask
                \/ InAperture(m, dst) /\ m.mode \notin {0, 1}
        THEN Declined
        ELSE IF inside THEN BulkCopy(m, src - Aperture, dst - Aperture, n)
        ELSE IF \/ ~InAperture(m, src) /\ ~InAperture(m, dst) /\ src < dst /\ dst < src + n
                \/ InAperture(m, src) /\ src - Aperture + n > Window
        THEN Declined
        ELSE LET g == Gathered(m, src, n) IN Scattered(g.memory, dst, g.value)

BulkStos(m, v, dst, count) ==
    LET n == count * Len(v)
    IN  IF count = 0 THEN m
        ELSE IF \/ Across(m, dst, n)
                \/ InAperture(m, dst) /\ (~m.fullMask \/ m.mode \notin {0, 1})
        THEN Declined
        ELSE Scattered(m, dst, [i \in 1..n |-> v[((i - 1) % Len(v)) + 1]])

-----------------------------------------------------------------------------
(* What is shown: the width and height the CRTC was programmed for, and    *)
(* the pixels, of the planes or of the linear bytes.                       *)

Geometry(crtc) ==
    IF crtc.hde = 0 \/ crtc.vdeLow = 0 THEN Default
    ELSE [width |-> (crtc.hde + 1) * Cardinality(Planes),
          height |-> (crtc.vdeLow + crtc.overflow + 1) \div (crtc.maxScan + 1)]

Stride(crtc) == (IF crtc.offset = 0 THEN Default.offset ELSE crtc.offset) * 2

RenderModeX(m, crtc, start, size) ==
    [y \in 0..size.height - 1 |-> [x \in 0..size.width - 1 |->
        m.planes[x % Cardinality(Planes)]
                [((start + (y * Stride(crtc)) + (x \div Cardinality(Planes))) % Window)]]]

RenderPmFrame(m, crtc, start) ==
    IF m.chained
    THEN [y \in 0..Default.height - 1 |-> [x \in 0..Default.width - 1 |->
             m.data[Aperture + (y * Default.width) + x]]]
    ELSE RenderModeX(m, crtc, start, Geometry(crtc))

-----------------------------------------------------------------------------
(* The bulk forms ("byte-identical semantics to the per-unit loop", and    *)
(* "behavior can never diverge silently") are the loops.  Not covered by   *)
(* that, because the code is not so:                                       *)
(*   - a range around the whole aperture, of which only the two ends are   *)
(*     looked at;                                                          *)
(*   - units of several bytes moved within the aperture, which the copy    *)
(*     takes one byte at a time: where the ranges are nearer than a unit,  *)
(*     and in write mode 1, in which the loop has a unit's last latches    *)
(*     written to all of its bytes;                                        *)
(*   - the latches after a copy onto itself in write mode 0, which the copy*)
(*     takes from what it wrote ("including the final latch state");       *)
(*   - a range past the end of the memory, where the slice makes it longer *)
(*     and the loop raises.                                                *)
Around(m, a, n) == m.attached /\ a < Aperture /\ a + n > Aperture + Window
ByTheByte(m, src, dst, size) ==
    /\ size > 1 /\ InAperture(m, src) /\ InAperture(m, dst)
    /\ m.mode = 1 \/ (src - dst \in -(size - 1)..size - 1 /\ src # dst)

SameButLatches(a, b) == [a EXCEPT !.latches = b.latches] = b

BulkAlike(m, src, dst, v, count) ==
    LET size == Len(v)
        n == count * size
        loop == MovsByUnits(m, src, dst, size, count)
        bulk == BulkMovs(m, src, dst, size, count)
        stores == StosByUnits(m, v, dst, count)
        stored == BulkStos(m, v, dst, count)
        within == dst + n <= Space /\ ~Around(m, dst, n)
    IN  /\ \/ bulk = Declined \/ bulk = loop \/ (~bulk.ok /\ ~loop.ok)
           \/ src = dst /\ m.mode = 0 /\ SameButLatches(bulk, loop)
           \/ ByTheByte(m, src, dst, size) \/ ~within
           \/ src + n > Space \/ Around(m, src, n)
        /\ stored = Declined \/ stored = stores \/ ~within

(* A pixel drawn as programs draw it, through the map mask in the unchained*)
(* mode or at its own address in the chained, is that pixel in the frame,  *)
(* and no other is.                                                        *)
PixelShown(m, crtc, start, x, y, v) ==
    LET size == IF m.chained THEN Default ELSE Geometry(crtc)
        drawn == IF m.chained THEN Write(m, Aperture + (y * Default.width) + x, <<v>>)
                 ELSE [Write([m EXCEPT !.mapMask = {x % Cardinality(Planes)}],
                             Aperture + ((start + (y * Stride(crtc)) + (x \div Cardinality(Planes))) % Window),
                             <<v>>)
                       EXCEPT !.mapMask = m.mapMask]
        before == RenderPmFrame(m, crtc, start)
    IN  /\ m.attached = ~m.chained /\ m.mode = 0 /\ m.fullMask
        /\ x < size.width /\ y < size.height
        => RenderPmFrame(drawn, crtc, start) = [before EXCEPT ![y][x] = v]
=============================================================================
