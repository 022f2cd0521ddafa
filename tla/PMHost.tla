------------------------------- MODULE PMHost -------------------------------
(***************************************************************************)
(* The services a protected-mode program gets from DOS4GWHost              *)
(* (src/dos_re/dos4gw.py) and what a snapshot of a running program carries *)
(* of them (src/dos_re/pm_snapshot.py).                                    *)
(*                                                                         *)
(* A machine m is one record; a call leaves [m |-> the machine after it,   *)
(* says |-> what the program is told].  The sound card, the interrupt      *)
(* controller and the keyboard's controller are in PMInterrupts, the mouse *)
(* in MouseDriver, the planes' contents in FlatMemory: here "picture" is   *)
(* what was drawn last.                                                    *)
(***************************************************************************)
EXTENDS Integers, Sequences, SequencesExt

CONSTANTS PoolBase, PoolEnd,   \* the paragraphs of conventional memory
          Entries,             \* palette entries; 256 in the code
          Disk                 \* the files there are at first, by name

Nothing == [n \in {} |-> 0]
NoMode == -1
Leave(m, says) == [m |-> m, says |-> says]
Told(m, says) == Leave(m, <<says>>)
Raises(m) == Leave(m, <<"raises">>)

FreshVga ==
    [seq |-> 0, gc |-> 0, crtc |-> 0, mask |-> 15, readMap |-> 0, writeMode |-> 0, bitMask |-> 255,
     chain4 |-> TRUE, start |-> 0, registers |-> [n \in 0..31 |-> 0]]
Shell ==
    [next |-> PoolBase, blocks |-> Nothing, selector |-> 128, bases |-> Nothing, vectors |-> Nothing,
     keys |-> <<>>, vga |-> FreshVga, attached |-> FALSE, picture |-> "clear",
     palette |-> [n \in 0..(3 * Entries) - 1 |-> 0], entry |-> 0, phase |-> 0, reads |-> 0,
     files |-> Nothing, handle |-> 5, dta |-> 0, mode |-> NoMode, exit |-> -1, box |-> <<0, 639, 0, 199>>]
Fresh == [Shell EXCEPT !.attached = FALSE] @@ [disk |-> Disk]

-----------------------------------------------------------------------------
(* Memory.  What DOS and DPMI grant comes from one pool, which never takes *)
(* anything back; both say how much there is when it is too little.        *)

Available(m) == PoolEnd - m.next
AllocateDos(m, paragraphs) ==
    IF paragraphs > Available(m) THEN Leave(m, <<"refused", Available(m)>>)
    ELSE Leave([m EXCEPT !.next = @ + paragraphs], <<"granted", m.next>>)
AllocateDpmi(m, paragraphs) ==
    IF m.next + paragraphs > PoolEnd THEN Leave(m, <<"refused", Available(m)>>)
    ELSE Leave([m EXCEPT !.next = @ + paragraphs, !.selector = @ + 8,
                         !.bases = (m.selector :> m.next) @@ @,
                         !.blocks = (m.selector :> <<m.next, paragraphs>>) @@ @],
               <<"granted", m.next, m.selector>>)
FreeDpmi(m, selector) ==
    Leave([m EXCEPT !.blocks = [s \in DOMAIN @ \ {selector} |-> @[s]]], <<>>)
(* Nothing is taken back, and every resize is granted.                     *)
FreeOrResizeDos(m) == Leave(m, <<>>)
SegmentBase(m, selector) ==
    Told(m, IF selector - (selector % 4) \in DOMAIN m.bases THEN m.bases[selector - (selector % 4)] ELSE 0)

(* The vectors of IRQ handlers; one never set is told as the BIOS stub.    *)
Stub == <<"cs", 1048403>>
SetVector(m, n, handler) == Leave([m EXCEPT !.vectors = (n :> handler) @@ @], <<>>)
GetVector(m, n) == Told(m, IF n \in DOMAIN m.vectors THEN m.vectors[n] ELSE Stub)

(* The console's queue; a read of none is an error of the driver's.        *)
ReadKey(m) == IF m.keys = <<>> THEN Raises(m) ELSE Told([m EXCEPT !.keys = Tail(@)], Head(m.keys))
KeyStatus(m) == Told(m, IF m.keys = <<>> THEN 0 ELSE 255)
TypeKey(m, key) == Leave([m EXCEPT !.keys = Append(@, key)], <<>>)

(* What is told whatever the state: the drive, the extender's and the      *)
(* multiplex's answers, and a heap that nothing is ever taken from.        *)
Constant == [drive |-> 2, sbrk |-> 0, extender |-> 0, xms |-> 0, protected |-> 0, heap |-> 4194304]
Ask(m, what) == Told(m, Constant[what])
SetDta(m, at) == Leave([m EXCEPT !.dta = at], <<>>)
Terminate(m, code) == Leave([m EXCEPT !.exit = code], <<>>)

-----------------------------------------------------------------------------
(* Files.  A write waits in the handle's buffer until a read, a seek or    *)
(* the close; opening for writing alone empties the file.  A file is open  *)
(* once at a time: what a handle reads ahead is left out.                  *)

Longest(a, b) == IF a > b THEN a ELSE b
Lesser(a, b) == IF a < b THEN a ELSE b
Overlaid(old, at, new) ==
    [n \in 1..Longest(Len(old), at + Len(new)) |->
        IF n \in at + 1..at + Len(new) THEN new[n - at] ELSE IF n <= Len(old) THEN old[n] ELSE 0]
Flushed(m, h) ==
    LET f == m.files[h]
    IN  IF f.waits = <<>> THEN m
        ELSE [m EXCEPT !.disk[f.name] = Overlaid(@, f.at - Len(f.waits), f.waits), !.files[h].waits = <<>>]
Mode(access) == CASE access = 0 -> "rb" [] access = 1 -> "wb" [] OTHER -> "rb+"
Opened(disk, name, mode) == IF mode = "wb" THEN [disk EXCEPT ![name] = <<>>] ELSE disk
Open(m, name, access) ==
    IF name \notin DOMAIN m.disk THEN Leave(m, <<"refused", 2>>)
    ELSE Told([m EXCEPT !.handle = @ + 1, !.disk = Opened(@, name, Mode(access)),
                        !.files = (m.handle :> [name |-> name, at |-> 0, mode |-> Mode(access), waits |-> <<>>]) @@ @],
              m.handle)
Close(m, h) ==
    IF h \notin DOMAIN m.files THEN Leave(m, <<>>)
    ELSE Leave([Flushed(m, h) EXCEPT !.files = [k \in DOMAIN @ \ {h} |-> @[k]]], <<>>)
ReadFile(m, h, count) ==
    IF h \notin DOMAIN m.files THEN Leave(m, <<"refused", 6>>)
    ELSE IF m.files[h].mode = "wb" THEN Raises(m)
    ELSE LET b == Flushed(m, h)
             contents == b.disk[b.files[h].name]
             got == SubSeq(contents, b.files[h].at + 1, Lesser(Len(contents), b.files[h].at + count))
         IN  Leave([b EXCEPT !.files[h].at = @ + Len(got)], <<"read", got>>)
WriteFile(m, h, data) ==
    IF h \notin DOMAIN m.files THEN Leave(m, <<"refused", 6>>)
    ELSE IF m.files[h].mode = "rb" THEN Raises(m)
    ELSE Told([m EXCEPT !.files[h].at = @ + Len(data), !.files[h].waits = @ \o data], Len(data))
Seek(m, h, offset, whence) ==
    IF h \notin DOMAIN m.files THEN Leave(m, <<"refused", 6>>)
    ELSE LET b == Flushed(m, h)
             from == CASE whence = 0 -> 0 [] whence = 1 -> b.files[h].at [] OTHER -> Len(b.disk[b.files[h].name])
         IN  Told([b EXCEPT !.files[h].at = from + offset], from + offset)
DeviceInfo(m, h) == Told(m, IF h \in 0..2 THEN 32979 ELSE 0)

-----------------------------------------------------------------------------
(* The display.                                                            *)

SetMode(m, al) ==
    Leave([m EXCEPT !.mode = al % 128, !.attached = FALSE,
                    !.vga = [@ EXCEPT !.chain4 = TRUE, !.mask = 15, !.readMap = 0, !.writeMode = 0, !.bitMask = 255, !.start = 0,
                                      !.registers = ((1 :> 79) @@ (7 :> 31) @@ (9 :> 65) @@ (18 :> 143) @@ (19 :> 40)) @@ @],
                    !.picture = IF al >= 128 THEN @ ELSE "clear"], <<>>)
GetMode(m) == Told(m, IF m.mode = NoMode THEN 3 ELSE m.mode)
Draw(m, picture) == Leave([m EXCEPT !.picture = picture], <<>>)

SequencerData(m, v) ==
    CASE m.vga.seq = 2 -> [m EXCEPT !.vga.mask = v % 16]
      [] m.vga.seq = 4 -> [m EXCEPT !.vga.chain4 = (v \div 8) % 2 = 1, !.attached = (v \div 8) % 2 = 0]
      [] OTHER -> m
GraphicsData(m, v) ==
    CASE m.vga.gc = 4 -> [m EXCEPT !.vga.readMap = v % 4] [] m.vga.gc = 5 -> [m EXCEPT !.vga.writeMode = v % 4]
      [] m.vga.gc = 8 -> [m EXCEPT !.vga.bitMask = v] [] OTHER -> m
CrtcData(m, v) ==
    LET n == m.vga.crtc % 32
        registers == [m.vga.registers EXCEPT ![n] = v]
    IN  [m EXCEPT !.vga.registers = registers,
                  !.vga.start = IF n \in {12, 13} THEN (registers[12] * 256) + registers[13] ELSE @]
PaletteData(m, v) ==
    [m EXCEPT !.palette[((m.entry * 3) + m.phase) % (3 * Entries)] = v % 64,
              !.phase = (m.phase + 1) % 3, !.entry = IF m.phase = 2 THEN (@ + 1) % Entries ELSE @]
WriteByte(m, port, v) ==
    CASE port = \h3C4 -> [m EXCEPT !.vga.seq = v] [] port = \h3C5 -> SequencerData(m, v)
      [] port = \h3CE -> [m EXCEPT !.vga.gc = v] [] port = \h3CF -> GraphicsData(m, v)
      [] port = \h3D4 -> [m EXCEPT !.vga.crtc = v] [] port = \h3D5 -> CrtcData(m, v)
      [] port = \h3C8 -> [m EXCEPT !.entry = v % Entries, !.phase = 0] [] port = \h3C9 -> PaletteData(m, v)
      [] OTHER -> m
(* A word to an index register writes the data register behind it too.     *)
PortWrite(m, port, value, bits) ==
    LET low == WriteByte(m, port, value % 256)
    IN  Leave(IF bits = 16 /\ port \in {\h3C4, \h3CE, \h3D4} THEN WriteByte(low, port + 1, (value \div 256) % 256) ELSE low, <<>>)
PortRead(m, port) ==
    CASE port = \h3C5 -> Told(m, CASE m.vga.seq = 2 -> m.vga.mask [] m.vga.seq = 4 -> IF m.vga.chain4 THEN 14 ELSE 6 [] OTHER -> 0)
      [] port = \h3CF -> Told(m, CASE m.vga.gc = 4 -> m.vga.readMap [] m.vga.gc = 5 -> m.vga.writeMode
                                   [] m.vga.gc = 8 -> m.vga.bitMask [] OTHER -> 0)
      [] port = \h3D5 -> Told(m, m.vga.registers[m.vga.crtc % 32])
      [] port = \h3DA -> Told([m EXCEPT !.reads = (@ + 1) % 2], IF m.reads = 0 THEN 9 ELSE 0)
      [] OTHER -> Told(m, 0)
SetRange(m, box) == Leave([m EXCEPT !.box = box], <<>>)

-----------------------------------------------------------------------------
(* Snapshots.  What is captured is put onto a machine that was just made,  *)
(* or that has run already.                                                *)

Capture(m) ==
    [next |-> m.next, blocks |-> m.blocks, selector |-> m.selector, bases |-> m.bases, vectors |-> m.vectors,
     keys |-> m.keys, vga |-> m.vga, picture |-> m.picture, palette |-> m.palette, entry |-> m.entry, phase |-> m.phase,
     reads |-> m.reads, handle |-> m.handle, dta |-> m.dta, mode |-> m.mode, exit |-> m.exit, box |-> m.box,
     files |-> [h \in DOMAIN m.files |-> [name |-> m.files[h].name, at |-> m.files[h].at, mode |-> m.files[h].mode]]]
Closed(m) ==
    [name \in DOMAIN m.disk |->
        IF \E h \in DOMAIN m.files : m.files[h].name = name
        THEN Flushed(m, CHOOSE h \in DOMAIN m.files : m.files[h].name = name).disk[name] ELSE m.disk[name]]
Reopened(disk, files) ==
    [name \in DOMAIN disk |-> IF \E h \in DOMAIN files : files[h].name = name /\ files[h].mode = "wb" THEN <<>> ELSE disk[name]]
Apply(shell, s, disk) ==
    [x \in DOMAIN shell |->
        CASE x = "files" -> [h \in DOMAIN s.files |-> s.files[h] @@ [waits |-> <<>>]]
          [] x = "disk" -> Reopened(disk, s.files)
          [] x = "attached" -> ~s.vga.chain4
          [] x = "mode" -> IF s.mode = NoMode THEN shell.mode ELSE s.mode
          [] OTHER -> s[x]]
(* A clone is made bare, on the same files; a snapshot is put back onto    *)
(* the machine it was taken of.                                            *)
Clone(m) == Apply(Fresh, Capture(m), m.disk)
Rewind(m, s) == Apply(m, s, Closed(m))

-----------------------------------------------------------------------------
(* A program's calls, and what it is told.                                 *)

Serve(m, c) ==
    CASE c[1] = "alloc" -> AllocateDos(m, c[2]) [] c[1] = "dpmi" -> AllocateDpmi(m, c[2]) [] c[1] = "free" -> FreeDpmi(m, c[2])
      [] c[1] = "resize" -> FreeOrResizeDos(m) [] c[1] = "base" -> SegmentBase(m, c[2])
      [] c[1] = "vector" -> SetVector(m, c[2], c[3]) [] c[1] = "handler" -> GetVector(m, c[2])
      [] c[1] = "key" -> ReadKey(m) [] c[1] = "status" -> KeyStatus(m) [] c[1] = "type" -> TypeKey(m, c[2])
      [] c[1] = "dta" -> SetDta(m, c[2]) [] c[1] = "exit" -> Terminate(m, c[2])
      [] c[1] = "open" -> Open(m, c[2], c[3]) [] c[1] = "close" -> Close(m, c[2]) [] c[1] = "read" -> ReadFile(m, c[2], c[3])
      [] c[1] = "write" -> WriteFile(m, c[2], c[3]) [] c[1] = "seek" -> Seek(m, c[2], c[3], c[4])
      [] c[1] = "mode" -> SetMode(m, c[2]) [] c[1] = "getmode" -> GetMode(m) [] c[1] = "draw" -> Draw(m, c[2])
      [] c[1] = "out" -> PortWrite(m, c[2], c[3], c[4]) [] c[1] = "in" -> PortRead(m, c[2])
      [] c[1] = "range" -> SetRange(m, c[2]) [] c[1] = "info" -> DeviceInfo(m, c[2]) [] c[1] = "ask" -> Ask(m, c[2])
Trail(m, calls) == FoldLeft(LAMBDA trail, c : Append(trail, Serve(trail[Len(trail)].m, c)), <<Leave(m, <<>>)>>, calls)
Says(trail) == [n \in 2..Len(trail) |-> trail[n].says]
From(n, calls) == SubSeq(calls, n, Len(calls))

(* Memory is granted once, from the pool; a refusal tells the truth; and a *)
(* selector leads to its block.                                            *)
Granted(calls, trail) ==
    {n \in DOMAIN calls : calls[n][1] \in {"alloc", "dpmi"} /\ trail[n + 1].says[1] = "granted"}
MemoryApart(calls, trail) ==
    /\ \A n \in Granted(calls, trail) :
          LET at == trail[n + 1].says[2] IN
          /\ at >= PoolBase /\ at + calls[n][2] <= PoolEnd
          /\ \A k \in Granted(calls, trail) : k < n => trail[k + 1].says[2] + calls[k][2] <= at
          /\ calls[n][1] = "dpmi" => \A k \in n + 1..Len(trail) : SegmentBase(trail[k].m, trail[n + 1].says[3]).says = <<at>>
    /\ \A n \in DOMAIN calls : calls[n][1] \in {"alloc", "dpmi"} /\ trail[n + 1].says[1] = "refused" =>
          /\ trail[n + 1].says[2] < calls[n][2]
          /\ AllocateDos(trail[n].m, trail[n + 1].says[2]).says[1] = "granted"

(* The planes take the aperture's place just while the display is          *)
(* unchained, and a colour is set by an index and three bytes, whatever    *)
(* was left half written before.                                           *)
DisplayKept(trail) ==
    \A n \in DOMAIN trail :
        /\ trail[n].m.attached = ~trail[n].m.vga.chain4
        /\ \A e \in 0..Entries - 1 :
              LET set == Trail(trail[n].m, << <<"out", \h3C8, e, 8>>, <<"out", \h3C9, 1, 8>>, <<"out", \h3C9, 2, 8>>, <<"out", \h3C9, 3, 8>> >>)
              IN  \A i \in 0..(3 * Entries) - 1 :
                     set[5].m.palette[i] = IF i \div 3 = e THEN (i % 3) + 1 ELSE trail[n].m.palette[i]

(* A program is told the same whether its writes wait or not, and what it  *)
(* closed is on the disk.                                                  *)
AtOnce(m) == [x \in DOMAIN m |-> IF x = "disk" THEN Closed(m) ELSE IF x = "files" THEN [h \in DOMAIN m.files |-> [m.files[h] EXCEPT !.waits = <<>>]] ELSE m[x]]
ServedAtOnce(m, calls) ==
    FoldLeft(LAMBDA trail, c : Append(trail, LET now == Serve(trail[Len(trail)].m, c) IN Leave(AtOnce(now.m), now.says)), <<Leave(m, <<>>)>>, calls)
BufferingUnseen(calls, trail) ==
    LET plain == ServedAtOnce(trail[1].m, calls)
    IN  Says(plain) = Says(trail) /\ \A n \in DOMAIN trail : Closed(trail[n].m) = plain[n].m.disk

(* A clone taken anywhere goes on as the machine does, and so does the     *)
(* machine put back (pm_snapshot.py:16-18) - but for the files open for    *)
(* writing, which a snapshot empties or finds without what was written     *)
(* last, and for a snapshot from before the first mode was set.            *)
Carried(m) == \A h \in DOMAIN m.files : m.files[h].mode = "rb"
ClonedAlike(calls, trail) ==
    \A n \in DOMAIN trail : Carried(trail[n].m) =>
        /\ Clone(trail[n].m) = trail[n].m
        /\ Says(Trail(Clone(trail[n].m), From(n, calls))) = Says(Trail(trail[n].m, From(n, calls)))
RewoundAlike(calls, trail) ==
    \A n \in DOMAIN trail :
        LET last == trail[Len(trail)].m
            again == Rewind(last, Capture(trail[n].m))
        IN  Carried(trail[n].m) /\ last.disk = trail[n].m.disk /\ Closed(last) = last.disk /\ (trail[n].m.mode = NoMode => last.mode = NoMode)
            => Says(Trail(again, From(n, calls))) = Says(Trail(trail[n].m, From(n, calls)))

HostKept(calls) ==
    \A trail \in {Trail(Fresh, calls)} :
        /\ MemoryApart(calls, trail) /\ DisplayKept(trail) /\ BufferingUnseen(calls, trail)
        /\ ClonedAlike(calls, trail) /\ RewoundAlike(calls, trail)
=============================================================================
