----------------------------- MODULE DevicePorts -----------------------------
(***************************************************************************)
(* The port-programmed devices of the real-mode machine (src/dos_re/       *)
(* dos.py): the EGA's and VGA's indexed registers, the attribute           *)
(* controller with its flip-flop, the interval timer and the speaker, the  *)
(* AdLib's two ports and the keyboard controller's.                        *)
(*                                                                         *)
(* A device machine is a record; a byte is a digit of base Base and a word *)
(* two of them.  Ports are named by what they are; the port after one is   *)
(* its successor.                                                          *)
(***************************************************************************)
EXTENDS Integers, Sequences

CONSTANTS
    Base,      \* 256 in the code
    Indices    \* of indexed registers

Byte == 0..Base - 1
Low(w) == w % Base
High(w) == w \div Base

(* Of each pair of ports the first takes an index and the second the data. *)
Indexed == {"sequencer", "graphics", "crtc"}

Fresh == [
    index |-> [d \in Indexed |-> 0], regs |-> [d \in Indexed |-> [i \in Indices |-> 0]],
    planar |-> FALSE, linear |-> FALSE,
    start |-> 0, pan |-> [pel |-> 0, start |-> 0, active |-> FALSE],
    flipflop |-> FALSE, attrIndex |-> 0, attr |-> [i \in Indices |-> 0], shown |-> TRUE,
    misc |-> 0,
    timer |-> [c \in {0, 2} |-> [access |-> 3, low |-> TRUE, latch |-> 0, reload |-> 0]],
    anchor |-> 0, readLatch |-> <<>>, now |-> 0,
    speaker |-> 0, heard |-> <<>>,
    adlib |-> 0, chip |-> [i \in Indices |-> 0], status |-> "clear",
    key |-> 0, full |-> FALSE]

(* The indices that mean something here.                                   *)
MapMask == 2           \* of the sequencer
StartHigh == 12 % 4    \* of the CRTC
StartLow == 13 % 4
PelPan == 3            \* of the attribute controller
TimerControl == 1      \* of the AdLib

-----------------------------------------------------------------------------
(* EGA: _track_ega_ports, _write_crtc_register.  Touching the sequencer or *)
(* the graphics controller turns planes on, except in the linear modes.    *)
Crtc(m, i, v) ==
    CASE i = StartHigh -> [m EXCEPT !.start = (v * Base) + Low(@)]
      [] i = StartLow -> [m EXCEPT !.start = (High(@) * Base) + v]
      [] OTHER -> m

SetRegister(m, d, i, v) ==
    LET set == [m EXCEPT !.regs[d][i] = v]
    IN  IF d = "crtc" THEN Crtc(set, i, v) ELSE [set EXCEPT !.planar = @ \/ ~m.linear]

OutIndexByte(m, d, v) ==
    [m EXCEPT !.index[d] = v, !.planar = @ \/ (d # "crtc" /\ ~m.linear)]
OutDataByte(m, d, v) == SetRegister(m, d, m.index[d], v)
(* Faulty, to break properties: the index is not kept.                     *)
OutIndexWordUnlatched(m, d, w) == SetRegister(m, d, Low(w), High(w))
OutIndexWord(m, d, w) == SetRegister([m EXCEPT !.index[d] = Low(w)], d, Low(w), High(w))

(* The attribute controller: index and data on one port, in turn.  The pel *)
(* pan is latched together with the display's start.                       *)
OutAttribute(m, v, on) ==
    IF ~m.flipflop
    THEN [m EXCEPT !.attrIndex = v, !.shown = on, !.flipflop = TRUE]
    ELSE [m EXCEPT !.attr[m.attrIndex] = v, !.flipflop = FALSE,
                   !.pan = IF m.attrIndex = PelPan
                           THEN [pel |-> v, start |-> m.start, active |-> TRUE] ELSE @]
(* IN 3DAh: the flip-flop is reset.                                        *)
InStatus(m) == [m EXCEPT !.flipflop = FALSE]

(* INT 10h, set mode: planes off in a linear mode, the screen at its       *)
(* origin and visible.                                                     *)
SetMode(m, linear) ==
    [m EXCEPT !.linear = linear, !.planar = @ /\ ~linear, !.start = 0, !.flipflop = FALSE,
              !.pan = [pel |-> 0, start |-> m.pan.start, active |-> FALSE], !.shown = TRUE]

-----------------------------------------------------------------------------
(* The timer: _track_pc_speaker.  The counter of channel 0 runs from the   *)
(* last complete load (_pit_channel0_live_value).                          *)
Count(reload) == IF reload = 0 THEN Base * Base ELSE reload
Live(m) == LET n == Count(m.timer[0].reload)
           IN  (n - ((m.now - m.anchor) % n)) % n

Notify(m) == [m EXCEPT !.heard = <<m.speaker, Count(m.timer[2].reload)>>]

OutControl(m, c, access) ==
    CASE access = 0 /\ c = 0 -> [m EXCEPT !.readLatch = <<Low(Live(m)), High(Live(m))>>]
      [] OTHER -> [m EXCEPT !.timer[c].access = access, !.timer[c].low = TRUE,
                            !.timer[c].latch = IF access \in {1, 2} THEN 0 ELSE @]

Loaded(m, c, reload) ==
    LET set == [m EXCEPT !.timer[c].reload = reload]
    IN  IF c = 0 THEN [set EXCEPT !.anchor = m.now] ELSE Notify(set)

OutCounter(m, c, v) ==
    LET t == m.timer[c]
    IN  CASE t.access = 1 -> Loaded(m, c, (High(t.reload) * Base) + v)
          [] t.access = 2 -> Loaded(m, c, (v * Base) + Low(t.reload))
          [] t.access \in {0, 3} /\ t.low ->
                 [m EXCEPT !.timer[c].latch = v, !.timer[c].low = FALSE]
          [] OTHER -> Loaded([m EXCEPT !.timer[c].low = TRUE], c, (v * Base) + t.latch)

(* IN 40h: the latched bytes, then the live low byte.                      *)
CounterByte(m) == IF m.readLatch # <<>> THEN Head(m.readLatch) ELSE Low(Live(m))
InCounter(m) == [m EXCEPT !.readLatch = IF @ = <<>> THEN @ ELSE Tail(@)]

OutSpeaker(m, v) == Notify([m EXCEPT !.speaker = v])

(* AdLib: _track_adlib_ports; a timer that is started has expired.         *)
OutAdlibIndex(m, v) == [m EXCEPT !.adlib = v]
OutAdlibData(m, v) ==
    [m EXCEPT !.chip[m.adlib] = v,
              !.status = IF m.adlib # TimerControl THEN @
                         ELSE IF v >= Base \div 2 THEN "clear"
                         ELSE IF v % 2 = 1 THEN "expired" ELSE @]

(* Ports 60h and 64h.                                                      *)
Present(m, code) == [m EXCEPT !.key = code, !.full = TRUE]
InKey(m) == [m EXCEPT !.full = FALSE]

-----------------------------------------------------------------------------
(* A byte to a port; a word is two bytes, to the port and the next, but for*)
(* the indexed registers, which take it as it is.                          *)
Ports == ({"index", "data"} \X Indexed) \cup
         {<<"timer", 0>>, <<"timer", 2>>, <<"speaker", 0>>, <<"adlib", 0>>, <<"adlib", 1>>}

ByteOut(m, port, v) ==
    CASE port[1] = "index" -> OutIndexByte(m, port[2], v)
      [] port[1] = "data" -> OutDataByte(m, port[2], v)
      [] port[1] = "timer" -> OutCounter(m, port[2], v)
      [] port[1] = "speaker" -> OutSpeaker(m, v)
      [] port = <<"adlib", 0>> -> OutAdlibIndex(m, v)
      [] port = <<"adlib", 1>> -> OutAdlibData(m, v)

WordOut(m, port, w) ==
    CASE port[1] = "index" -> OutIndexWord(m, port[2], w)
      [] port = <<"adlib", 0>> -> OutAdlibData(OutAdlibIndex(m, Low(w)), High(w))

(* dos.py:815-820: a game writes the map mask as one word or as two bytes. *)
WordAsBytes(m, w) ==
    /\ \A d \in Indexed :
          WordOut(m, <<"index", d>>, w) =
              ByteOut(ByteOut(m, <<"index", d>>, Low(w)), <<"data", d>>, High(w))
    /\ WordOut(m, <<"adlib", 0>>, w) =
           ByteOut(ByteOut(m, <<"adlib", 0>>, Low(w)), <<"adlib", 1>>, High(w))

(* From whatever was written before: reading the status and writing an     *)
(* index and a value sets that register, and a pan takes the start there is*)
AttributeSet(m, i, v) ==
    LET after == OutAttribute(OutAttribute(InStatus(m), i, TRUE), v, FALSE)
    IN  /\ after.attr = [m.attr EXCEPT ![i] = v] /\ ~after.flipflop /\ after.shown
        /\ i = PelPan => after.pan = [pel |-> v, start |-> m.start, active |-> TRUE]

(* The start is whole again once both halves are written, in either order, *)
(* with the index left anywhere.                                           *)
StartWhole(m, w) ==
    LET half(s, i, v) == ByteOut(ByteOut(s, <<"index", "crtc">>, i), <<"data", "crtc">>, v)
    IN  /\ half(half(m, StartHigh, High(w)), StartLow, Low(w)).start = w
        /\ half(half(m, StartLow, Low(w)), StartHigh, High(w)).start = w

(* A timer channel takes a whole count after a control word, however the   *)
(* last one was left; channel 0 counts down from then (dos.py:586-596), and*)
(* a latch command freezes both its bytes, whatever the time between.      *)
CounterLoaded(m, c, w, later) ==
    LET after == ByteOut(ByteOut(OutControl(m, c, 3), <<"timer", c>>, Low(w)),
                         <<"timer", c>>, High(w))
        then == [after EXCEPT !.now = m.now + later]
        frozen == OutControl(then, 0, 0)
        second == [InCounter(frozen) EXCEPT !.now = frozen.now + 1]
    IN  /\ after.timer[c].reload = w /\ after.timer[c].low
        /\ c = 0 /\ later < Count(w) => Live(then) = (Count(w) - later) % Count(w)
        /\ c = 0 => (CounterByte(second) * Base) + CounterByte(frozen) = Live(then)
        /\ c = 2 => after.heard = <<m.speaker, Count(w)>>

(* A mode set forgets how the last screen was scrolled.                    *)
ModeFresh(m, linear) ==
    LET after == SetMode(m, linear)
    IN  after.start = 0 /\ ~after.pan.active /\ after.shown /\ (linear => ~after.planar)

PortsExact(m, w, i, v) ==
    /\ WordAsBytes(m, w) /\ StartWhole(m, w) /\ AttributeSet(m, i, v)
    /\ \A c \in {0, 2}, later \in Byte : CounterLoaded(m, c, w, later)
    /\ \A linear \in BOOLEAN : ModeFresh(m, linear)
=============================================================================
