----------------------------- MODULE MouseDriver -----------------------------
(***************************************************************************)
(* The Microsoft mouse driver (INT 33h) as the real-mode machine           *)
(* (src/dos_re/dos.py) and the protected-mode one (src/dos_re/dos4gw.py)   *)
(* each implement it, driven by the same program and the same front-end.   *)
(*                                                                         *)
(* Coordinates are small numbers; the front-end's are fractions of Parts.  *)
(***************************************************************************)
EXTENDS Integers

CONSTANTS
    Width, Height,    \* the driver's own box is 0..Width by 0..Height
    Parts,            \* the front-end's coordinates are 0..Parts, over Parts
    Coordinates,      \* what a program asks for
    MaxCalls          \* bound: calls of the program and of the front-end

VARIABLES
    real, pm,         \* the two drivers' state
    answers,          \* history: what each answered last
    calls             \* counts the program's calls

mouseVars == <<real, pm, answers, calls>>

Box == <<0, Width, 0, Height>>
Reset == [x |-> Width \div 2, y |-> Height \div 2, buttons |-> 0, range |-> Box]
Silence == [ax |-> "kept", bx |-> "kept", cx |-> "kept", dx |-> "kept"]

Init == /\ real = [x |-> Width \div 2, y |-> Height \div 2, buttons |-> 0, range |-> Box]
        /\ pm = Reset
        /\ answers = [real |-> Silence, pm |-> Silence]
        /\ calls = 0

Least(a, b) == IF a < b THEN a ELSE b
Most(a, b) == IF a > b THEN a ELSE b
Clamp(v, low, high) == Most(low, Least(high, v))

(* set_mouse_norm, the same in both: onto the program's own box.  A box    *)
(* whose ends are swapped is walked backwards; int() rounds to zero.       *)
Towards(low, high, u) == IF high >= low THEN low + ((u * (high - low)) \div Parts)
                         ELSE low - ((u * (low - high)) \div Parts)
Moved(m, u, v, buttons) ==
    [m EXCEPT !.x = Towards(m.range[1], m.range[2], u),
              !.y = Towards(m.range[3], m.range[4], v), !.buttons = buttons]

(* The calls that change the driver; cx and dx are words in both.          *)
Change(m, fn, cx, dx) ==
    CASE fn = "reset" -> Reset
      [] fn = "position" -> [m EXCEPT !.x = cx, !.y = dx]
      [] fn = "across" -> [m EXCEPT !.range = <<cx, dx, m.range[3], m.range[4]>>]
      [] fn = "down" -> [m EXCEPT !.range = <<m.range[1], m.range[2], cx, dx>>]
      [] OTHER -> m

(* Real mode.                                                              *)
RealAnswer(m, fn) ==
    CASE fn = "reset" -> [Silence EXCEPT !.ax = "there", !.bx = 2]
      [] fn = "read" -> [Silence EXCEPT !.bx = m.buttons,
                            !.cx = Clamp(m.x, m.range[1], m.range[2]),
                            !.dx = Clamp(m.y, m.range[3], m.range[4])]
      [] fn = "presses" -> [ax |-> m.buttons, bx |-> 0, cx |-> m.x, dx |-> m.y]
      [] fn = "motion" -> [Silence EXCEPT !.cx = 0, !.dx = 0]
      [] fn = "version" -> [Silence EXCEPT !.bx = "8.20", !.cx = "PS/2"]
      [] fn = "sensitivity" -> [Silence EXCEPT !.bx = 50, !.cx = 50, !.dx = 50]
      [] OTHER -> Silence

(* Protected mode.  A call it does not know is an error, where real mode   *)
(* does nothing; none of these is.                                         *)
(* Faulty, to break properties: the position as it is, not as the box.     *)
PmReadBare(m) == [Silence EXCEPT !.bx = m.buttons, !.cx = m.x, !.dx = m.y]
PmRead(m) == [Silence EXCEPT !.bx = m.buttons,
                 !.cx = Most(m.range[1], Least(m.range[2], m.x)),
                 !.dx = Most(m.range[3], Least(m.range[4], m.y))]
PmAnswer(m, fn) ==
    CASE fn = "read" -> PmRead(m)
      [] fn \in {"position", "across", "down", "cursor", "handler"} -> Silence
      [] fn = "reset" -> [Silence EXCEPT !.ax = "there", !.bx = 2]
      [] fn = "motion" -> [Silence EXCEPT !.cx = 0, !.dx = 0]
      [] fn = "version" -> [Silence EXCEPT !.bx = "8.20", !.cx = "PS/2"]
      [] fn = "presses" -> [ax |-> m.buttons, bx |-> 0, cx |-> m.x, dx |-> m.y]
      [] fn = "sensitivity" -> [Silence EXCEPT !.bx = 50, !.cx = 50, !.dx = 50]

Functions == {"reset", "cursor", "read", "position", "presses", "across", "down", "motion",
              "version", "handler", "sensitivity"}

Call(fn, cx, dx) ==
    /\ calls < MaxCalls
    /\ calls' = calls + 1
    /\ answers' = [real |-> RealAnswer(real, fn), pm |-> PmAnswer(pm, fn)]
    /\ real' = Change(real, fn, cx, dx)
    /\ pm' = Change(pm, fn, cx, dx)

Move(u, v, buttons) ==
    /\ calls < MaxCalls
    /\ calls' = calls + 1
    /\ real' = Moved(real, u, v, buttons)
    /\ pm' = Moved(pm, u, v, buttons)
    /\ UNCHANGED answers

Next == \/ \E fn \in Functions, cx, dx \in Coordinates :
              (fn \notin {"position", "across", "down"} => cx = dx) /\ Call(fn, cx, dx)
        \/ \E u, v \in 0..Parts, buttons \in {0, 1} : Move(u, v, buttons)

Spec == Init /\ [][Next]_mouseVars

-----------------------------------------------------------------------------
(* A program is told the same by both machines (dos.py:279: "so both answer*)
(* the API identically").                                                  *)
AnswersAlike == answers.real = answers.pm /\ real = pm

(* Wherever the front-end moved it, and whatever box the program chose     *)
(* since, the pointer it reads is in the box (KE's pad, dos4gw.py:951).    *)
ReadInBox ==
    LET told == RealAnswer(real, "read")
    IN  /\ real.range[1] <= real.range[2] => told.cx \in real.range[1]..real.range[2]
        /\ real.range[3] <= real.range[4] => told.dx \in real.range[3]..real.range[4]

MouseAlike == AnswersAlike /\ ReadInBox
=============================================================================
