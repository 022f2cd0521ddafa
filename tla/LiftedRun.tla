----------------------------- MODULE LiftedRun -----------------------------
(***************************************************************************)
(* A program some of whose functions were lifted: emit_function of         *)
(* src/dos_re/lift/emit.py, the helpers its output calls (runtime.py,      *)
(* ../hooks.py), the hooks the installer registers (install.py), and the   *)
(* interpreter that runs the rest.                                         *)
(*                                                                         *)
(* A lifted function is a host function: it runs to completion inside the  *)
(* interpreter's step that found its hook, and calls the interpreter for   *)
(* what is not lifted.  The frames of the host's stack are a variable.     *)
(* Two things unwind all of them: a boundary at which the frame is over    *)
(* parks, and an INT that has to wait puts IP back on itself and raises.   *)
(* The same program, interpreted, is the oracle.                           *)
(***************************************************************************)
EXTENDS FunctionScan

CONSTANTS
    Questions,   \* programs, with what is lifted of them and where they park
    MaxOracle    \* bound: instructions of an oracle's run

VARIABLES
    q,           \* the question; q.lifted are the scans of the lifted functions
    oracle,      \* how the interpreted run ended
    g,           \* the machine
    frames,      \* of the host's stack, the innermost first
    stopped,     \* why the program ended, "" before
    interpreted  \* addresses interpreted because no hook was there

runVars == <<q, oracle, g, frames, stopped, interpreted>>

(* The machine.  log is what the program has seen of the outside world,    *)
(* times the instruction counts it read.                                   *)
NewMachine(code) ==
    [code |-> code, ip |-> 1, acc |-> 0, cx |-> 2, stack |-> <<0>>, time |-> 0, world |-> 0,
     boundaries |-> 0, tries |-> 0, log |-> <<>>, times |-> <<>>]

Top(s) == IF s = <<>> THEN 0 ELSE Head(s)
Below(s, n) == SubSeq(s, n + 1, Len(s))
Pushed(m, v) == [m EXCEPT !.stack = <<v>> \o @]
Counted(m, n) == [m EXCEPT !.time = @ + n]

(* An instruction without its control flow and its count.                  *)
Effect(m, i) ==
    CASE i.op \in {"step", "odd"} -> [m EXCEPT !.acc = (@ + i.n) % 4]
      [] i.op = "read" -> [m EXCEPT !.times = Append(@, m.time)]
      [] i.op = "poll" -> [m EXCEPT !.acc = m.world, !.log = Append(@, m.world)]
      [] i.op = "load" -> [m EXCEPT !.acc = i.n]
      [] i.op = "push" -> Pushed(m, i.n)
      [] i.op = "save" -> Pushed(m, m.acc)
      [] i.op = "drop" -> [m EXCEPT !.acc = Top(m.stack), !.stack = Below(@, 1)]
      [] i.op \in {"patch", "poke"} -> IF i.to \in DOMAIN m.code THEN [m EXCEPT !.code[i.to].n = @ + 1] ELSE m

Branched(m, i, next) ==
    CASE i.op = "jz" -> [m EXCEPT !.ip = IF m.acc = 0 THEN i.to ELSE next]
      [] i.op = "loop" -> [m EXCEPT !.cx = (@ - 1) % 4, !.ip = IF (m.cx - 1) % 4 = 0 THEN next ELSE i.to]
      [] i.op = "jmp" -> [m EXCEPT !.ip = i.to]
      [] i.op = "jmpi" -> [m EXCEPT !.ip = m.acc]
      [] i.op = "ret" -> [m EXCEPT !.ip = Top(m.stack), !.stack = Below(@, 1 + i.n)]

(* The service of an INT: it has nothing yet at the attempts in blocked;   *)
(* an INT with a target is vectored to a handler in memory.                *)
Blocks(m) == m.tries + 1 \in q.blocked
Tried(m) == [m EXCEPT !.tries = @ + 1]
Serviced(m, i, next) ==
    IF i.to = 0 THEN [Tried(m) EXCEPT !.acc = 1, !.log = Append(@, 1), !.ip = next]
    ELSE [Pushed(Tried(m), next) EXCEPT !.ip = i.to]

(* The boundary hook after a head's instruction.  At the park the host     *)
(* delivers what is due, and the program goes on at the next instruction.  *)
Parks(m) == m.boundaries + 1 \in q.parks
AtBoundary(m) == [m EXCEPT !.boundaries = @ + 1, !.world = IF Parks(m) THEN 1 - @ ELSE @]

-----------------------------------------------------------------------------
(* CPU8086.step, without hooks: [machine, stop], where stop is the reason  *)
(* why the program cannot go on, and unwound whether the step raised.      *)
Goes(m) == [machine |-> m, stop |-> "", unwound |-> FALSE]
Stops(m, why) == [machine |-> m, stop |-> why, unwound |-> TRUE]

Stepped(m) ==
    LET a == m.ip
        i == At(m.code, a)
    IN  CASE i.op = "bad" -> Stops(m, IF a = 0 THEN "over" ELSE "unknown")
          [] i.op = "hlt" -> Stops(m, "halted")
          [] i.op \in Sequential ->
                LET done == Counted([Effect(m, i) EXCEPT !.ip = a + 1], 1)
                IN  IF a \notin q.heads THEN Goes(done)
                    ELSE [Goes(AtBoundary(done)) EXCEPT !.unwound = Parks(m)]
          [] i.op = "int" ->
                IF Blocks(m) THEN [Goes(Tried(m)) EXCEPT !.unwound = TRUE]
                ELSE Goes(Counted(Serviced(m, i, a + 1), 1))
          [] i.op = "call" -> Goes(Counted([Pushed(m, a + 1) EXCEPT !.ip = i.to], 1))
          [] i.op = "calli" -> Goes(Counted([Pushed(m, a + 1) EXCEPT !.ip = m.acc], 1))
          [] OTHER -> Goes(Counted(Branched(m, i, a + 1), 1))

(* The oracle's machine after each of its steps.                           *)
OracleRun ==
    LET After[n \in 0..MaxOracle] ==
            IF n = 0 THEN Goes(NewMachine(q.code))
            ELSE LET r == After[n - 1] IN IF r.stop = "" THEN Stepped(r.machine) ELSE r
    IN  After[MaxOracle]

-----------------------------------------------------------------------------
(* What was emitted of a scanned function.  The blocks begin at the leaders*)
(* of the scan and wherever the code may be entered again: at each INT,    *)
(* at the heads and behind them, and, if frames can be abandoned, behind   *)
(* calls and INTs.                                                         *)

HeadsOf(f) == {a \in q.heads \cap f.insts : At(q.code, a).op \in Sequential}
AfterCalls(f) == {a + 1 : a \in {b \in f.insts : At(q.code, b).op \in Calls \cup {"int"}}} \cap f.insts

(* Faulty, to break properties: only innermost frames are entered again;   *)
(* a waiting INT is taken for done.                                        *)
ResumeInnermost(f) ==
    {a \in f.insts : At(q.code, a).op = "int"} \cup HeadsOf(f) \cup {a + 1 : a \in HeadsOf(f)}
ResumeBehindInt(f) ==
    HeadsOf(f) \cup {a + 1 : a \in HeadsOf(f)} \cup AfterCalls(f)
ResumePoints(f) ==
    {a \in f.insts : At(q.code, a).op = "int"} \cup HeadsOf(f) \cup {a + 1 : a \in HeadsOf(f)}
        \cup (IF q.heads = {} THEN {} ELSE AfterCalls(f))

Leaders(f) == f.leaders \cup ResumePoints(f)

(* Registered in the order of their entries; one address may get several.  *)
Hooked(f) == {f.entry} \cup ResumePoints(f)
HookAt(a) ==
    LET owners == {f \in q.lifted : a \in Hooked(f)}
    IN  {f \in owners : \A h \in owners : h.entry <= f.entry}

(* Direct calls that do not go through the interpreter (liftlink.py).      *)
Linkable(f) == f.onlyReturns
Linked(f, to) == IF ~q.linking THEN {} ELSE {h \in q.lifted : h.entry = to /\ Linkable(h)}

LiftedFrame(f, a) == [kind |-> "lifted", fn |-> f, at |-> a, pending |-> 0, sp |-> 0, exact |-> FALSE]
NestedFrame(a, sp, exact) ==
    [kind |-> "nested", fn |-> [entry |-> 0], at |-> a, pending |-> 0, sp |-> sp, exact |-> exact]

Init ==
    /\ q \in Questions
    /\ oracle = OracleRun /\ oracle.stop # ""    \* programs that end
    /\ g = NewMachine(q.code)
    /\ frames = <<>> /\ stopped = "" /\ interpreted = {}

Kept == UNCHANGED <<q, oracle>>

-----------------------------------------------------------------------------
(* The interpreter's loop, at the bottom or in a nested run.               *)

Innermost == IF frames = <<>> THEN "none" ELSE frames[1].kind
Interpreting == stopped = "" /\ Innermost # "lifted"

Returned ==
    /\ Innermost = "nested"
    /\ g.ip = frames[1].at
    /\ IF frames[1].exact THEN Len(g.stack) = frames[1].sp ELSE Len(g.stack) <= frames[1].sp

NestedRunEnds ==
    /\ Interpreting /\ Returned
    /\ frames' = Tail(frames)
    /\ Kept /\ UNCHANGED <<g, stopped, interpreted>>

DispatchHook ==
    /\ Interpreting /\ ~Returned
    /\ \E f \in HookAt(g.ip) :
          IF At(g.code, f.entry) # At(q.code, f.entry)
          THEN stopped' = "patched" /\ UNCHANGED frames   \* self_disable_if_patched
          ELSE frames' = <<LiftedFrame(f, g.ip)>> \o frames /\ UNCHANGED stopped
    /\ Kept /\ UNCHANGED <<g, interpreted>>

Interpret ==
    /\ Interpreting /\ ~Returned /\ HookAt(g.ip) = {}
    /\ LET s == Stepped(g)
       IN  /\ g' = s.machine /\ stopped' = s.stop
           /\ frames' = IF s.unwound THEN <<>> ELSE frames
    /\ interpreted' = interpreted \cup {g.ip}
    /\ Kept

-----------------------------------------------------------------------------
(* A lifted function, one instruction at a time.                           *)

Lifting(ops) ==
    /\ stopped = "" /\ Innermost = "lifted"
    /\ At(q.code, frames[1].at).op \in ops
F == frames[1].fn
Here == frames[1].at
Current == At(q.code, Here)
Flushed == Counted(g, frames[1].pending + 1)
Advanced == [frames[1] EXCEPT !.at = Here + 1, !.pending = 0]

(* Native forms count at the end of the block, the interpreter (of one     *)
(* instruction, at its address, without the hook there) for itself.        *)
EmitSequential ==
    /\ Lifting(Sequential) /\ Here \notin HeadsOf(F)
    /\ LET native == Current.op # "odd"
           count == frames[1].pending + (IF native THEN 1 ELSE 0)
           ends == Here + 1 \in Leaders(F)
           m == Counted(Effect(g, Current), IF native THEN 0 ELSE 1)
       IN  /\ frames' = <<[frames[1] EXCEPT !.at = Here + 1, !.pending = IF ends THEN 0 ELSE count]>>
                            \o Tail(frames)
           /\ g' = IF ends THEN Counted(m, count) ELSE m
    /\ Kept /\ UNCHANGED <<stopped, interpreted>>

EmitHead ==
    /\ Lifting(Sequential) /\ Here \in HeadsOf(F)
    /\ LET m == Counted(Effect(g, Current), frames[1].pending + 1)
       IN  /\ g' = [AtBoundary(m) EXCEPT !.ip = IF Parks(g) THEN Here + 1 ELSE g.ip]
           /\ frames' = IF Parks(g) THEN <<>> ELSE <<Advanced>> \o Tail(frames)
    /\ Kept /\ UNCHANGED <<stopped, interpreted>>

EmitJump ==
    /\ Lifting(Jumps \cup {"jmp"})
    /\ LET m == Branched(Flushed, Current, Here + 1)
       IN  /\ frames' = <<[Advanced EXCEPT !.at = m.ip]>> \o Tail(frames)
           /\ g' = [m EXCEPT !.ip = g.ip]
    /\ Kept /\ UNCHANGED <<stopped, interpreted>>

(* The host function returns: to the caller's lifted body, or to the       *)
(* interpreter that dispatched it, which looks at the machine's IP.        *)
EmitExit ==
    /\ Lifting(Exits)
    /\ g' = Branched(Flushed, Current, Here + 1)
    /\ frames' = Tail(frames)
    /\ Kept /\ UNCHANGED <<stopped, interpreted>>

CallTarget == IF Current.op = "call" THEN Current.to ELSE g.acc

EmitCall ==
    /\ Lifting(Calls)
    /\ g' = [Pushed(Flushed, Here + 1) EXCEPT !.ip = CallTarget]
    /\ LET link == IF Current.op = "call" THEN Linked(F, CallTarget) ELSE {}
           inner == IF link = {} THEN NestedFrame(Here + 1, Len(g.stack), FALSE)
                    ELSE LiftedFrame(CHOOSE f \in link : TRUE, CallTarget)
       IN  frames' = <<inner, Advanced>> \o Tail(frames)
    /\ Kept /\ UNCHANGED <<stopped, interpreted>>

EmitInt ==
    /\ Lifting({"int"})
    /\ IF Blocks(g)
       THEN g' = [Tried(Flushed) EXCEPT !.ip = Here] /\ frames' = <<>>
       ELSE /\ g' = Serviced(Flushed, Current, Here + 1)
            /\ frames' = IF Current.to = 0 THEN <<Advanced>> \o Tail(frames)
                         ELSE <<NestedFrame(Here + 1, Len(g.stack), TRUE), Advanced>> \o Tail(frames)
    /\ Kept /\ UNCHANGED <<stopped, interpreted>>

Next ==
    \/ NestedRunEnds \/ DispatchHook \/ Interpret
    \/ EmitSequential \/ EmitHead \/ EmitJump \/ EmitExit \/ EmitCall \/ EmitInt

Spec == Init /\ [][Next]_runVars /\ WF_runVars(Next)

-----------------------------------------------------------------------------
(* What a program can see or leave, its reads of the count apart.          *)
Visible(m) == [m EXCEPT !.time = 0, !.times = <<>>, !.ip = 0]

(* The program ends as it ends when it is interpreted, with the same       *)
(* machine and at the same count, whatever is lifted of it and linked,     *)
(* and however parks and waiting INTs unwind its frames (emit.py: literal  *)
(* lift), or it says that code it was lifted from is no longer there.      *)
(* (A waiting INT is counted once more when it is lifted.)                 *)
LiftedAlike ==
    stopped \notin {"", "patched"} =>
        /\ stopped = oracle.stop
        /\ Visible(g) = Visible(oracle.machine)
        /\ q.blocked = {} => g.time = oracle.machine.time

(* A lifted body stays in the code it was emitted from.                    *)
InScan == \A i \in DOMAIN frames : frames[i].kind = "lifted" =>
              frames[i].at \in frames[i].fn.insts

(* When all its code is lifted, nothing is interpreted, also when its      *)
(* frames are abandoned (emit.py: the unwind and the blocking-INT re-entry *)
(* rules).  Addresses a program computes, or makes on its stack, need a    *)
(* declaration as dispatch entries, and the frames outside a waiting INT   *)
(* are entered again only when there is a head somewhere.                  *)
Total == /\ DOMAIN q.code \subseteq UNION {f.insts : f \in q.lifted}
         /\ 1 \in {f.entry : f \in q.lifted}
         /\ \A a \in DOMAIN q.code :
               /\ q.code[a].op \notin {"jmpi", "calli", "push", "save", "drop"}
               /\ q.code[a].op = "ret" => q.code[a].n = 0
               /\ q.code[a].op \in {"call", "int"} /\ q.code[a].to # 0 =>
                     q.code[a].to \in {f.entry : f \in q.lifted}
WallKept == Total /\ (q.blocked = {} \/ q.heads # {}) => interpreted \subseteq {0}

(* emit.py:726: "instruction count -- and everything the machine models    *)
(* derive from it (PIT reads, any time-keyed observable) -- is IDENTICAL   *)
(* between the interpreted oracle and the lifted graph".                   *)
TimesIdentical == stopped # "" => g.times = oracle.machine.times

=============================================================================
