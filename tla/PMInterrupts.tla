---------------------------- MODULE PMInterrupts ----------------------------
(***************************************************************************)
(* The interrupts of the protected-mode machine: src/dos_re/dos4gw.py (the *)
(* host's IRQ source, timer and keyboard controller), pic.py, sblaster.py, *)
(* the polling and delivery of cpu386.py, and what pm_snapshot.py saves    *)
(* and restores of them.                                                   *)
(*                                                                         *)
(* A machine is a record and every operation a function of it, so that a   *)
(* second machine, restored from a snapshot of the first, can be run on    *)
(* the same program beside it.  The program is external: any main line,    *)
(* and handlers that serve their device, end the interrupt and return.     *)
(* Time is relative: timer and due count down to the next event.           *)
(***************************************************************************)
EXTENDS Integers, Sequences, FiniteSets

CONSTANTS
    Half, Length, CatchUp, DetectLimit,   \* of the card
    Decimation,     \* instructions between two polls of the source
    TimerPeriod,    \* timer_period_instructions
    Streams,        \* block length and buffer size - 1 of a stream under way
    MaxLag,         \* bound: a timer later than this is as late
    MaxNest,        \* bound: handlers that a handler lets in
    Masks, Vectors, Bytes,  \* what the program sets masks, vectors and
                            \* the channel's registers to
    Budget,         \* bound: what the program and the user do, handlers aside,
    TimedBudget     \* without a timer and with one

ASSUME MachineConstants ==
    /\ Streams \subseteq Length \X (0..(Half * Half - 1))
    /\ {Half, Decimation, TimerPeriod, MaxNest} \subseteq Nat \ {0}
    /\ Bytes \subseteq 0..(Half - 1)
    /\ {CatchUp, DetectLimit, MaxLag, Budget, TimedBudget} \subseteq Nat
    /\ Length \subseteq Nat \ {0} /\ Length # {} /\ IsFiniteSet(Length)

SB == INSTANCE SoundBlaster

VARIABLES
    live,       \* the machine
    twin,       \* a machine restored from its snapshot, or Nobody
    kicked,     \* its card raised the interrupt as it was restored
    budget
vars == <<live, twin, kicked, budget>>

Timer == 0      \* IRQ lines
Keyboard == 1
Sound == 7
Line == {Timer, Keyboard, Sound}

ASSUME ProgramConstants ==
    /\ Masks \subseteq SUBSET Line
    /\ Vectors \subseteq Line \X {"none", "stub", "handler"}

Never == TimerPeriod + 1        \* the timer is off ...
Unarmed == TimerPeriod + 2      \* ... or has not been looked at yet

Frame == [line : Line, stage : {"entered", "served", "refilled", "ended"}]
Machine == [flag : BOOLEAN, decim : 0..(Decimation - 1), detached : BOOLEAN,
            imr : SUBSET Line, irr : SUBSET Line, isr : SUBSET Line,
            vector : [Line -> {"none", "stub", "handler"}],
            stack : Seq(Frame), kbc : Nat, parameter : BOOLEAN,
            timer : (-MaxLag)..Unarmed, wall : BOOLEAN, card : SB!Card]
Nobody == [stack |-> <<>>]

TypeOK ==
    /\ live \in Machine
    /\ twin \in Machine \cup {Nobody}
    /\ ~live.card.raised
    /\ budget \in 0..Budget

(* The program has set its handlers up; the card is as attached, or plays  *)
(* an auto-init buffer block after block.                                  *)
Streaming(n, count) ==
    LET channel == [base |-> 0, count |-> count, cur |-> 0, auto |-> TRUE, high |-> FALSE]
    IN  SB!StartDma([SB!Fresh(FALSE, FALSE) EXCEPT !.blocklen = n, !.channel = channel], n)
FirstCard == {SB!Fresh(detection, FALSE) : detection \in BOOLEAN}
             \cup {Streaming(s[1], s[2]) : s \in Streams}

Init ==
    /\ \E timer \in {Never, Unarmed}, card \in FirstCard :
          /\ budget = IF timer = Never THEN Budget
                      ELSE IF card.active THEN 0 ELSE TimedBudget
          /\ live = [flag |-> TRUE, decim |-> 0, detached |-> FALSE,
                  imr |-> {}, irr |-> {}, isr |-> {},
                  vector |-> [n \in Line |-> "handler"],
                  stack |-> <<>>, kbc |-> 0, parameter |-> FALSE,
                  timer |-> timer, wall |-> FALSE,
                  card |-> card]
    /\ twin = Nobody /\ kicked = FALSE

-----------------------------------------------------------------------------
(* The 8259.                                                               *)

RaiseIrq(m, n) == [m EXCEPT !.irr = @ \cup {n}]

Lowest(lines) == CHOOSE n \in lines : \A k \in lines : n <= k

Eoi(m) == [m EXCEPT !.isr = IF @ = {} THEN @ ELSE @ \ {Lowest(@)}]

(* One in service at a time.                                               *)
Acknowledgeable(m) == IF m.isr = {} THEN m.irr \ m.imr ELSE {}

Acknowledge(m) ==
    LET n == Lowest(Acknowledgeable(m))
    IN  [m EXCEPT !.irr = @ \ {n}, !.isr = @ \cup {n}]

-----------------------------------------------------------------------------
(* The devices.                                                            *)

(* A card whose operation raised its interrupt, back in its slot.          *)
Plug(m, card) ==
    LET n == [m EXCEPT !.card = [card EXCEPT !.raised = FALSE]]
    IN  IF card.raised THEN RaiseIrq(n, Sound) ELSE n

ServiceCard(m) == Plug(m, SB!Service(m.card))

(* Raised again at every poll until the controller's queue is drained.     *)
KeyboardOnce(m) == IF m.kbc = 1 /\ m.decim = 0 THEN RaiseIrq(m, Keyboard) ELSE m
ServiceKeyboard(m) == IF m.kbc > 0 THEN RaiseIrq(m, Keyboard) ELSE m

(* One period at a time: a late timer is late for several polls.           *)
ServiceTimer(m) ==
    IF m.timer = Never THEN m
    ELSE LET armed == IF m.timer = Unarmed THEN TimerPeriod ELSE m.timer
         IN  IF armed <= 0
             THEN RaiseIrq([m EXCEPT !.timer = armed + TimerPeriod], Timer)
             ELSE [m EXCEPT !.timer = armed]

(* 8042: a parameter is acknowledged, and so is a command, which may want  *)
(* a parameter or be followed by two more bytes or one.                    *)
KeyboardWrite(m, command) ==
    IF m.parameter THEN [m EXCEPT !.parameter = FALSE, !.kbc = @ + 1]
    ELSE CASE command = "set" -> [m EXCEPT !.parameter = TRUE, !.kbc = @ + 1]
           [] command = "identify" -> [m EXCEPT !.kbc = @ + 3]
           [] command = "reset" -> [m EXCEPT !.kbc = @ + 2]
           [] OTHER -> [m EXCEPT !.kbc = @ + 1]

KeyboardRead(m) == [m EXCEPT !.kbc = IF @ = 0 THEN @ ELSE @ - 1]

-----------------------------------------------------------------------------
(* pending_irq and the poll of CPU386.step.                                *)

Requests(m) == ServiceTimer(ServiceKeyboard(ServiceCard(m)))

Hooked(m, n) == m.vector[n] = "handler"

Deliver(m, n) ==
    [m EXCEPT !.stack = Append(@, [line |-> n, stage |-> "entered"]),
              !.flag = FALSE]

(* Nobody but the host ends an interrupt that meets the bare IRET.         *)
(* (DismissForgets, KeyboardOnce and CaptureWithoutPhase are faulty        *)
(* variants, to break properties: no specification uses them.)             *)
DismissForgets(m) == m
Dismiss(m) == Eoi(m)

PendingIrq(m) ==
    LET r == Requests(m)
    IN  IF Acknowledgeable(r) = {} THEN r
        ELSE LET n == Lowest(Acknowledgeable(r))
                 a == Acknowledge(r)
             IN  IF Hooked(a, n) THEN Deliver(a, n) ELSE Dismiss(a)

Poll(m) ==
    IF m.detached \/ ~m.flag THEN m
    ELSE IF m.decim + 1 < Decimation THEN [m EXCEPT !.decim = @ + 1]
    ELSE PendingIrq([m EXCEPT !.decim = 0])

(* The instruction count, which the timer and the card's clock read.       *)
Tick(m) ==
    [m EXCEPT !.timer = IF @ \in {Never, Unarmed} \/ @ = -MaxLag THEN @ ELSE @ - 1,
              !.card = IF m.wall THEN @ ELSE SB!Advance(@)]

-----------------------------------------------------------------------------
(* Two machines that will do the same: the cards may differ in what has no *)
(* effect any more.  The twin runs along as long as that is so.            *)
Behaviour(m) == [m EXCEPT !.card = [@ EXCEPT !.due = SB!Remaining(m.card),
                                             !.played = <<>>]]
Alike(m, n) == n # Nobody /\ Behaviour(n) = Behaviour(m)

(* An instruction: the poll, which may enter a handler whose first         *)
(* instruction this is, and then its effect, here and in the twin.         *)

Outside(Effect(_)) ==
    /\ live' = Effect(live)
    /\ twin' = IF Alike(live, twin) THEN Effect(twin) ELSE twin
    /\ UNCHANGED kicked

Execute(Effect(_)) == LET Step(m) == Tick(Effect(Poll(m))) IN Outside(Step)

Spend == budget > 0 /\ budget' = budget - 1

(* The main line.                                                          *)

Main == Poll(live).stack = <<>>

(* With interrupts off, or none to poll, it goes on for a while only.      *)
Nop == /\ Main
       /\ IF Poll(live).flag /\ ~live.detached THEN UNCHANGED budget ELSE Spend
       /\ LET Effect(m) == m IN Execute(Effect)

Cli == /\ Main /\ live.flag /\ Spend
       /\ LET Effect(m) == [m EXCEPT !.flag = FALSE] IN Execute(Effect)

Sti == /\ Main /\ ~Poll(live).flag /\ UNCHANGED budget
       /\ LET Effect(m) == [m EXCEPT !.flag = TRUE] IN Execute(Effect)

MaskLines(lines) ==
    /\ Main /\ Spend
    /\ LET Effect(m) == [m EXCEPT !.imr = lines] IN Execute(Effect)

SetVector(n, to) ==
    /\ Main /\ Spend
    /\ LET Effect(m) == [m EXCEPT !.vector[n] = to] IN Execute(Effect)

(* An end of interrupt that nobody asked for.                              *)
StrayEoi == /\ Main /\ Spend /\ Execute(Eoi)

CommandKeyboard(command) ==
    /\ Main /\ Spend
    /\ LET Effect(m) == KeyboardWrite(m, command) IN Execute(Effect)

OnCard(Effect(_)) ==
    LET Plugged(m) == Plug(m, Effect(m.card)) IN Execute(Plugged)

(* (What is left of a command is not counted.)                             *)
WriteDsp(command, n) ==
    /\ Main
    /\ IF live.card.needed > 0 THEN UNCHANGED budget ELSE Spend
    /\ LET Effect(c) == SB!Feed(c, command, n) IN OnCard(Effect)

ResetDsp(bit) ==
    /\ Main /\ Spend
    /\ LET Effect(c) == SB!Reset(c, bit) IN OnCard(Effect)

ReadDsp == /\ Main /\ live.card.out # <<>> /\ Spend /\ OnCard(SB!ReadData)

ProgramChannel(register, byte) ==
    /\ Main /\ Spend
    /\ LET Effect(c) == CASE register = "address" -> SB!WriteAddress(c, byte)
                          [] register = "count" -> SB!WriteCount(c, byte)
                          [] register = "mode" -> SB!WriteMode(c, byte = 1)
                          [] register = "flipflop" -> SB!ClearFlipFlop(c)
                          [] register = "status" -> SB!StatusRead(c)
       IN  OnCard(Effect)

(* call_through: a recovered hook runs a subroutine with no source to poll. *)
EnterCall == /\ Main /\ ~live.detached /\ Spend
             /\ LET Effect(m) == [m EXCEPT !.detached = TRUE] IN Execute(Effect)
LeaveCall == /\ Main /\ live.detached /\ UNCHANGED budget
             /\ LET Effect(m) == [m EXCEPT !.detached = FALSE] IN Execute(Effect)

(* A handler.                                                              *)

Handling(stage) == LET s == Poll(live).stack
                   IN  s # <<>> /\ s[Len(s)].stage = stage

Advanced(m, stage) == [m EXCEPT !.stack[Len(m.stack)].stage = stage]
Top(m) == m.stack[Len(m.stack)]

(* It takes the key or the end of the block from its device ...            *)
Serve ==
    /\ Handling("entered") /\ UNCHANGED budget
    /\ LET Effect(m) ==
               LET s == Advanced(m, "served")
               IN  CASE Top(m).line = Keyboard -> KeyboardRead(s)
                     [] Top(m).line = Sound -> Plug(s, SB!ReadStatus(s.card))
                     [] OTHER -> s
       IN  Execute(Effect)

(* ... may ask for the next block ...                                      *)
NextBlock ==
    /\ Handling("served") /\ Top(Poll(live)).line = Sound /\ UNCHANGED budget
    /\ LET Refill(m) == LET a == Advanced(m, "refilled")
                        IN  Plug(a, SB!Feed(a.card, "autoinit", 1))
       IN  Execute(Refill)

(* ... may let other interrupts in ...                                     *)
LetIn ==
    /\ Poll(live).stack # <<>> /\ ~Poll(live).flag /\ UNCHANGED budget
    /\ Len(Poll(live).stack) < MaxNest
    /\ LET Effect(m) == [m EXCEPT !.flag = TRUE] IN Execute(Effect)

(* ... ends the interrupt and returns.                                     *)
EndInterrupt ==
    /\ Handling("served") \/ Handling("refilled")
    /\ UNCHANGED budget
    /\ LET Effect(m) == Eoi(Advanced(m, "ended")) IN Execute(Effect)

Iret ==
    /\ Handling("ended") /\ UNCHANGED budget
    /\ LET Effect(m) == [m EXCEPT !.stack = SubSeq(@, 1, Len(@) - 1), !.flag = TRUE]
       IN  Execute(Effect)

-----------------------------------------------------------------------------
(* What is not the program's doing.                                        *)

Press == /\ Spend
         /\ LET Effect(m) == [m EXCEPT !.kbc = @ + 1] IN Outside(Effect)

Switched(m, deterministic) ==
    [m EXCEPT !.wall = ~deterministic,
              !.card = SB!Resync([@ EXCEPT !.anchored = ~deterministic],
                                 CHOOSE n \in Length : TRUE)]

SetSoundClock(deterministic) ==
    /\ Spend
    /\ LET Effect(m) == Switched(m, deterministic) IN Outside(Effect)

(* Wall time passes between any two instructions.                          *)
WallTick ==
    /\ live.wall /\ live.card.pending /\ live.card.due > 0
    /\ UNCHANGED budget
    /\ LET Effect(m) == [m EXCEPT !.card = SB!Advance(@)] IN Outside(Effect)

(* capture_pm_state and apply_pm_state: the clone's card is attached anew, *)
(* playing, on the deterministic clock.                                    *)
CaptureWithoutPhase(m) == [m EXCEPT !.decim = 0]
Capture(m) == m
Resume(s) == Plug([s EXCEPT !.wall = FALSE], SB!Restored(s.card, FALSE))

Snapshot ==
    /\ ~live.detached /\ ~live.wall
    /\ SB!Accepts(live.card, FALSE)
    /\ Spend
    /\ twin' = Resume(Capture(live))
    /\ kicked' = SB!Restored(live.card, FALSE).raised
    /\ UNCHANGED live

-----------------------------------------------------------------------------
DspCommand == {"version", "single", "autoinit", "blocklen", "force"}
Register == {"address", "count", "mode", "flipflop", "status"}

Program == \/ Nop \/ Cli \/ Sti \/ StrayEoi \/ ReadDsp \/ EnterCall \/ LeaveCall
           \/ \E lines \in Masks : MaskLines(lines)
           \/ \E v \in Vectors : SetVector(v[1], v[2])
           \/ \E command \in {"set", "identify", "reset", "other"} : CommandKeyboard(command)
           \/ \E command \in DspCommand, n \in Length : WriteDsp(command, n)
           \/ \E bit \in BOOLEAN : ResetDsp(bit)
           \/ \E register \in Register, byte \in Bytes : ProgramChannel(register, byte)

Handler == Serve \/ NextBlock \/ LetIn \/ EndInterrupt \/ Iret

Next == \/ Program \/ Handler \/ Press \/ WallTick \/ Snapshot
        \/ \E deterministic \in BOOLEAN : SetSoundClock(deterministic)

(* The run loop executes instruction after instruction, and wall time      *)
(* passes.  The program is the kind that turns interrupts on again, returns *)
(* from what it calls and ends its handlers.  One of these steps is always *)
(* possible: to take them again and again is their weak fairness.          *)
GoOn == Nop \/ Sti \/ LeaveCall \/ Serve \/ EndInterrupt \/ Iret
Fairness == []<><<GoOn>>_vars /\ WF_vars(WallTick)

Spec == Init /\ [][Next]_vars /\ Fairness

-----------------------------------------------------------------------------
(* An interrupt is in service exactly while its handler owes the end of    *)
(* it: none is orphaned, which would block every later one                 *)
(* (dos4gw.py:411-421), and no handler is entered again before it has      *)
(* ended its interrupt.                                                    *)
Owed(m) == {m.stack[i].line : i \in {i \in DOMAIN m.stack : m.stack[i].stage # "ended"}}
InServiceOwed == live.isr = Owed(live) /\ Cardinality(live.isr) <= 1

(* The blocks of an auto-init buffer follow each other around it: none is  *)
(* played twice and none skipped, whatever their lengths (sblaster.py:     *)
(* 291-300, 321-324).                                                      *)
Flattened(blocks) == IF Len(blocks) = 2 THEN blocks[1] \o blocks[2] ELSE <<>>
PlayedInOrder ==
    LET ch == live.card.channel
        all == Flattened(live.card.played)
    IN  ch.auto => \A i \in 1..(Len(all) - 1) :
            all[i + 1] = ch.base + ((all[i] - ch.base + 1) % SB!Size(ch))

(* A resumed machine goes on as the one that was never stopped, whatever   *)
(* the program, the user and the devices do next (pm_snapshot.py:16) ...   *)
NeverStopped == twin # Nobody => Alike(live, twin)

(* ... unless its card had nothing pending and kick-started the stream     *)
(* (sblaster.py:447).                                                      *)
ResumedAlike == ~kicked => NeverStopped

(* Every key reaches the program, every block that is playing ends, and no *)
(* request waits for ever, whatever the program did before, unless it does *)
(* not let the interrupt through.                                          *)
Shut(n) == n \in live.imr \/ live.vector[n] # "handler"
EventuallyServed ==
    /\ live.kbc > 0 ~> live.kbc = 0 \/ Shut(Keyboard)
    /\ live.card.pending ~> ~live.card.pending
    /\ \A n \in Line : n \in live.irr ~> n \notin live.irr \/ Shut(n)

-----------------------------------------------------------------------------
(* Instances for TLC.                                                      *)

(* Two blocks fill half a buffer of three samples and wrap in it.          *)
OneStream == {<<2, 2>>}
SomeMasks == {{}, {Keyboard}}
SomeVectors == {<<Keyboard, "handler">>, <<Sound, "none">>, <<Timer, "stub">>}
=============================================================================
