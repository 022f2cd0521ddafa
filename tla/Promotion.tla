------------------------------ MODULE Promotion ------------------------------
(***************************************************************************)
(* Which functions may run without a CPU, and under which contract         *)
(* (check_promotable of src/dos_re/lift/emit_cpuless.py, over abi_scan of  *)
(* lift/cpuless.py), beside what the function's instructions do.           *)
(*                                                                         *)
(* A function is a sequence of instructions as in InstructionSet, with the *)
(* index a jump leads to in "to" and the name a call leads to in "callee". *)
(* A setting g has the contracts of the callees, the addresses dynamic     *)
(* calls arrive at, the boundary heads, the exits never taken, and the     *)
(* callees seen behind each far pointer called.                            *)
(*                                                                         *)
(* Left out: the bootstrap's stack switch and patched operands.  A depth   *)
(* counts the bytes pushed since the entry.                                *)
(*                                                                         *)
(* The gate lets pass, and PromotedFaithfully does not look at: the code   *)
(* behind a platform's INT, which the walks of the depth, the frame and    *)
(* the flags do not enter; af behind the logic operations, declared        *)
(* written and left alone; LEAVE of a frame made above something else      *)
(* pushed, or never made; POP BP of another word; and a word pushed for a  *)
(* jump to come back to that a call or a LEAVE in between removed.         *)
(***************************************************************************)
EXTENDS CpulessLift, FiniteSetsExt, SequencesExt

RET == {"ret", "retf", "iret"}
Kind(i) == GroupKind(i)
Returns(i) == Kind(i) \in RET
Calls(i) == Kind(i) \in {"call", "callfar"}

Contract(kind, inputs, outputs, exitFlags, deltas) ==
    [kind |-> kind, inputs |-> inputs, outputs |-> outputs, exitFlags |-> exitFlags, deltas |-> deltas,
     pop |-> 0, spOutput |-> deltas # <<0>>, df |-> FALSE, flags |-> FALSE, plat |-> FALSE, parks |-> FALSE]
(* The service behind a platform's far call removes its arguments.         *)
PlatFarcallRegs == {"ax", "bx", "cx", "dx", "si", "di", "bp", "ds", "es"}
PlatformFarCall(argbytes) == Contract("plat", PlatFarcallRegs, PlatFarcallRegs, Every, <<-argbytes>>)
Composed(g, i) ==
    /\ Calls(i) /\ i.callee \in DOMAIN g.callees
    /\ Kind(i) = "call" => g.callees[i.callee].kind # "plat"
Callee(g, i) == g.callees[i.callee]
ToPlatform(g, i) == Kind(i) = "callfar" /\ Composed(g, i) /\ Callee(g, i).kind = "plat"

-----------------------------------------------------------------------------
(* What single instructions are.                                           *)

InterruptNumber(i) == IF i.op = \hCC THEN 3 ELSE i.imm
PlatformInts == {\h21, \h10, \h11, \h12, \h13, \h15, \h16, \h1A, \h2F, \h33, \h67}
IntRegs == {"ax", "bx", "cx", "dx", "si", "di", "bp", "ds", "es"}
IsDyn(i) == Kind(i) \in {"callind", "jmpind"} /\ i.reg \in {2, 4}
IsFarDyn(i) == Kind(i) = "callind" /\ i.reg = 3 /\ i.mod # 3
IsGameInt(i) == Kind(i) = "int" /\ InterruptNumber(i) \in {3, \h60, \h61}

(* The effects before composition; a call has its own, whether or not its  *)
(* callee is known.                                                        *)
CallTold(i) == Told({"sp", "ss"}, {"sp"}, {"r", "w"}, 0)
IntTold(i) ==
    CASE InterruptNumber(i) \in PlatformInts -> Told(IntRegs, IntRegs, {"r", "w"}, 0)
      [] IsGameInt(i) -> AnyTold
      [] OTHER -> Untold
Plain(i) ==
    CASE Calls(i) -> CallTold(i) [] Kind(i) = "int" -> IntTold(i) [] IsFarDyn(i) -> AnyTold
      [] OTHER -> RegisterEffects(i)

IsSpCapture(i) == i.mod = 3 /\ ((i.op = \h8B /\ i.rm = 4) \/ (i.op = \h89 /\ i.reg = 4))
IsFrameEstablish(i) == FrameMove(i) = "establish"
IsFrameRestore(i) == FrameMove(i) = "restore" \/ (i.op = \h8D /\ i.reg = 4 /\ i.rm = 6 /\ i.mod \in {1, 2})
FrameRestoreDisp(i) == IF i.op = \h8D THEN i.imm ELSE 0
IsStackFamily(i) ==
    \/ i.op \in \h50..\h5F \cup {\hC8, \hC9, \h60, \h61, \h06, \h0E, \h16, \h1E, \h9C, \h9D, \h07, \h17, \h1F, \h68, \h6A}
    \/ IsSpCapture(i) \/ IsFrameRestore(i) \/ AdjustsSp(i)
    \/ (i.op = \hFF /\ i.reg = 6) \/ (i.op = \h8F /\ i.reg = 0)
    \/ Calls(i) \/ IsDyn(i) \/ IsFarDyn(i) \/ IsGameInt(i) \/ Returns(i)
NoBias == 99
BpConstBias(i) ==
    CASE i.op = \h45 -> 1 [] i.op = \h4D -> -1
      [] i.op \in {\h81, \h83} /\ i.mod = 3 /\ i.rm = 5 /\ i.reg \in {0, 5} -> IF i.reg = 0 THEN i.imm ELSE -i.imm
      [] OTHER -> NoBias

-----------------------------------------------------------------------------
(* The registers: inputs by backward liveness, outputs all that is written.*)

Within(p, s) == s \cap DOMAIN p
Successors(p, ip) ==
    LET i == p[ip] IN
    Within(p, (IF Kind(i) \in {"seq", "call", "callfar", "callind", "int", "jcc"} THEN {ip + 1} ELSE {})
              \cup (IF Kind(i) \in {"jcc", "jmp"} THEN {i.to} ELSE {}))

(* The callees behind a far pointer: all are known, none leaves the stack  *)
(* shifted, and they agree on what they remove from it.                    *)
ArmPop(c) == IF c.kind = "plat" THEN -c.deltas[1] ELSE 0
FarArmsRefused(p, g) ==
    UNION {LET arms == g.arms[ip]
               known == {g.callees[a] : a \in arms \cap DOMAIN g.callees}
           IN  (IF arms = {} THEN {"far-dispatch-no-evidence"} ELSE {})
               \cup (IF arms \subseteq DOMAIN g.callees THEN {} ELSE {"far-dispatch-target-unpromoted"})
               \cup (IF \A c \in known : c.kind \in {"far", "plat"} THEN {} ELSE {"far-dispatch-target-not-far-return"})
               \cup (IF \E c \in known : c.kind = "far" /\ (c.spOutput \/ c.pop # 0 \/ c.deltas # <<0>>)
                     THEN {"far-dispatch-target-sp-escape"} ELSE {})
               \cup (IF Cardinality({ArmPop(c) : c \in known}) > 1 THEN {"far-dispatch-nonuniform-stack"} ELSE {}) :
           ip \in {n \in DOMAIN p \cap DOMAIN g.arms : IsFarDyn(p[n])}}
FarPop(g, ip) == ArmPop(g.callees[CHOOSE a \in g.arms[ip] : TRUE])

ComposedEffects(p, g, ip) ==
    LET i == p[ip] IN
    CASE IsFarDyn(i) -> Told(AllRegs \cup {"sp"}, (AllRegs \ {"ss"}) \cup {"sp"}, {"r", "w"}, 0)
      [] ToPlatform(g, i) -> Told(PlatFarcallRegs \cup {"ss", "sp"}, PlatFarcallRegs \cup {"sp"}, {"r", "w"}, 0)
      [] Composed(g, i) /\ ~ToPlatform(g, i) ->
            Told((Callee(g, i).inputs \ {"sp", "ss"}) \cup {"sp", "ss"}, Callee(g, i).outputs \cup {"sp"}, {"r", "w"}, 0)
      [] OTHER -> Plain(i)

(* What is found for every instruction, as a sequence.                     *)
Listed(f) == <<>> \o f
MayWrite(E) == UNION {E[ip].writes : ip \in DOMAIN E}
LiveOut(p, E) ==
    LET seeded == Listed([ip \in DOMAIN p |-> IF Returns(p[ip]) THEN MayWrite(E) \ {"sp"} ELSE {}])
        Before(live, ip) == (live[ip] \ E[ip].writes) \cup E[ip].reads
        Round[n \in 0..Len(p)] ==
            IF n = 0 THEN seeded
            ELSE LET live == Round[n - 1] IN
                 Listed([ip \in DOMAIN p |-> IF Successors(p, ip) = {} THEN live[ip]
                                            ELSE UNION {Before(live, s) : s \in Successors(p, ip)}])
    IN  Round[Len(p)]
(* The registers live at a return; a function that leaves any other way    *)
(* keeps them all.                                                         *)
ExitLive(p, live) ==
    LET terminals == {ip \in DOMAIN p : Successors(p, ip) = {}}
    IN  IF terminals # {} /\ \A ip \in terminals : Returns(p[ip]) THEN UNION {live[ip] : ip \in terminals} ELSE AllRegs
AbiScan(p, g, E, live) ==
    [inputs |-> (live[1] \ E[1].writes) \cup E[1].reads
                \cup (IF g.alt \cup g.heads = {} THEN {} ELSE AllRegs),
     outputs |-> MayWrite(E), exitLive |-> ExitLive(p, live)]

OutputSet(abi, spOutput) ==
    LET kept == {W16[n] : n \in 1..8} \cup {"ds", "es"}
    IN  (abi.outputs \cap kept \cap (abi.exitLive \cup {"sp"})) \ (IF spOutput THEN {} ELSE {"sp"})
ContractInputs(p, g, abi) ==
    (abi.inputs \ {"sp"})
    \cup (IF g.heads # {} \/ \E ip \in DOMAIN p : \/ (IsStackFamily(p[ip]) /\ Kind(p[ip]) \notin {"ret", "retf"})
                                                 \/ Calls(p[ip]) \/ "sp" \in Plain(p[ip]).reads
          THEN {"sp", "ss"} ELSE {})

-----------------------------------------------------------------------------
(* The frame pointer.  bp is a constant away from the frame's base or      *)
(* unknown (NoBias); what is pushed of it is kept in a stack.              *)

Advance(p, ip, s) ==
    LET i == p[ip]
        F(bp, saved, depth) == [bp |-> bp, saved |-> saved, depth |-> depth]
        Above(n) == SubSeq(s.saved, 1, n)
    IN  CASE i.op = \hC8 -> F(0, Append(s.saved, s.bp), Len(s.saved) + 1)
          [] IsFrameEstablish(i) -> F(0, s.saved, Len(s.saved))
          [] i.op = \hC9 -> F(s.saved[s.depth], Above(s.depth - 1), NoBias)
          [] IsFrameRestore(i) -> F(s.bp, Above(s.depth), s.depth)
          [] i.op = \h55 -> F(s.bp, Append(s.saved, s.bp), s.depth)
          [] i.op = \h5D -> F(s.saved[Len(s.saved)], Above(Len(s.saved) - 1), s.depth)
          [] OTHER ->
                F(IF BpConstBias(i) # NoBias /\ s.bp # NoBias THEN s.bp + BpConstBias(i)
                  ELSE IF Kind(i) = "seq" /\ "bp" \in Plain(i).writes THEN NoBias ELSE s.bp, s.saved, s.depth)
(* Why the frame cannot be followed past an instruction.                   *)
FrameRefusal(p, ip, s) ==
    LET i == p[ip]
        teardown == i.op = \hC9 \/ IsFrameRestore(i)
        lands == s.bp + (IF i.op = \hC9 THEN 0 ELSE FrameRestoreDisp(i))
    IN  CASE teardown /\ s.bp = NoBias -> "frame-pointer-clobbered"
          [] teardown /\ (s.depth = NoBias \/ Len(s.saved) < s.depth) -> "frame-restore-without-establish"
          [] i.op = \hC9 /\ s.bp # 0 -> "frame-pointer-biased-leave"
          [] teardown /\ lands < 0 /\ Len(s.saved) > s.depth -> "frame-restore-biased-over-saves"
          [] i.op = \hC9 /\ s.depth = 0 -> "frame-pointer-pop-without-save"
          [] i.op = \h5D /\ s.saved = <<>> -> "frame-pointer-pop-without-save"
          [] OTHER -> ""
Walked(p, ip) == IF Kind(p[ip]) = "int" THEN {} ELSE Successors(p, ip)
(* The states at each instruction, until one cannot be followed or two     *)
(* meet.                                                                   *)
Refusing(p, new) == {FrameRefusal(p, x[1], x[2]) : x \in {y \in new : FrameRefusal(p, y[1], y[2]) # ""}}
Mismatch(seen) == IF \E x, y \in seen : x[1] = y[1] /\ x # y THEN {"frame-pointer-join-mismatch"} ELSE {}
Followed(p, was, next) ==
    [seen |-> was.seen \cup next, new |-> next \ was.seen, refused |-> Mismatch(was.seen \cup next)]
FrameStates(p) ==
    LET start == {<<1, [bp |-> NoBias, saved |-> <<>>, depth |-> NoBias]>>}
        Round[n \in 0..Len(p)] ==
            IF n = 0 THEN [seen |-> start, new |-> start, refused |-> {}]
            ELSE LET was == Round[n - 1]
                 IN  IF was.refused # {} \/ was.new = {} THEN was
                     ELSE IF Refusing(p, was.new) # {} THEN [was EXCEPT !.refused = Refusing(p, was.new)]
                     ELSE Followed(p, was, UNION {{<<s, Advance(p, x[1], x[2])>> : s \in Walked(p, x[1])} : x \in was.new})
    IN  Round[Len(p)]
NoFrames == [seen |-> {}, refused |-> {}]
BiasAt(states, ip) ==
    IF \E x \in states.seen : x[1] = ip THEN (CHOOSE x \in states.seen : x[1] = ip)[2].bp ELSE 0

HandRolled(p) == (\E ip \in DOMAIN p : IsFrameEstablish(p[ip])) /\ \E ip \in DOMAIN p : p[ip].op = \h55
Leaves(p) == \E ip \in DOMAIN p : p[ip].op = \hC9
Enters(p) == \E ip \in DOMAIN p : p[ip].op = \hC8
Restores(p) == \E ip \in DOMAIN p : IsFrameRestore(p[ip])
Clobbers(i) == Kind(i) = "seq" /\ i.op \notin {\hC8, \hC9} /\ ~IsStackFamily(i) /\ "bp" \in Plain(i).writes
(* The frame is followed only where something else writes bp.              *)
NeedsFrameProof(p) == (Leaves(p) \/ Restores(p)) /\ \E ip \in DOMAIN p : Clobbers(p[ip])
FramePointerRefused(p, states) ==
    CASE Leaves(p) /\ ~Enters(p) /\ ~HandRolled(p) -> {"leave-without-enter"}
      [] Restores(p) /\ ~\E ip \in DOMAIN p : IsFrameEstablish(p[ip]) -> {"frame-restore-without-establish"}
      [] NeedsFrameProof(p) -> states.refused
      [] OTHER -> {}

-----------------------------------------------------------------------------
(* An indirect jump that comes back: push <own address>; jmp <indirect>.   *)

Leaders(p, starts) ==
    Within(p, starts \cup {p[ip].to : ip \in {n \in DOMAIN p : Kind(p[n]) \in {"jcc", "jmp"}}}
              \cup {ip + 1 : ip \in {n \in DOMAIN p : Kind(p[n]) = "jcc"}})
(* The instructions of the jump's block; after an interrupt there is none. *)
WindowFrom(p, leaders, ip) ==
    LET heads == {l \in leaders : l <= ip /\ \A n \in l..ip - 1 : Kind(p[n]) \in {"seq", "call", "callfar", "callind"}}
    IN  IF heads = {} THEN {} ELSE (CHOOSE l \in heads : \A m \in heads : m <= l)..ip - 1
Literal(p, window, at, r) ==
    LET loads == {n \in window : n < at /\ p[n].op = \hB8 + r
                                 /\ \A m \in n + 1..at - 1 : Word(r) \notin Plain(p[m]).writes}
    IN  IF loads = {} THEN 0 ELSE p[CHOOSE n \in loads : TRUE].imm
(* The index it comes back to, or 0: the one instruction that touches the  *)
(* stack pushes a value known here.                                        *)
ManufacturedReturn(p, window) ==
    LET uses == {n \in window : Plain(p[n]).delta \notin {0, NoDelta}}
        at == CHOOSE n \in uses : TRUE
    IN  IF Cardinality(uses) # 1 THEN 0
        ELSE CASE p[at].op = \h68 -> p[at].imm
               [] p[at].op \in \h50..\h57 -> Literal(p, window, at, p[at].op - \h50)
               [] OTHER -> 0

(* Where such a jump comes back to begins a block too, which may leave the *)
(* push in another one.                                                    *)
ReturnsFound(p, starts) ==
    {ManufacturedReturn(p, WindowFrom(p, Leaders(p, starts), ip)) : ip \in {n \in DOMAIN p : Kind(p[n]) = "jmpind"}}
Starts(p, g) ==
    LET first == {1} \cup g.alt IN first \cup ReturnsFound(p, first)
Window(p, g, ip) == WindowFrom(p, Leaders(p, Starts(p, g)), ip)

(* mov sp, [saved]: every path from it returns at once, without a loop.    *)
Between(i) == Kind(i) \in {"seq", "jcc", "jmp"} /\ Plain(i).delta \in {0, NoDelta} /\ "sp" \notin Plain(i).reads \cup Plain(i).writes
NonlocalExit(p, ip) ==
    LET Tails[n \in 0..Len(p)] ==
            IF n = 0 THEN {t \in DOMAIN p : Returns(p[t]) /\ p[t].op \notin {\hC2, \hCA}}
            ELSE LET was == Tails[n - 1]
                 IN  was \cup {t \in DOMAIN p : Between(p[t]) /\ Successors(p, t) # {} /\ Successors(p, t) \subseteq was}
    IN  p[ip].op = \h8B /\ p[ip].reg = 4 /\ p[ip].mod # 3 /\ ip + 1 \in Tails[Len(p)]
(* The far jump through memory that ends an interrupt handler.             *)
IsIsrChain(i) == Kind(i) = "jmpind" /\ i.reg = 5

-----------------------------------------------------------------------------
(* The depth of the stack, by a worklist: the depths each instruction was  *)
(* met with, and what the exits met so far say.                            *)

Cap == 8
Met(w, ip, d) ==
    IF d \in w.depths[ip] THEN w ELSE [w EXCEPT !.depths[ip] = @ \cup {d}, !.work = Append(@, <<ip, d>>)]
Widened(w, ip, d) == Met(w, ip, IF Cardinality(w.depths[ip]) >= Cap THEN NoDelta ELSE d)
RECURSIVE Meet(_, _)
Meet(w, steps) == IF steps = <<>> THEN w ELSE Meet(Widened(w, steps[1][1], steps[1][2]), Tail(steps))
Exit(w, d, pop) == [w EXCEPT !.exits = @ \cup {d}, !.pops = @ \cup {pop}]
Refuse(w, why) == [w EXCEPT !.refused = {why}, !.work = <<>>]

HasFrame(p) == Enters(p) \/ HandRolled(p)
Pop(i) == IF Kind(i) \in {"ret", "retf"} /\ i.op \in {\hC2, \hCA} THEN i.imm ELSE 0
Shift(c, near) == [n \in DOMAIN c.deltas |->
    IF c.deltas[n] = NoDelta THEN NoDelta ELSE c.deltas[n] - (IF near /\ c.kind = "far" THEN 2 ELSE 0)]
Afters(p, g, states, ip, d, base) ==
    LET i == p[ip]
        told == Plain(i).delta
    IN  CASE i.op = \hC9 -> <<0>>
          [] IsFrameRestore(i) -> <<base - BiasAt(states, ip) - FrameRestoreDisp(i)>>
          [] d = NoDelta -> <<NoDelta>>
          [] ip \in DOMAIN g.arms -> <<d - FarPop(g, ip)>>
          [] Composed(g, i) ->
                LET shift == Shift(Callee(g, i), Kind(i) = "call")
                IN  [n \in DOMAIN shift |-> IF shift[n] = NoDelta THEN NoDelta ELSE d + shift[n]]
          [] OTHER -> <<d - (IF told = NoDelta THEN 0 ELSE told)>>
(* In the code's order: first the fall-through, then the target.           *)
Onward(p, ip) ==
    LET k == Kind(p[ip])
    IN  SelectSeq(CASE k = "jcc" -> <<ip + 1, p[ip].to>> [] k = "jmp" -> <<p[ip].to>>
                    [] k \in {"seq", "call", "callfar", "callind"} -> <<ip + 1>> [] OTHER -> <<>>,
                  LAMBDA s : s \in DOMAIN p)
Pairs(to, afters) == [n \in 1..Len(to) * Len(afters) |->
    <<to[((n - 1) \div Len(afters)) + 1], afters[((n - 1) % Len(afters)) + 1]>>]

TailExit(p, g, w, ip, d) ==
    LET back == ManufacturedReturn(p, Window(p, g, ip))
    IN  CASE IsIsrChain(p[ip]) -> Exit(w, IF d = NoDelta THEN 0 ELSE d, 0)
          [] back \in DOMAIN p -> Met(w, back, IF d = NoDelta THEN NoDelta ELSE d - 2)
          [] d = NoDelta -> Refuse(w, "tail-dispatch-at-nonzero-depth")
          [] OTHER -> Exit(w, IF HasFrame(p) THEN 0 ELSE d, 0)
Continue(p, g, states, w, ip, d) ==
    IF IsFrameRestore(p[ip]) /\ w.base = NoDelta THEN Refuse(w, "frame-restore-before-establish")
    ELSE Meet(w, Pairs(Onward(p, ip), Afters(p, g, states, ip, d, w.base)))
Depart(p, g, states, w, ip, d) ==
    CASE Returns(p[ip]) -> IF ip \in g.dead THEN w ELSE Exit(w, d, Pop(p[ip]))
      [] Kind(p[ip]) = "jmpind" -> TailExit(p, g, w, ip, d)
      [] OTHER -> Continue(p, g, states, w, ip, d)
StepDepth(p, g, states, w, ip, d) ==
    CASE NonlocalExit(p, ip) -> w
      [] IsFrameEstablish(p[ip]) /\ d # NoDelta ->
            IF w.base \notin {NoDelta, d} THEN Refuse(w, "multiple-frame-establish")
            ELSE Depart(p, g, states, [w EXCEPT !.base = d], ip, d)
      [] OTHER -> Depart(p, g, states, w, ip, d)
RECURSIVE Drain(_, _, _, _)
Drain(p, g, states, w) ==
    IF w.work = <<>> THEN w
    ELSE LET x == w.work[Len(w.work)]
         IN  Drain(p, g, states, StepDepth(p, g, states, [w EXCEPT !.work = SubSeq(@, 1, Len(@) - 1)], x[1], x[2]))
StackWalk(p, g, states) ==
    Drain(p, g, states,
          [depths |-> Listed([ip \in DOMAIN p |-> IF ip \in {1} \cup g.alt THEN {0} ELSE {}]),
           work |-> <<<<1, 0>>>> \o SetToSeq({<<ip, 0>> : ip \in Within(p, g.alt)}),
           base |-> NoDelta, exits |-> {}, pops |-> {}, refused |-> {}])
(* What the exits add up to.                                               *)
StackRefused(w) == w.refused \cup (IF Cardinality(w.pops) > 1 THEN {"mixed-ret-pop"} ELSE {})
RetPop(w) == IF w.pops = {} THEN 0 ELSE CHOOSE n \in w.pops : TRUE
SpOutput(w) == \E d \in w.exits : d # 0
Deltas(w) ==
    CASE NoDelta \in w.exits -> <<NoDelta>> [] w.exits = {} -> <<0>>
      [] OTHER -> SetToSortSeq({d - RetPop(w) : d \in w.exits}, <)

-----------------------------------------------------------------------------
(* The flags certainly defined: what a caller's FLAGS word is needed for.  *)

JccReads(i) ==
    CASE i.op \in {\hE0, \hE1} -> {"zf"} [] i.op \in {\hE2, \hE3} -> {}
      [] OTHER -> <<{"of"}, {"cf"}, {"zf"}, {"cf", "zf"}, {"sf"}, {"pf"}, {"sf", "of"}, {"zf", "sf", "of"}>>[(i.op - \h70) \div 2 + 1]
StringOps == \hA4..\hA7 \cup \hAA..\hAF
CarryReaders(i) ==
    \/ i.op = \hF5 \/ (i.op \in {\hC0, \hC1} \cup \hD0..\hD3 /\ i.reg \in {2, 3})
    \/ (i.op <= \h1D /\ i.op \div 8 \in {2, 3} /\ i.op % 8 <= 5) \/ (i.op \in {\h80, \h81, \h83} /\ i.reg \in {2, 3})
ShiftDefines(i, n) ==
    IF n = 0 THEN {}
    ELSE {"cf"} \cup (IF i.reg \in {4, 5, 7} THEN {"zf", "sf", "pf"} ELSE {}) \cup (IF n = 1 THEN {"of"} ELSE {})
FlagsDefinedBy(i) ==
    CASE Kind(i) = "int" \/ i.op = \h9D -> Every
      [] i.op \in {\hF8, \hF9} -> {"cf"} [] i.op = \h27 -> Arith \ {"of"}
      [] i.op \in {\hFC, \hFD} -> {"df"} [] i.op \in {\hFA, \hFB} -> {"intf"}
      [] i.op \in {\hC0, \hC1} /\ i.reg # 6 -> ShiftDefines(i, i.imm % 32)
      [] i.op \in {\hD0, \hD1} /\ i.reg # 6 -> ShiftDefines(i, 1)
      [] i.op \in {\hA6, \hA7, \hAE, \hAF} /\ Among(i.pre, RepPrefixes) = <<>> -> Arith
      [] i.op \in {\h69, \h6B} \/ (i.op \in {\hF6, \hF7} /\ i.reg \in {4, 5}) -> {"cf", "of"}
      [] (i.op <= \h3D /\ i.op % 8 <= 5) \/ i.op \in {\h80, \h81, \h83, \h84, \h85, \hA8, \hA9}
         \/ (i.op \in {\hF6, \hF7} /\ i.reg = 3) -> Arith
      [] i.op \in \h40..\h4F \/ (i.op \in {\hFE, \hFF} /\ i.reg \in {0, 1}) -> Arith \ {"cf"}
      [] OTHER -> {}
DefinedAfter(g, i, defined) ==
    defined \cup (IF Composed(g, i) THEN Callee(g, i).exitFlags ELSE FlagsDefinedBy(i))

(* What is defined before each instruction, on every path to it.           *)
Defined(p, g, seed) ==
    LET into == Listed([ip \in DOMAIN p |-> {n \in DOMAIN p : ip \in Walked(p, n)}])
        Round[n \in 0..Len(p)] ==
            IF n = 0 THEN Listed([ip \in DOMAIN p |-> IF ip \in {1} \cup g.alt THEN seed ELSE Every])
            ELSE LET was == Round[n - 1]
                 IN  Listed([ip \in DOMAIN p |-> {x \in was[ip] : \A m \in into[ip] : x \in DefinedAfter(g, p[m], was[m])}])
    IN  Round[Len(p)]
VisitedFrom(p, g) ==
    LET Round[n \in 0..Len(p)] ==
            IF n = 0 THEN {1} \cup g.alt
            ELSE LET was == Round[n - 1] IN was \cup UNION {Walked(p, ip) : ip \in was}
    IN  Round[Len(p)]
DfConsumed(p, g, reached, defined) ==
    \E ip \in reached : /\ "df" \notin defined[ip]
                        /\ \/ p[ip].op \in StringOps \/ IsDyn(p[ip]) \/ IsFarDyn(p[ip])
                           \/ Composed(g, p[ip]) /\ (Callee(g, p[ip]).df \/ ToPlatform(g, p[ip]))
FlagsConsumed(p, reached, defined) ==
    \E ip \in reached : \/ Kind(p[ip]) = "jcc" /\ ~(JccReads(p[ip]) \subseteq defined[ip])
                        \/ p[ip].op = \h27 /\ ~({"cf", "af"} \subseteq defined[ip])
                        \/ CarryReaders(p[ip]) /\ "cf" \notin defined[ip]
ExitFlags(p, reached, defined) ==
    LET exits == {ip \in reached : Returns(p[ip]) \/ Kind(p[ip]) = "jmpind"}
    IN  IF exits = {} THEN {}
        ELSE {x \in Every : \A ip \in exits : Returns(p[ip]) /\ x \in defined[ip]}
(* One pass with nothing known; if a flag is missing, one with all known,  *)
(* and if it is the direction alone, one with that known.                  *)
FlagPass(p, g, reached, seed) ==
    LET defined == Defined(p, g, seed)
    IN  [exit |-> ExitFlags(p, reached, defined), df |-> DfConsumed(p, g, reached, defined),
         flags |-> FlagsConsumed(p, reached, defined)]
FlagsSettled(p, g, reached, bare) ==
    CASE bare.flags -> [FlagPass(p, g, reached, Every) EXCEPT !.df = bare.df, !.flags = TRUE]
      [] bare.df -> [FlagPass(p, g, reached, {"df"}) EXCEPT !.df = TRUE, !.flags = FALSE]
      [] OTHER -> bare
FlagLiveins(p, g, reached) == FlagsSettled(p, g, reached, FlagPass(p, g, reached, {}))

-----------------------------------------------------------------------------
(* The gate and what it promises.                                          *)

UnknownPlatform(p, g) ==
    IF \E ip \in DOMAIN p : Kind(p[ip]) = "callfar" /\ p[ip].callee \in g.platform \ DOMAIN g.callees
    THEN {"platform-farcall-contract-unknown"} ELSE {}
(* A head observes after its instruction, so control must come back there. *)
HeadsRefused(p, g) ==
    IF \E ip \in Within(p, g.heads) : Kind(p[ip]) # "seq" /\ ~Composed(g, p[ip]) THEN {"boundary-head-on-transfer"} ELSE {}
AbiRefused(p, g) ==
    (IF \E ip \in DOMAIN p : Calls(p[ip]) /\ ~Composed(g, p[ip]) THEN {"contains-call"} ELSE {})
    \cup (IF \E ip \in DOMAIN p : IsFarDyn(p[ip]) /\ ip \notin DOMAIN g.arms THEN {"indirect-control-flow"} ELSE {})
    \cup (IF \E ip \in DOMAIN p : Plain(p[ip]) = Untold THEN {"unanalyzed"} ELSE {})
RetKinds(p, g) ==
    {CASE Kind(p[ip]) = "ret" -> "near" [] Kind(p[ip]) = "retf" -> "far" [] OTHER -> "iret" :
        ip \in {n \in DOMAIN p \ g.dead : Returns(p[n]) \/ IsIsrChain(p[n])}}
KindsRefused(p, g) ==
    (IF Cardinality(RetKinds(p, g)) > 1 THEN {"mixed-return-kinds"} ELSE {})
    \cup (IF \E ip \in DOMAIN p : /\ Composed(g, p[ip])
                                  /\ Callee(g, p[ip]).kind \notin (IF Kind(p[ip]) = "call" THEN {"near", "far"} ELSE {"far", "plat"})
          THEN {"ret-kind-mismatch"} ELSE {})
(* The depth stays known, ss stays, and sp is written by the stack's own   *)
(* instructions only.                                                      *)
StackUseRefused(p, ip, e) ==
    CASE Returns(p[ip]) -> {}
      [] e.delta = NoDelta /\ p[ip].op # \hC9 /\ ~IsFrameRestore(p[ip]) -> {"unresolved-stack-effect"}
      [] e.writes \cap {"cs", "ss"} # {} -> {"cs-or-ss-mutation"}
      [] "sp" \in e.writes /\ ~IsStackFamily(p[ip]) /\ ~NonlocalExit(p, ip) -> {"sp-as-data"}
      [] OTHER -> {}
Excluded(p, g) == IF g.excluded \cap DOMAIN p # {} THEN {"boundary-or-dispatch-address"} ELSE {}
AtSight(p, g) == UnknownPlatform(p, g) \cup FarArmsRefused(p, g) \cup HeadsRefused(p, g) \cup AbiRefused(p, g) \cup KindsRefused(p, g)
WithStack(p, states) == FramePointerRefused(p, states) \cup UNION {StackUseRefused(p, ip, Plain(p[ip])) : ip \in DOMAIN p}

NeedsPlat(p, g) ==
    g.heads # {} \/ \E ip \in DOMAIN p :
        \/ p[ip].op \in PortIo \/ IsDyn(p[ip]) \/ IsFarDyn(p[ip]) \/ Kind(p[ip]) = "int" \/ IsIsrChain(p[ip])
        \/ Composed(g, p[ip]) /\ (ToPlatform(g, p[ip]) \/ Callee(g, p[ip]).plat)
FlagsWord(p, g) ==
    g.heads # {} \/ \E ip \in DOMAIN p :
        \/ IsDyn(p[ip]) \/ IsFarDyn(p[ip]) \/ Kind(p[ip]) = "int" \/ IsIsrChain(p[ip]) \/ p[ip].op = \h9C
        \/ Composed(g, p[ip]) /\ (ToPlatform(g, p[ip]) \/ Callee(g, p[ip]).flags)
Parks(p, g) == g.heads # {} \/ \E ip \in DOMAIN p : Composed(g, p[ip]) /\ Callee(g, p[ip]).parks

Refusal(why) == [refused |-> why]
Promise(p, g, abi, walk, flags) ==
    [refused |-> {}, inputs |-> ContractInputs(p, g, abi), outputs |-> OutputSet(abi, SpOutput(walk)),
     kind |-> IF RetKinds(p, g) = {} THEN "near" ELSE CHOOSE k \in RetKinds(p, g) : TRUE,
     exitFlags |-> flags.exit, deltas |-> Deltas(walk), pop |-> RetPop(walk), spOutput |-> SpOutput(walk),
     df |-> flags.df, flags |-> flags.flags \/ FlagsWord(p, g), plat |-> NeedsPlat(p, g), parks |-> Parks(p, g)]
AbiOf(p, g, E) == AbiScan(p, g, E, LiveOut(p, E))
Walk(p, g, states) ==
    LET walk == StackWalk(p, g, states)
    IN  IF StackRefused(walk) \cup Excluded(p, g) # {} THEN Refusal(StackRefused(walk) \cup Excluded(p, g))
        ELSE Promise(p, g, AbiOf(p, g, Listed([ip \in DOMAIN p |-> ComposedEffects(p, g, ip)])), walk, FlagLiveins(p, g, VisitedFrom(p, g)))
CheckPromotable(p, g) ==
    LET states == IF NeedsFrameProof(p) THEN FrameStates(p) ELSE NoFrames
    IN  CASE AtSight(p, g) # {} -> Refusal(AtSight(p, g))
          [] WithStack(p, states) # {} -> Refusal(WithStack(p, states))
          [] OTHER -> Walk(p, g, states)

-----------------------------------------------------------------------------
(* What the function does, to compare with.  Of a value is kept whether it *)
(* is an address in the frame (the depth it names), the caller's bp and a  *)
(* constant, or a code address; a slot is named by the depth it was pushed *)
(* to.  A platform's interrupt ends a run (see PromotedFaithfully).        *)

Value(of, at) == [of |-> of, at |-> at]
Opaque == Value("unknown", 0)
Start(ip) == [ip |-> ip, depth |-> 0, bp |-> Value("caller", 0), ax |-> Opaque, slots |-> <<>>, set |-> {}, used |-> {},
              defined |-> {}, needed |-> {}, frame |-> 0, ended |-> ""]
(* The words on the stack, from a few below the entry on.                  *)
Below == 4
Slot(c, depth) ==
    IF depth % 2 = 0 /\ Below + (depth \div 2) \in DOMAIN c.slots THEN c.slots[Below + (depth \div 2)] ELSE Opaque
Held(c, name) == CASE name = "bp" -> c.bp [] name = "ax" -> c.ax [] OTHER -> Opaque
Pushed(c, values) ==
    LET kept == [n \in 1..(Below + (c.depth \div 2)) |-> Slot(c, 2 * (n - Below))]
    IN  [c EXCEPT !.depth = @ + 2 * Len(values), !.slots = IF c.depth % 2 = 0 THEN kept \o values ELSE <<>>]
Moved(v, k) == CASE v.of = "frame" -> Value("frame", v.at - k) [] v.of = "caller" -> Value("caller", v.at + k) [] OTHER -> v

(* What executing an instruction that goes on reads and leaves.            *)
ConditionReads(i) ==
    CASE i.op \in {\h70, \h71} -> {"of"} [] i.op \in {\h72, \h73} -> {"cf"} [] i.op \in {\h74, \h75, \hE0, \hE1} -> {"zf"}
      [] i.op \in {\h76, \h77} -> {"cf", "zf"} [] i.op \in {\h78, \h79} -> {"sf"} [] i.op \in {\h7A, \h7B} -> {"pf"}
      [] i.op \in {\h7C, \h7D} -> {"sf", "of"} [] i.op \in {\h7E, \h7F} -> {"zf", "sf", "of"} [] OTHER -> {}
FlagsTaken(i, computes) ==
    CASE Kind(i) = "jcc" -> ConditionReads(i)
      [] computes[1] = "alu" -> IF computes[2] \in {2, 3} THEN {"cf"} ELSE {}
      [] computes[1] = "shift" -> IF computes[2] \in {2, 3} THEN {"cf"} ELSE {}
      [] computes[1] = "daa" -> {"cf", "af"} [] i.op = \hF5 -> {"cf"} [] computes[1] = "string" -> {"df"}
      [] i.op = \h9C -> Every [] OTHER -> {}

Sum(c, i, uses, sets, takes, leaves) ==
    [c EXCEPT !.used = @ \cup (uses \ c.set), !.set = @ \cup sets, !.needed = @ \cup (takes \ c.defined),
              !.defined = @ \cup leaves]
(* bp and ax after an instruction other than a teardown.                   *)
Popped(v) == IF v.of \in {"frame", "caller"} THEN v ELSE Value("popped", 0)
BpAfter(c, i, sets) ==
    CASE IsFrameEstablish(i) -> Value("frame", c.depth) [] i.op = \h5D -> Popped(Slot(c, c.depth))
      [] BpConstBias(i) # NoBias -> Moved(c.bp, BpConstBias(i)) [] "bp" \in sets -> Opaque [] OTHER -> c.bp
AxAfter(c, i, sets) == CASE i.op = \hB8 -> Value("code", i.imm) [] "ax" \in sets -> Opaque [] OTHER -> c.ax
StackAfter(c, i, e) ==
    CASE i.op \in \h50..\h57 -> Pushed(c, <<Held(c, Word(i.op % 8))>>)
      [] i.op = \h68 -> Pushed(c, <<Value("code", i.imm)>>)
      [] AdjustsSp(i) -> [c EXCEPT !.depth = @ - (IF i.reg = 0 THEN i.imm ELSE -i.imm)]
      [] Balance(e) < 0 -> Pushed(c, [n \in 1..(-Balance(e) \div 2) |-> Opaque])
      [] OTHER -> [c EXCEPT !.depth = @ - Balance(e)]
Ordinary(c, i, e, sets) == [StackAfter(c, i, e) EXCEPT !.bp = BpAfter(c, i, sets), !.ax = AxAfter(c, i, sets),
                                                            !.frame = IF IsFrameEstablish(i) THEN c.depth ELSE @]
(* sp becomes an address in the frame, or is lost.  Not looked at: a frame *)
(* left that was never made, or made above something else pushed, and bp   *)
(* popped where it was not pushed.                                         *)
TornDown(c, i) ==
    CASE c.bp.of \in {"caller", "popped"} \/ (i.op = \hC9 /\ c.frame # 2) -> [c EXCEPT !.ended = "unframed"]
      [] c.bp.of # "frame" -> [c EXCEPT !.ended = "lost"]
      [] i.op = \hC9 -> [c EXCEPT !.depth = c.bp.at - 2, !.bp = Slot(c, c.bp.at)]
      [] OTHER -> [c EXCEPT !.depth = c.bp.at - FrameRestoreDisp(i)]
Entered(c) == [Pushed(c, <<c.bp>>) EXCEPT !.bp = Value("frame", c.depth + 2), !.frame = c.depth + 2]
Called(c, contract, near) ==
    {[c EXCEPT !.depth = @ + d, !.set = @ \cup contract.outputs, !.defined = @ \cup contract.exitFlags,
               !.used = @ \cup (contract.inputs \ c.set), !.ax = IF "ax" \in contract.outputs THEN Opaque ELSE @] :
        d \in {Shift(contract, near)[n] : n \in DOMAIN contract.deltas}}

Ended(c, how) == [c EXCEPT !.ended = how]
Onto(c, to) == [c EXCEPT !.ip = to]
Executes(p, c, i, e, t) ==
    LET sets == Written(i, t)
        b == Sum(c, i, LocalsRead(i, t), sets, FlagsTaken(i, e.computes), e.flags)
        after == CASE i.op = \hC8 -> Entered(b) [] i.op = \hC9 \/ IsFrameRestore(i) -> TornDown(b, i)
                   [] OTHER -> Ordinary(b, i, e, sets)
    IN  {Onto(after, c.ip + 1)}
(* Where the code the jump leads to returns to, if this function said so.  *)
(* Not looked at: a call or LEAVE in between that removed the word pushed. *)
Jumps(p, g, c) ==
    LET top == Slot(c, c.depth)
        window == Window(p, g, c.ip)
        back == ManufacturedReturn(p, window)
    IN  {CASE back = 0 -> Ended(c, "tail")
           [] top.of = "code" -> [Onto(c, top.at) EXCEPT !.depth = @ - 2, !.ax = Opaque]
           [] OTHER -> Ended(c, IF \E n \in window : Calls(p[n]) \/ p[n].op = \hC9 THEN "left" ELSE "lost")}
Runs(p, g, c) ==
    LET i == p[c.ip]
    IN  CASE Returns(i) -> {Ended(c, IF c.ip \in g.dead THEN "left" ELSE "returned")}
          [] Kind(i) = "int" \/ NonlocalExit(p, c.ip) -> {Ended(c, "left")}
          [] Kind(i) = "jmp" -> {Onto(c, i.to)}
          [] Kind(i) = "jcc" ->
                LET b == [c EXCEPT !.needed = @ \cup (ConditionReads(i) \ c.defined)]
                IN  {Onto(b, c.ip + 1), Onto(b, i.to)}
          [] IsFarDyn(i) -> {Onto(b, c.ip + 1) : b \in UNION {Called(c, g.callees[a], FALSE) : a \in g.arms[c.ip]}}
          [] Kind(i) = "callind" -> {Onto([c EXCEPT !.ax = Opaque], c.ip + 1)}
          [] Calls(i) -> {Onto(b, c.ip + 1) : b \in Called(c, Callee(g, i), Kind(i) = "call")}
          [] Kind(i) = "jmpind" -> Jumps(p, g, c)
          [] OTHER -> Executes(p, c, i, Executed(i), Translated(i))
Reach(p, g, steps) ==
    LET Round[n \in 0..steps] ==
            IF n = 0 THEN [done |-> {}, live |-> {Start(ip) : ip \in {1} \cup g.alt}]
            ELSE LET was == Round[n - 1]
                     next == UNION {Runs(p, g, c) : c \in was.live}
                 IN  [done |-> was.done \cup {c \in next : c.ended # ""},
                      live |-> {c \in next : c.ended = "" /\ c.ip \in DOMAIN p}]
    IN  Round[steps].done

(* A promise kept by one run.                                              *)
LogicLeavesAf(p) == \E ip \in DOMAIN p : Kind(p[ip]) = "seq" /\ Executed(p[ip]).computes[1] \in {"alu", "test"}
DepthKept(p, s, c) ==
    CASE c.ended = "returned" -> /\ s.deltas = <<NoDelta>> \/ \E n \in DOMAIN s.deltas : s.deltas[n] = c.depth - s.pop
                                 /\ ~s.spOutput => c.depth = 0
                                 /\ Pop(p[c.ip]) = s.pop
      [] c.ended = "tail" -> ~s.spOutput => c.depth = 0 \/ HasFrame(p)
      [] c.ended = "lost" -> FALSE
      [] OTHER -> TRUE
FlagsKept(p, s, c) ==
    LET known == c.defined \cup (IF s.df THEN {"df"} ELSE {}) \cup (IF LogicLeavesAf(p) THEN {"af"} ELSE {})
        needed == c.needed \ ((IF s.df THEN {"df"} ELSE {}) \cup (IF LogicLeavesAf(p) THEN {"af"} ELSE {}))
    IN  s.flags \/ (needed = {} /\ (c.ended = "returned" => s.exitFlags \subseteq known))
RegistersKept(s, c) ==
    /\ c.used \subseteq s.inputs
    /\ c.ended = "returned" => c.set \subseteq s.outputs \cup {"sp"}
PromotedFaithfully(p, g, s, runs) ==
    s.refused = {} => \A c \in runs : DepthKept(p, s, c) /\ FlagsKept(p, s, c) /\ RegistersKept(s, c)

-----------------------------------------------------------------------------
(* Functions put together from a frame and the code inside it.             *)

Form(op, mod, reg, rm, imm, to, callee) ==
    [op |-> op, pre |-> <<>>, mod |-> mod, reg |-> reg, rm |-> rm, imm |-> imm, to |-> to, callee |-> callee]
Plainly(op) == Form(op, 0, 0, 0, 0, 0, "")
Shells ==
    {<< <<>>, <<>> >>,
     << <<Plainly(\h55), Form(\h8B, 3, 5, 4, 0, 0, "")>>, <<Form(\h8B, 3, 4, 5, 0, 0, ""), Plainly(\h5D)>> >>,
     << <<Plainly(\h45), Plainly(\h55), Form(\h8B, 3, 5, 4, 0, 0, ""), Plainly(\h1E)>>,
        <<Form(\h8D, 1, 4, 6, -2, 0, ""), Plainly(\h1F), Plainly(\h5D), Plainly(\h4D)>> >>,
     << <<Plainly(\hC8)>>, <<Plainly(\hC9)>> >>}
Inner(at) ==
    {Plainly(op) : op \in {\h50, \h55, \h5D, \h59, \h45, \h4D, \hF8, \hA4}}
    \cup {Form(\h8B, 3, 5, 0, 0, 0, ""), Form(\h8B, 3, 5, 4, 0, 0, ""), Form(\h8B, 3, 4, 5, 0, 0, ""),
          Form(\h83, 3, 0, 4, 2, 0, ""), Form(\h13, 3, 0, 1, 0, 0, ""), Form(\h23, 3, 0, 1, 0, 0, ""),
          Form(\h74, 0, 0, 0, 0, at + 2, ""), Form(\h72, 0, 0, 0, 0, at - 1, ""), Form(\h68, 0, 0, 0, 2, 0, ""),
          Form(\hE8, 0, 0, 0, 0, 0, "even"), Form(\hE8, 0, 0, 0, 0, 0, "pops"), Form(\hE8, 0, 0, 0, 0, 0, "far"),
          Form(\h9A, 0, 0, 0, 0, 0, "api"), Form(\hFF, 0, 3, 6, 0, 0, ""), Form(\hCD, 0, 0, 0, \h21, 0, ""), Form(\h8B, 0, 4, 6, 0, 0, "")}
Ends == {Plainly(\hC3), Form(\hC2, 0, 0, 0, 2, 0, ""), Form(\hFF, 0, 4, 6, 0, 0, "")}
Functions(shell, x) ==
    {shell[1] \o <<x, y>> \o shell[2] \o <<z>> : y \in Inner(Len(shell[1]) + 2), z \in Ends}
Callees ==
    [name \in {"even", "pops", "far", "api"} |->
        CASE name = "even" -> Contract("near", {"cx"}, {"ax"}, {"cf"}, <<0>>)
          [] name = "pops" -> Contract("near", {}, {}, {}, <<-2, 0>>)
          [] name = "far" -> Contract("far", {}, {}, {}, <<0>>)
          [] name = "api" -> PlatformFarCall(4)]
Setting(p, alt, heads, dead) ==
    [callees |-> Callees, alt |-> alt, heads |-> heads, dead |-> dead, excluded |-> {}, platform |-> {},
     arms |-> [ip \in {n \in DOMAIN p : IsFarDyn(p[n])} |-> {"far"}]]
(* Entered from elsewhere, observed, and with an exit never taken, too.    *)
Situations(p) ==
    {Setting(p, {}, {}, {})}
    \cup (IF Len(p) > 3 THEN {} ELSE {Setting(p, {2}, {}, {}), Setting(p, {}, {1}, {}), Setting(p, {}, {}, {3})})
FaithfullyIn(p, g) == PromotedFaithfully(p, g, CheckPromotable(p, g), Reach(p, g, 14))
Faithful(shell, first) == \A p \in Functions(shell, first) : \A g \in Situations(p) : FaithfullyIn(p, g)
=============================================================================
