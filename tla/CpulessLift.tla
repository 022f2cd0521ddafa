----------------------------- MODULE CpulessLift -----------------------------
(***************************************************************************)
(* The same instruction once more, recovered without a CPU: the registers, *)
(* memory and stack it is declared to touch, from which a function's       *)
(* parameters and results are inferred (register_effects of                *)
(* src/dos_re/lift/cpuless.py), and the statements over local variables it *)
(* becomes (_translate of lift/emit_cpuless.py).  See InstructionSet.      *)
(*                                                                         *)
(* A local that a statement reads and no declaration names is no parameter *)
(* of the function: the recovered body raises.                             *)
(***************************************************************************)
EXTENDS InstructionLift

W16 == <<"ax", "cx", "dx", "bx", "sp", "bp", "si", "di">>
SEGS == <<"es", "cs", "ss", "ds">>
EaRegs == <<{"bx", "si"}, {"bx", "di"}, {"bp", "si"}, {"bp", "di"}, {"si"}, {"di"}, {"bp"}, {"bx"}>>
Word(n) == W16[n + 1]
Half(n) == W16[(n % 4) + 1]
Sreg(n) == SEGS[(n % 4) + 1]
IsWide(f) == f.op % 2 = 1
Sized(n, wide) == IF wide THEN Word(n) ELSE Half(n)
Bases(f) == IF f.mod = 0 /\ f.rm = 6 THEN {} ELSE EaRegs[f.rm + 1]

-----------------------------------------------------------------------------
(* The declarations.  The delta is what the instruction adds to sp; a      *)
(* frame's size is left out of it.                                         *)

Told(reads, writes, mem, delta) == [reads |-> reads, writes |-> writes, mem |-> mem, delta |-> delta]
NoDelta == 99
Untold == [refusal |-> TRUE]

(* The first override counts, and cs is a constant of the function.        *)
ToldSegment(f, modrm) ==
    {Segment(FirstOf(f.pre, SegmentPrefixes),
             IF modrm /\ f.mod # 3 /\ (f.rm \in {2, 3} \/ (f.rm = 6 /\ f.mod # 0)) THEN "ss" ELSE "ds")} \ {"cs"}

(* A byte written into a register keeps its other half, which counts as a  *)
(* read; the opcode's low bit tells bytes from words, for a move of a      *)
(* segment register too.                                                   *)
RmTold(f, way, reads, writes, mem, delta) ==
    LET writing == way # "r"
        reading == way # "w"
        r == Sized(f.rm, IsWide(f))
    IN  IF f.mod = 3
        THEN Told(reads \cup (IF reading \/ ~IsWide(f) THEN {r} ELSE {}), writes \cup (IF writing THEN {r} ELSE {}), mem, delta)
        ELSE Told(reads \cup Bases(f) \cup ToldSegment(f, TRUE), writes,
                  mem \cup (IF writing THEN {"w"} ELSE {}) \cup (IF reading THEN {"r"} ELSE {}), delta)

AluTold(f) ==
    LET r == Sized(f.reg, IsWide(f))
        compares == IF f.op < \h40 THEN f.op \div 8 = 7 ELSE f.reg = 7
    IN  CASE f.op < \h40 /\ f.op % 8 < 2 -> RmTold(f, IF compares THEN "r" ELSE "rw", {r}, {}, {}, 0)
          [] f.op < \h40 /\ f.op % 8 \in {2, 3} -> RmTold(f, "r", {r}, IF compares THEN {} ELSE {r}, {}, 0)
          [] f.op < \h40 -> Told({"ax"}, IF compares THEN {} ELSE {"ax"}, {}, 0)
          [] OTHER -> RmTold(f, IF compares THEN "r" ELSE "rw", {}, {}, {}, 0)
(* add sp, imm and sub sp, imm keep the depth known.                       *)
AdjustsSp(f) == f.op \in {\h81, \h83} /\ f.mod = 3 /\ f.rm = 4 /\ f.reg \in {0, 5}
AdjustTold(f) == Told({"sp"}, {"sp"}, {}, IF f.reg = 0 THEN f.imm ELSE -f.imm)

StackTold(f) ==
    LET P(reads) == Told(reads \cup {"sp", "ss"}, {"sp"}, {"w"}, -2)
        Q(writes) == Told({"sp", "ss"}, writes \cup {"sp"}, {"r"}, 2)
    IN  CASE f.op \in {\h06, \h0E, \h16, \h1E} -> P({Sreg(f.op \div 8)})
          [] f.op \in {\h07, \h17, \h1F} -> Q({Sreg(f.op \div 8)})
          [] f.op \in \h50..\h57 -> P({Word(f.op % 8)}) [] f.op \in \h58..\h5F -> Q({Word(f.op % 8)})
          [] f.op \in {\h68, \h6A, \h9C} -> P({}) [] f.op = \h9D -> Q({})
          [] f.op = \h8F -> IF f.reg # 0 THEN Untold ELSE RmTold(f, "w", {"sp", "ss"}, {"sp"}, {"r"}, 2)
          [] f.op = \hFF -> RmTold(f, "r", {"sp", "ss"}, {"sp"}, {"w"}, -2)
FrameTold(f) ==
    CASE f.op = \hC8 -> IF f.imm # 0 THEN Untold ELSE Told({"bp", "sp", "ss"}, {"bp", "sp"}, {"w"}, -2)
      [] f.op = \hC9 -> Told({"bp", "sp", "ss"}, {"bp", "sp"}, {"r"}, NoDelta)
      [] f.op = \h60 -> Told({W16[i] : i \in 1..8} \cup {"ss"}, {"sp"}, {"w"}, -16)
      [] f.op = \h61 -> Told({"sp", "ss"}, {W16[i] : i \in 1..8}, {"r"}, 16)
      [] f.op \in {\h69, \h6B} -> RmTold(f, "r", {}, {Word(f.reg)}, {}, 0)

(* mov bp, sp and mov sp, bp are the halves of enter and leave.            *)
FrameMove(f) ==
    LET dst == IF f.op = \h89 THEN f.rm ELSE f.reg
        src == IF f.op = \h89 THEN f.reg ELSE f.rm
    IN  CASE f.op \notin {\h89, \h8B} \/ f.mod # 3 -> "none" [] dst = 5 /\ src = 4 -> "establish"
          [] dst = 4 /\ src = 5 -> "restore" [] OTHER -> "none"
MoveTold(f) ==
    LET r == Sized(f.reg, IsWide(f))
        o == Word(f.op % 8)
    IN  CASE f.op \in \h40..\h4F -> Told({o}, {o}, {}, 0)
          [] f.op \in {\hFE, \hFF} -> RmTold(f, "rw", {}, {}, {}, 0)
          [] f.op \in {\h86, \h87} -> RmTold(f, "rw", {r}, {r}, {}, 0)
          [] f.op \in \h91..\h97 -> Told({o, "ax"}, {o, "ax"}, {}, 0)
          [] f.op = \h90 -> Told({}, {}, {}, 0)
          [] FrameMove(f) = "establish" -> Told({"sp"}, {"bp"}, {}, 0)
          [] FrameMove(f) = "restore" -> Told({"bp"}, {"sp"}, {}, NoDelta)
          [] f.op \in {\h88, \h89} -> RmTold(f, "w", {r}, {}, {}, 0)
          [] f.op \in {\h8A, \h8B} -> RmTold(f, "r", IF f.op = \h8A THEN {r} ELSE {}, {r}, {}, 0)
          [] f.op = \h8C -> RmTold(f, "w", {Sreg(f.reg)}, {}, {}, 0)
          [] f.op = \h8E -> RmTold(f, "r", {}, {Sreg(f.reg)}, {}, 0)
LoadTold(f) ==
    CASE f.op = \h8D /\ f.reg = 4 /\ f.rm = 6 /\ f.mod \in {1, 2} -> Told({"bp"}, {"sp"}, {}, NoDelta)
      [] f.op = \h8D -> Told(IF f.mod = 3 THEN {} ELSE Bases(f), {Word(f.reg)}, {}, 0)
      [] f.op \in \hB0..\hB7 -> Told({Half(f.op % 8)}, {Half(f.op % 8)}, {}, 0)
      [] f.op \in \hB8..\hBF -> Told({}, {Word(f.op % 8)}, {}, 0)
      [] f.op \in {\hC6, \hC7} -> IF f.reg # 0 THEN Untold ELSE RmTold(f, "w", {}, {}, {}, 0)
      [] f.op \in {\hA0, \hA1} -> Told(ToldSegment(f, FALSE) \cup (IF f.op = \hA0 THEN {"ax"} ELSE {}), {"ax"}, {"r"}, 0)
      [] f.op \in {\hA2, \hA3} -> Told(ToldSegment(f, FALSE) \cup {"ax"}, {}, {"w"}, 0)
      [] f.op \in {\hC4, \hC5} ->
            Told(IF f.mod = 3 THEN {} ELSE Bases(f), {Word(f.reg), IF f.op = \hC4 THEN "es" ELSE "ds"}, {"r"}, 0)

Group3Told(f) ==
    LET wide == IF f.op = \hF7 THEN {"ax", "dx"} ELSE {"ax"}
    IN  CASE f.reg = 0 -> RmTold(f, "r", {}, {}, {}, 0)
          [] f.reg = 1 -> Told({}, {}, {}, 0)
          [] f.reg \in {2, 3} -> RmTold(f, "rw", {}, {}, {}, 0)
          [] f.reg \in {4, 5} -> RmTold(f, "r", {"ax"}, wide, {}, 0)
          [] f.reg \in {6, 7} -> RmTold(f, "r", wide, wide, {}, 0)
ComputeTold(f) ==
    CASE f.op \in {\h84, \h85} -> RmTold(f, "r", {Sized(f.reg, IsWide(f))}, {}, {}, 0)
      [] f.op \in {\hA8, \hA9, \h9E} -> Told({"ax"}, {}, {}, 0)
      [] f.op \in {\hC0, \hC1} \cup \hD0..\hD3 -> RmTold(f, "rw", IF f.op \in {\hD2, \hD3} THEN {"cx"} ELSE {}, {}, {}, 0)
      [] f.op = \h98 -> Told({"ax"}, {"ax"}, {}, 0) [] f.op = \h99 -> Told({"ax"}, {"dx"}, {}, 0)
      [] f.op = \h9F -> Told({}, {"ax"}, {}, 0)
      [] f.op = \hD7 -> Told({"ax", "bx", Segment(LastOf(f.pre, SegmentPrefixes), "ds")}, {"ax"}, {"r"}, 0)
      [] f.op \in {\hF5} \cup \hF8..\hFD -> Told({}, {}, {}, 0)
PortOrDaaTold(f) ==
    CASE f.op = \h27 -> Told({"ax"}, {"ax"}, {}, 0)
      [] f.op \in {\hE4, \hE5} -> Told(IF f.op = \hE4 THEN {"ax"} ELSE {}, {"ax"}, {}, 0)
      [] f.op \in {\hEC, \hED} -> Told(IF f.op = \hEC THEN {"ax", "dx"} ELSE {"dx"}, {"ax"}, {}, 0)
      [] f.op \in {\hE6, \hE7} -> Told({"ax"}, {}, {}, 0) [] f.op \in {\hEE, \hEF} -> Told({"ax", "dx"}, {}, {}, 0)

(* The segment a string instruction reads is not looked for.               *)
StringTold(f) ==
    LET both == f.op \in \hA4..\hA7
        store == f.op \in {\hAA, \hAB, \hAE, \hAF}
        counted == IF Among(f.pre, RepPrefixes) # <<>> THEN {"cx"} ELSE {}
    IN  Told(counted \cup (IF both THEN {"si", "di", "ds", "es"} ELSE IF store THEN {"di", "es", "ax"} ELSE {"si", "ds"})
             \cup (IF f.op = \hAC THEN {"ax"} ELSE {}),
             counted \cup (IF both THEN {"si", "di"} ELSE IF store THEN {"di"} ELSE {"si", "ax"}),
             (IF f.op \notin {\hAA, \hAB} THEN {"r"} ELSE {})
             \cup (IF f.op \in {\hA4, \hA5, \hAA, \hAB} THEN {"w"} ELSE {}), 0)

(* Whoever is called may use everything; calls are composed elsewhere.     *)
AllRegs == {W16[i] : i \in 1..8} \cup {"ds", "es", "ss"}
AnyTold == Told(AllRegs, AllRegs \ {"ss"}, {"r", "w"}, 0)
LeaveTold(f) ==
    LET Popped(n) == Told({"sp", "ss"}, {"sp"}, {"r"}, n)
        kind == GroupKind(f)
    IN  CASE kind = "jcc" -> Told(IF f.op \in \hE0..\hE3 THEN {"cx"} ELSE {}, IF f.op \in \hE0..\hE2 THEN {"cx"} ELSE {}, {}, 0)
          [] kind \in {"jmp", "jmpfar"} -> Told({}, {}, {}, 0)
          [] kind = "ret" -> Popped(2 + (IF f.op = \hC2 THEN f.imm ELSE 0)) [] kind = "retf" -> Popped(4) [] kind = "iret" -> Popped(6)
          [] kind \in {"callind", "jmpind"} /\ f.reg \in {2, 4, 5} -> AnyTold
          [] OTHER -> Untold

RegisterEffects(f) ==
    CASE f.op < \h40 /\ f.op % 8 < 6 -> AluTold(f)
      [] AdjustsSp(f) -> AdjustTold(f)
      [] f.op \in {\h80, \h81, \h83} -> AluTold(f)
      [] f.op \in \h50..\h5F \cup {\h06, \h07, \h0E, \h16, \h17, \h1E, \h1F, \h68, \h6A, \h8F, \h9C, \h9D}
         \/ (f.op = \hFF /\ f.reg = 6) -> StackTold(f)
      [] f.op \in {\hC8, \hC9, \h60, \h61, \h69, \h6B} -> FrameTold(f)
      [] f.op \in \h40..\h4F \cup \h86..\h8C \cup {\h8E} \cup \h90..\h97 \/ (f.op \in {\hFE, \hFF} /\ f.reg < 2) -> MoveTold(f)
      [] f.op \in \hA0..\hA3 \cup \hB0..\hBF \cup {\h8D} \cup \hC4..\hC7 -> LoadTold(f)
      [] f.op \in {\hF6, \hF7} -> Group3Told(f)
      [] f.op \in {\h84, \h85, \hA8, \hA9, \h98, \h99, \h9E, \h9F, \hC0, \hC1, \hD7, \hF5}
                  \cup \hD0..\hD3 \cup \hF8..\hFD -> ComputeTold(f)
      [] f.op = \h27 \/ f.op \in PortIo -> PortOrDaaTold(f)
      [] f.op \in \hA4..\hA7 \cup \hAA..\hAF -> StringTold(f)
      [] OTHER -> LeaveTold(f)


-----------------------------------------------------------------------------
(* The statements.  Registers are named as in InstructionSet, the ones an  *)
(* operand's address takes by "ea"; a byte written into a register keeps   *)
(* the other half and so reads it.                                         *)

Text(does, computes, sets, flags, reads) ==
    [does |-> does, computes |-> computes, sets |-> sets, flags |-> flags, reads |-> reads]
LocalSegment(f) ==
    LET p == LastOf(f.pre, SegmentPrefixes)
    IN  IF f.mod = 0 /\ f.rm = 6 THEN Segment(p, "ds") ELSE Segment(p, IF f.rm \in {2, 3, 6} THEN "ss" ELSE "ds")
WordForms == {\h8C, \h8E, \hC4}
WideForm(f) == IsWide(f) \/ f.op \in WordForms
RmSource(f) == IF f.mod = 3 THEN <<>> ELSE Access("read", LocalSegment(f), "ea", IF WideForm(f) THEN 2 ELSE 1)
RmTarget(f) == IF f.mod = 3 THEN <<>> ELSE Access("write", LocalSegment(f), "ea", IF WideForm(f) THEN 2 ELSE 1)
RmSets(f) == IF f.mod = 3 THEN {"rm"} ELSE {}
RmReads(f) == IF f.mod = 3 THEN {"rm"} ELSE {"ea"}
RmAddress(f) == IF f.mod = 3 THEN {} ELSE {"ea"}
TextBits(f) == IF WideForm(f) THEN 16 ELSE 8

FlagsArith(kind) == IF kind = "logic" THEN Arith \ {"af"} ELSE Arith
(* A comparison is not written back.                                       *)
AluStatement(f, group, source, target, order, sets, reads) ==
    Text(source \o (IF group = 7 THEN <<>> ELSE target), <<"alu", group, TextBits(f), order>>,
         IF group = 7 THEN {} ELSE sets, FlagsArith(IF group \in {1, 4, 6} THEN "logic" ELSE "arith"), reads)
AluText(f) ==
    LET group == IF f.op < \h40 THEN f.op \div 8 ELSE f.reg
        form == IF f.op < \h40 THEN f.op % 8 ELSE 8
        A(source, target, order, sets, reads) == AluStatement(f, group, source, target, order, sets, reads)
    IN  CASE form \in {0, 1} -> A(RmSource(f), RmTarget(f), "rm,reg", RmSets(f), RmReads(f) \cup {"reg"})
          [] form \in {2, 3} -> A(RmSource(f), <<>>, "reg,rm", {"reg"}, RmReads(f) \cup {"reg"})
          [] form \in {4, 5} -> A(<<>>, <<>>, "acc,imm", {"ax"}, {"ax"})
          [] form = 8 ->
                A(RmSource(f), RmTarget(f), IF f.op = \h83 THEN "rm,imm8sx" ELSE "rm,imm", RmSets(f), RmReads(f))

MovText(f) ==
    LET seg == Segment(LastOf(f.pre, SegmentPrefixes), "ds")
        M(does, what, sets, reads) == Text(does, <<"mov", what>>, sets, {}, reads)
        size == IF IsWide(f) THEN 2 ELSE 1
    IN  CASE f.op \in \hB0..\hBF -> M(<<>>, "r,imm", {"r"}, {})
          [] f.op \in {\h88, \h89} -> M(RmTarget(f), "rm,reg", RmSets(f), {"reg"} \cup RmAddress(f))
          [] f.op \in {\h8A, \h8B} -> M(RmSource(f), "reg,rm", {"reg"}, RmReads(f))
          [] f.op \in {\hC6, \hC7} /\ f.reg = 0 -> M(RmTarget(f), "rm,imm", RmSets(f), RmAddress(f))
          [] f.op \in {\hA0, \hA1} -> M(Access("read", seg, "imm", size), "acc,moffs", {"ax"}, {seg})
          [] f.op \in {\hA2, \hA3} -> M(Access("write", seg, "imm", size), "moffs,acc", {}, {seg, "ax"})
          [] f.op = \h8D -> M(<<>>, "reg,ea", {"reg"}, Bases(f))
          [] OTHER -> Refused

TestOrCountText(f) ==
    LET test == FlagsArith("logic")
        count == Arith \ {"cf"}
    IN  CASE f.op \in {\h84, \h85} -> Text(RmSource(f), <<"test", TextBits(f), "rm,reg">>, {}, test, RmReads(f) \cup {"reg"})
          [] f.op \in {\hA8, \hA9} -> Text(<<>>, <<"test", TextBits(f), "acc,imm">>, {}, test, {"ax"})
          [] f.op \in \h40..\h4F -> Text(<<>>, <<IF f.op < \h48 THEN "inc" ELSE "dec", 16>>, {"r"}, count, {"r"})
          [] f.op \in {\hFE, \hFF} ->
                Text(RmSource(f) \o RmTarget(f), <<IF f.reg = 0 THEN "inc" ELSE "dec", TextBits(f)>>, RmSets(f), count, RmReads(f))

Group3Text(f) ==
    LET G(does, computes, sets, flags, reads) == Text(RmSource(f) \o does, computes, sets, flags, reads \cup RmReads(f))
        pair == IF IsWide(f) THEN {"ax", "dx"} ELSE {"ax"}
        bits == TextBits(f)
    IN  CASE f.reg = 0 -> G(<<>>, <<"test", bits, "rm,imm">>, {}, FlagsArith("logic"), {})
          [] f.reg = 1 -> Refused
          [] f.reg = 2 -> G(RmTarget(f), <<"not", bits>>, RmSets(f), {}, {})
          [] f.reg = 3 -> G(RmTarget(f), <<"neg", bits>>, RmSets(f), FlagsArith("sub"), {})
          [] f.reg \in {4, 5} -> G(<<>>, <<IF f.reg = 4 THEN "mul" ELSE "imul", bits>>, pair, {"cf", "of"}, {"ax"})
          [] f.reg \in {6, 7} -> G(<<>>, <<IF f.reg = 6 THEN "div" ELSE "idiv", bits>>, pair, {}, pair)

ImulText(f) == Text(RmSource(f), <<"imul", "reg,rm,imm">>, {"reg"}, {"cf", "of"}, RmReads(f))

AdjustText(f) ==
    LET S(computes, sets, flags, reads) == Text(<<>>, computes, sets, flags, reads)
    IN  CASE f.op = \h27 -> S(<<"daa">>, {"ax"}, Arith \ {"of"}, {"ax"})
          [] f.op = \h98 -> S(<<"cbw">>, {"ax"}, {}, {"ax"}) [] f.op = \h99 -> S(<<"cwd">>, {"dx"}, {}, {"ax"})
          [] f.op \in {\hF8, \hF9} -> S(<<"flag", f.op>>, {}, {"cf"}, {})
          [] f.op \in {\hFC, \hFD} -> S(<<"flag", f.op>>, {}, {"df"}, {})
          [] f.op \in {\hFA, \hFB} -> S(<<"flag", f.op>>, {}, {"intf"}, {})

(* A count of zero touches nothing at all, the operand included.           *)
ShiftText(f) ==
    LET by == CASE f.op \in {\hD0, \hD1} -> "1" [] f.op \in {\hD2, \hD3} -> "cl" [] OTHER -> "imm"
        n == CASE by = "1" -> 1 [] by = "imm" -> f.imm % 32 [] OTHER -> 0
        certain == {"cf"} \cup (IF f.reg \in {4, 5, 7} THEN {"zf", "sf", "pf"} ELSE {}) \cup (IF n = 1 THEN {"of"} ELSE {})
    IN  Text(RmSource(f) \o (IF by = "imm" /\ n = 0 THEN <<>> ELSE RmTarget(f)), <<"shift", f.reg, TextBits(f), by>>,
             RmSets(f), IF n = 0 THEN {} ELSE certain, RmReads(f) \cup (IF by = "cl" THEN {"cx"} ELSE {}))

(* One statement per access, in a loop over cx behind a repeat prefix; a   *)
(* comparison's flags are then those of the last turn, if there is one.    *)
StringStatement(f, does, sets, reads) ==
    LET rep == LastOf(f.pre, RepPrefixes)
        counted == IF rep # 0 THEN {"cx"} ELSE {}
    IN  Text(does, <<"string", f.op, rep>>, sets \cup counted,
             IF f.op \in {\hA6, \hA7, \hAE, \hAF} /\ rep = 0 THEN FlagsArith("sub") ELSE {}, reads \cup counted)
StringSource(f) == Segment(LastOf(f.pre, SegmentPrefixes), "ds")
StringText(f) ==
    LET size == IF IsWide(f) THEN 2 ELSE 1
        From == Access("read", StringSource(f), "si", size)
        To == Access("write", "es", "di", size)
    IN  CASE f.op \in {\hAC, \hAD} -> StringStatement(f, From, {"si", "ax"}, {"si", StringSource(f)})
          [] f.op \in {\hAA, \hAB} -> StringStatement(f, To, {"di"}, {"di", "es", "ax"})
          [] f.op \in {\hA4, \hA5} -> StringStatement(f, From \o To, {"si", "di"}, {"si", "di", "es", StringSource(f)})
CompareText(f) ==
    LET size == IF IsWide(f) THEN 2 ELSE 1
        From == Access("read", StringSource(f), "si", size)
        With == Access("read", "es", "di", size)
    IN  CASE f.op \in {\hA6, \hA7} -> StringStatement(f, From \o With, {"si", "di"}, {"si", "di", "es", StringSource(f)})
          [] f.op \in {\hAE, \hAF} -> StringStatement(f, With, {"di"}, {"di", "es", "ax"})

FrameText(f) ==
    LET all == {W16[i] : i \in 1..8}
    IN  CASE f.op = \hC8 -> Text(PushWord, <<"enter", 0>>, {"sp", "bp"}, {}, {"sp", "ss", "bp"})
          [] f.op = \hC9 -> Text(PopWord, <<"leave">>, {"sp", "bp"}, {}, {"ss", "bp"})
          [] f.op = \h60 -> Text(Times(8, PushWord), <<"pusha">>, {"sp"}, {}, all \cup {"ss"})
          [] f.op = \h61 -> Text(Times(3, PopWord) \o Times(4, PopWord), <<"popa">>, all, {}, {"sp", "ss"})
(* sp is moved before a register is stored, and after it is loaded.        *)
StackText(f) ==
    LET P(does, what, reads) == Text(does \o PushWord, <<"push", what>>, {"sp"}, {}, reads \cup {"sp", "ss"})
        Q(does, what, sets, reads) == Text(PopWord \o does, <<"pop", what>>, sets \cup {"sp"}, {}, reads \cup {"sp", "ss"})
    IN  CASE f.op \in \h50..\h57 -> P(<<>>, IF f.op = \h54 THEN "sp-2" ELSE "r", {"r"})
          [] f.op \in \h58..\h5F -> Q(<<>>, IF f.op = \h5C THEN "sp+2" ELSE "r", {"r"}, {})
          [] f.op \in {\h06, \h0E, \h16, \h1E} -> P(<<>>, "sreg", {"sreg"})
          [] f.op \in {\h07, \h1F} -> Q(<<>>, "sreg", {"sreg"}, {})
          [] f.op = \h17 -> Refused
          [] f.op = \h68 -> P(<<>>, "imm", {}) [] f.op = \h6A -> P(<<>>, "imm8sx", {})
          [] f.op = \h8F -> IF f.reg # 0 THEN Refused ELSE Q(RmTarget(f), "rm", RmSets(f), RmAddress(f))
          [] f.op = \hFF -> P(RmSource(f), "rm", RmReads(f))
          [] f.op = \h9C -> P(<<>>, "flags", {})
          [] f.op = \h9D -> Text(PopWord, <<"popf">>, {"sp"}, Every, {"sp", "ss"})
SegmentText(f) ==
    CASE f.op = \h8C -> Text(RmTarget(f), <<"mov", "rm,sreg">>, RmSets(f), {}, {"sreg"} \cup RmAddress(f))
      [] f.op = \h8E -> IF f.reg % 4 = 1 THEN Refused ELSE Text(RmSource(f), <<"mov", "sreg,rm">>, {"sreg"}, {}, RmReads(f))
ExchangeText(f) ==
    LET seg == Segment(LastOf(f.pre, SegmentPrefixes), "ds")
        X(does, what, sets, reads) == Text(does, <<"mov", what>>, sets, {}, reads)
    IN  CASE f.op \in {\h86, \h87} -> X(RmSource(f) \o RmTarget(f), "reg,rm,reg", {"reg"} \cup RmSets(f), {"reg"} \cup RmReads(f))
          [] f.op \in \h91..\h97 -> X(<<>>, "ax,r,ax", {"ax", "r"}, {"ax", "r"})
          [] f.op = \h90 -> X(<<>>, "nothing", {}, {})
          [] f.op \in {\hC4, \hC5} ->
                IF f.mod = 3 THEN Refused
                ELSE X(Access("read", LocalSegment(f), "ea", 2) \o Access("read", LocalSegment(f), "ea+2", 2), "reg,far",
                       {"reg", "sreg"}, {"ea"})
          [] f.op = \hD7 -> X(Access("read", seg, "bx+al", 1), "al,table", {"ax"}, {seg, "bx", "ax"})

Translated(f) ==
    CASE (f.op < \h40 /\ f.op % 8 < 6) \/ f.op \in {\h80, \h81, \h83} -> AluText(f)
      [] f.op \in {\h88, \h89, \h8A, \h8B, \h8D, \hC6, \hC7} \cup \hA0..\hA3 \cup \hB0..\hBF -> MovText(f)
      [] f.op \in {\h84, \h85, \hA8, \hA9} \cup \h40..\h4F \/ (f.op \in {\hFE, \hFF} /\ f.reg < 2) -> TestOrCountText(f)
      [] f.op \in {\hF6, \hF7} -> Group3Text(f)
      [] f.op \in {\h69, \h6B} -> ImulText(f)
      [] f.op \in {\h27, \h98, \h99} \cup \hF8..\hFD -> AdjustText(f)
      [] f.op \in {\hC0, \hC1} \cup \hD0..\hD3 /\ f.reg # 6 -> ShiftText(f)
      [] f.op \in {\hA4, \hA5} \cup \hAA..\hAD -> StringText(f)
      [] f.op \in {\hA6, \hA7, \hAE, \hAF} -> CompareText(f)
      [] f.op \in {\h60, \h61, \hC8, \hC9} -> FrameText(f)
      [] f.op \in \h50..\h5F \cup {\h06, \h07, \h0E, \h16, \h17, \h1E, \h1F, \h68, \h6A, \h8F, \h9C, \h9D}
         \/ (f.op = \hFF /\ f.reg = 6) -> StackText(f)
      [] f.op \in {\h8C, \h8E} -> SegmentText(f)
      [] f.op \in {\h86, \h87, \hC4, \hC5, \hD7} \cup \h90..\h97 -> ExchangeText(f)
      [] OTHER -> Refused

(* The locals a statement names.                                           *)
ByteForms == {2 * n : n \in 0..31} \cup {\h80, \h86, \h88, \h8A, \hA0, \hAC, \hC0, \hC6, \hD0, \hD2, \hD7, \hF6, \hFE} \cup \hB0..\hB7
Local(f, name) ==
    CASE name = "rm" -> {Sized(f.rm, WideForm(f))} [] name = "reg" -> {Sized(f.reg, WideForm(f))}
      [] name = "r" -> {IF f.op \in \hB0..\hB7 THEN Half(f.op % 8) ELSE Word(f.op % 8)}
      [] name = "sreg" -> {IF f.op \in WordForms \cup {\hC5}
                           THEN CASE f.op = \hC4 -> "es" [] f.op = \hC5 -> "ds" [] OTHER -> Sreg(f.reg)
                           ELSE Sreg(f.op \div 8)}
      [] name = "ea" -> Bases(f) \cup {LocalSegment(f)}
      [] OTHER -> {name}
Locals(f, names) == (UNION {Local(f, n) : n \in names}) \ {"cs"}
Written(f, t) == Locals(f, t.sets)
LocalsRead(f, t) == Locals(f, t.reads \cup (IF f.op \in ByteForms THEN t.sets ELSE {}))

-----------------------------------------------------------------------------
(* What is compared.  With the instruction as it is executed (e), decoded  *)
(* (d), declared (r) and translated (t):                                   *)

(* push sp stores the decremented sp, pop sp adds to what it loaded, popa  *)
(* does not read the saved sp, and a shift by zero writes nothing back.    *)
StackItself(f) == f.op \in {\h54, \h5C}
Unshifted(f) == f.op \in {\hC0, \hC1} /\ f.imm % 32 = 0
TranslatedAlike(f, e, t) ==
    /\ t.computes = e.computes \/ StackItself(f)
    /\ CASE Unshifted(f) -> t.does = RmSource(f) [] f.op = \h61 -> t.does = Tail(e.does) [] OTHER -> t.does = e.does
    /\ t.sets = e.sets /\ t.flags = e.flags /\ e.leaves = "seq"

(* The declarations leave these out: the segment of a far pointer's        *)
(* operand, the one a string instruction is told to read, and the register *)
(* a segment register is moved to or from when its number is above bx's    *)
(* (it is taken for a byte register).                                      *)
Undeclared(f) ==
    CASE f.op \in {\hC4, \hC5} -> {LocalSegment(f)}
      [] f.op \in \hA4..\hA7 \cup {\hAC, \hAD} -> {Segment(LastOf(f.pre, SegmentPrefixes), "ds")}
      [] f.op \in {\h8C, \h8E} /\ f.mod = 3 /\ f.rm >= 4 -> {Word(f.rm)}
      [] OTHER -> {}
Balance(e) ==
    LET stack == SelectSeq(e.does, LAMBDA a : a.seg = "ss" /\ a.at = "sp")
        Sum[n \in 0..Len(stack)] ==
            IF n = 0 THEN 0 ELSE Sum[n - 1] + (IF stack[n].way = "read" THEN stack[n].bytes ELSE -stack[n].bytes)
    IN  Sum[Len(stack)]
RegistersDeclared(f, e, r, t) ==
    /\ LocalsRead(f, t) \subseteq r.reads \cup Undeclared(f)
    /\ Written(f, t) \subseteq r.writes \cup Undeclared(f)
    /\ r.mem = {IF e.does[i].way = "read" THEN "r" ELSE "w" : i \in DOMAIN e.does}
    /\ r.delta # NoDelta /\ ~AdjustsSp(f) => r.delta = Balance(e)

Comparable(f, e, d, r, t) == Refused \notin {e, t} /\ r # Untold /\ d.kind # "unsupported"
Recovered(f, e, d, r, t) ==
    Comparable(f, e, d, r, t) => TranslatedAlike(f, e, t) /\ RegistersDeclared(f, e, r, t)
AgreeWith(f, e, d) == LiftedAgree(f, e, d) /\ Recovered(f, e, d, RegisterEffects(f), Translated(f))
Agree(f) == AgreeWith(f, Executed(f), Decoded(f))
=============================================================================
