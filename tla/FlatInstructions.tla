-------------------------- MODULE FlatInstructions --------------------------
(***************************************************************************)
(* What one 32-bit instruction does as the flat interpreter executes it    *)
(* (src/dos_re/cpu386.py), in the terms of InstructionSet.  Operands are   *)
(* of four bytes, or two behind 66h; an operand's place is the base and    *)
(* index registers and the displacement it is the sum of.  A two-byte      *)
(* opcode is 0F00h and its second byte; of ENTER's immediate bytes, imm is *)
(* the nesting level; ea is the operand's place, once it is resolved.      *)
(***************************************************************************)
EXTENDS InstructionSet

FlatSegments == SegmentPrefixes \cup {\h64, \h65}
FlatSegment(f, default) ==
    LET p == LastOf(f.pre, FlatSegments)
    IN  CASE p = 0 -> default [] p = \h64 -> "fs" [] p = \h65 -> "gs" [] p \in SegmentPrefixes -> SegmentName(p)
Behind66(f) == \E i \in DOMAIN f.pre : f.pre[i] = \h66
Behind67(f) == \E i \in DOMAIN f.pre : f.pre[i] = \h67
OpSize(f) == IF Behind66(f) THEN 2 ELSE 4
AdSize(f) == IF Behind67(f) THEN 2 ELSE 4
Size(f) == IF f.op % 2 = 0 THEN 1 ELSE OpSize(f)
FlatLogic == Arith \ {"af"}

Reg == [i \in 0..8 |-> <<"eax", "ecx", "edx", "ebx", "esp", "ebp", "esi", "edi", "none">>[i + 1]]
NoReg == 8
Ea(base, index, bytes) == <<"ea", Reg[base], Reg[index], <<"none", "byte", "word", "none", "dword">>[bytes + 1]>>

(* The addressing forms: the bytes they take behind the modrm byte, their  *)
(* place and their segment.                                                *)
DispSize(mod, wide) == CASE mod = 1 -> 1 [] mod = 2 -> wide [] OTHER -> 0
Addr32(f) ==
    CASE f.rm = 4 ->
            LET bare == f.base = 5 /\ f.mod = 0
                disp == IF bare THEN 4 ELSE DispSize(f.mod, 4)
            IN  [takes |-> 1 + disp,
                 at |-> Ea(IF bare THEN NoReg ELSE f.base, IF f.index = 4 THEN NoReg ELSE f.index, disp),
                 seg |-> IF ~bare /\ f.base \in {4, 5} THEN "ss" ELSE "ds"]
      [] f.rm = 5 /\ f.mod = 0 -> [takes |-> 4, at |-> Ea(NoReg, NoReg, 4), seg |-> "ds"]
      [] OTHER -> [takes |-> DispSize(f.mod, 4), at |-> Ea(f.rm, NoReg, DispSize(f.mod, 4)),
                   seg |-> IF f.rm = 5 THEN "ss" ELSE "ds"]
Addr16(f) ==
    LET bare == f.rm = 6 /\ f.mod = 0
        disp == IF bare THEN 2 ELSE DispSize(f.mod, 2)
        first == <<3, 3, 5, 5, 6, 7, 5, 3>>[f.rm + 1]
        second == <<6, 7, 6, 7, NoReg, NoReg, NoReg, NoReg>>[f.rm + 1]
    IN  [takes |-> disp, at |-> Ea(IF bare THEN NoReg ELSE first, IF bare THEN NoReg ELSE second, disp),
         seg |-> IF ~bare /\ f.rm \in {2, 3, 6} THEN "ss" ELSE "ds"]
MemAddr(f) == LET a == IF AdSize(f) = 4 THEN Addr32(f) ELSE Addr16(f) IN [a EXCEPT !.seg = FlatSegment(f, @)]

AfterModrm(f) == 1 + (IF f.mod = 3 THEN 0 ELSE f.ea.takes)
Touches(f, way, bytes) == IF f.mod = 3 THEN <<>> ELSE Access(way, f.ea.seg, f.ea.at, bytes)
RmRead(f, bytes) == Touches(f, "read", bytes)
RmWrite(f, bytes) == Touches(f, "write", bytes)
Update(f, bytes) == RmRead(f, bytes) \o RmWrite(f, bytes)
Written(f) == IF f.mod = 3 THEN {"rm"} ELSE {}
PushV(bytes) == Access("write", "ss", <<"sp">>, bytes)
PopV(bytes) == Access("read", "ss", <<"sp">>, bytes)
Simple(computes, sets, flags) == Did(0, <<>>, computes, sets, flags, "seq")
Moves(takes, does, what, sets) == Did(takes, does, <<"mov", what>>, sets, {}, "seq")
PushOf(f, takes, what) == Did(takes, PushV(OpSize(f)), <<"push", what>>, {"esp"}, {}, "seq")
PopOf(f, what) == Did(0, PopV(OpSize(f)), <<"pop", what>>, {"esp", what}, {}, "seq")
Leaves(takes, does, way) == Did(takes, does, <<way>>, IF does = <<>> THEN {} ELSE {"esp"}, {}, way)

-----------------------------------------------------------------------------
(* The ladder, in its order.                                               *)

SegmentStack(f) == IF f.op \in {\h06, \h0E, \h16, \h1E} THEN PushOf(f, 0, "sreg") ELSE PopOf(f, "sreg")
AluFlags32(group) == IF group \in {1, 4, 6} THEN FlatLogic ELSE Arith
AluForm(f) ==
    LET group == f.op \div 8
        form == f.op % 8
        back == group # 7
    IN  CASE form \in {0, 1} ->
                Did(AfterModrm(f), RmRead(f, Size(f)) \o (IF back THEN RmWrite(f, Size(f)) ELSE <<>>),
                    <<"alu", group, Size(f), "rm,reg">>, IF back THEN Written(f) ELSE {}, AluFlags32(group), "seq")
          [] form \in {2, 3} ->
                Did(AfterModrm(f), RmRead(f, Size(f)), <<"alu", group, Size(f), "reg,rm">>,
                    IF back THEN {"reg"} ELSE {}, AluFlags32(group), "seq")
          [] form \in {4, 5} ->
                Did(Size(f), <<>>, <<"alu", group, Size(f), "acc,imm">>, IF back THEN {"eax"} ELSE {},
                    AluFlags32(group), "seq")
CountStack(f) ==
    CASE f.op \in \h40..\h47 -> Simple(<<"inc", OpSize(f)>>, {"r"}, Arith \ {"cf"})
      [] f.op \in \h48..\h4F -> Simple(<<"dec", OpSize(f)>>, {"r"}, Arith \ {"cf"})
      [] f.op \in \h50..\h57 -> PushOf(f, 0, "r")
      [] f.op \in \h58..\h5F -> PopOf(f, "r")
AllRegs == {Reg[i] : i \in 0..7}
PushAll(f) ==
    CASE f.op = \h60 -> Did(0, Times(8, PushV(OpSize(f))), <<"pusha">>, {"esp"}, {}, "seq")
      [] f.op = \h61 -> Did(0, Times(8, PopV(OpSize(f))), <<"popa">>, AllRegs, {}, "seq")
      [] f.op = \h68 -> PushOf(f, OpSize(f), "imm")
      [] f.op = \h6A -> PushOf(f, 1, "imm8sx")
      [] f.op \in {\h69, \h6B} ->
            Did(AfterModrm(f) + (IF f.op = \h69 THEN OpSize(f) ELSE 1), RmRead(f, OpSize(f)),
                <<"imul", IF f.op = \h69 THEN "reg,rm,imm" ELSE "reg,rm,imm8sx">>, {"reg"}, {"cf", "of"}, "seq")
JccShort(f) == Did(1, <<>>, <<"condition", f.op % 16>>, {}, {}, "jcc")
Group1(f) ==
    LET size == IF f.op = \h80 THEN 1 ELSE OpSize(f) IN
    Did(AfterModrm(f) + (IF f.op = \h83 THEN 1 ELSE size),
        IF f.reg = 7 THEN RmRead(f, size) ELSE Update(f, size),
        <<"alu", f.reg, size, IF f.op = \h83 THEN "rm,imm8sx" ELSE "rm,imm">>,
        IF f.reg = 7 THEN {} ELSE Written(f), AluFlags32(f.reg), "seq")
TestExchange(f) ==
    IF f.op \in {\h84, \h85}
    THEN Did(AfterModrm(f), RmRead(f, Size(f)), <<"test", Size(f), "rm,reg">>, {}, FlatLogic, "seq")
    ELSE Moves(AfterModrm(f), Update(f, Size(f)), "reg,rm,reg", {"reg"} \cup Written(f))
Moved(f) ==
    CASE f.op \in {\h88, \h89} -> Moves(AfterModrm(f), RmWrite(f, Size(f)), "rm,reg", Written(f))
      [] f.op \in {\h8A, \h8B} -> Moves(AfterModrm(f), RmRead(f, Size(f)), "reg,rm", {"reg"})
      [] f.op = \h8D -> Moves(AfterModrm(f), <<>>, IF f.mod = 3 THEN "reg,number" ELSE "reg,ea", {"reg"})
      [] f.op = \h8C -> IF f.reg > 5 THEN Refused ELSE Moves(AfterModrm(f), RmWrite(f, 2), "rm,sreg", Written(f))
      [] f.op = \h8E -> IF f.reg > 5 THEN Refused ELSE Moves(AfterModrm(f), RmRead(f, 2), "sreg,rm", {"sreg"})
      [] f.op = \h8F ->
            Did(AfterModrm(f), PopV(OpSize(f)) \o RmWrite(f, OpSize(f)), <<"pop", "rm">>, {"esp"} \cup Written(f), {}, "seq")
Accumulator(f) ==
    CASE f.op \in {\h90, \h9B} -> Moves(0, <<>>, "nothing", {})
      [] f.op \in \h91..\h97 -> Moves(0, <<>>, "eax,r,eax", {"eax", "r"})
      [] f.op = \h98 -> Simple(<<"widen", OpSize(f)>>, {"eax"}, {})
      [] f.op = \h99 -> Simple(<<"sign", OpSize(f)>>, {"edx"}, {})
      [] f.op = \h9E -> Simple(<<"sahf">>, {}, Arith \ {"of"})
      [] f.op = \h9F -> Simple(<<"lahf">>, {"eax"}, {})
      [] f.op = \h9C -> PushOf(f, 0, "flags")
      [] f.op = \h9D -> Did(0, PopV(OpSize(f)), <<"popf">>, {"esp"}, Every, "seq")
Moffs(f) ==
    LET at(way) == Access(way, FlatSegment(f, "ds"), <<"imm">>, Size(f)) IN
    IF f.op \in {\hA0, \hA1} THEN Moves(AdSize(f), at("read"), "eax,moffs", {"eax"})
    ELSE Moves(AdSize(f), at("write"), "moffs,eax", {})
TestAcc(f) == Did(Size(f), <<>>, <<"test", Size(f), "acc,imm">>, {}, FlatLogic, "seq")
LoadImm(f) ==
    IF f.op \in \hB0..\hB7 THEN Moves(1, <<>>, "r,imm8", {"r"}) ELSE Moves(OpSize(f), <<>>, "r,imm", {"r"})

(* The shift itself, which emitted code calls with the operand: a count of *)
(* zero, or a rotation that is a whole turn, writes nothing.               *)
ShiftIt(f, by, count) ==
    LET turns == f.reg \in {0, 1}
        still == count = 0 \/ (turns /\ count % (8 * Size(f)) = 0)
    IN  [does |-> IF by # "cl" /\ still THEN RmRead(f, Size(f)) ELSE Update(f, Size(f)),
         computes |-> <<"shift", f.reg, Size(f), by>>,
         flags |-> CASE by = "cl" \/ still -> {} [] f.reg \in 0..3 -> {"cf"}
                     [] OTHER -> (FlatLogic \ {"of"}) \cup (IF count = 1 THEN {"of"} ELSE {})]
ShiftForm(f) ==
    LET by == CASE f.op \in {\hC0, \hC1} -> "imm" [] f.op \in {\hD0, \hD1} -> "1" [] OTHER -> "cl"
        s == ShiftIt(f, by, CASE by = "imm" -> f.imm % 32 [] by = "1" -> 1 [] by = "cl" -> 0)
    IN  Did(AfterModrm(f) + (IF by = "imm" THEN 1 ELSE 0), s.does, s.computes, Written(f), s.flags, "seq")

Returns(f) ==
    CASE f.op = \hC2 -> Leaves(2, PopV(OpSize(f)), "ret")
      [] f.op = \hC3 -> Leaves(0, PopV(OpSize(f)), "ret")
      [] f.op \in {\hC6, \hC7} -> Moves(AfterModrm(f) + Size(f), RmWrite(f, Size(f)), "rm,imm", Written(f))
      [] f.op = \hC9 -> Did(0, PopV(OpSize(f)), <<"leave">>, {"esp", "ebp"}, {}, "seq")
      [] f.op = \hC8 -> IF f.imm % 32 # 0 THEN Refused
                        ELSE Did(3, PushV(OpSize(f)), <<"enter">>, {"esp", "ebp"}, {}, "seq")
      [] f.op \in {\hC4, \hC5} ->
            IF f.mod = 3 THEN Refused
            ELSE Moves(AfterModrm(f), RmRead(f, OpSize(f)) \o Access("read", f.ea.seg, <<"behind">>, 2),
                       "reg,far", {"reg", "sreg"})
      [] f.op = \hCC -> Leaves(0, <<>>, "int")
      [] f.op = \hCD -> Leaves(1, <<>>, "int")
      [] f.op = \hCF -> [Leaves(0, Times(3, PopV(OpSize(f))), "iret") EXCEPT !.flags = Every]
Loops(f) == Did(1, <<>>, <<"loop", f.op, AdSize(f)>>, IF f.op = \hE3 THEN {} ELSE {"ecx"}, {}, "jcc")
PortForm(f) ==
    LET byImm == f.op < \hE8
        in == f.op \in {\hE4, \hE5, \hEC, \hED}
    IN  Did(IF byImm THEN 1 ELSE 0,
            Access(IF in THEN "in" ELSE "out", "port", IF byImm THEN <<"imm">> ELSE <<"dx">>, Size(f)),
            IF in THEN <<"in">> ELSE <<"out">>, IF in THEN {"eax"} ELSE {}, {}, "seq")
Near(f) ==
    CASE f.op = \hE8 -> Leaves(OpSize(f), PushV(OpSize(f)), "call")
      [] f.op = \hE9 -> Leaves(OpSize(f), <<>>, "jmp")
      [] f.op = \hEB -> Leaves(1, <<>>, "jmp")
FlagForm(f) ==
    CASE f.op = \hF4 -> Leaves(0, <<>>, "hlt")
      [] f.op \in {\hF5, \hF8, \hF9} -> Simple(<<"flag", f.op>>, {}, {"cf"})
      [] f.op \in {\hFA, \hFB} -> Simple(<<"flag", f.op>>, {}, {"intf"})
      [] f.op \in {\hFC, \hFD} -> Simple(<<"flag", f.op>>, {}, {"df"})

(* Group 3 from its operand on, as emitted code calls it.                  *)
Group3It(f) ==
    LET size == IF f.op = \hF6 THEN 1 ELSE OpSize(f)
        G(does, computes, sets, flags) == [does |-> does, computes |-> computes, sets |-> sets, flags |-> flags]
        wide == IF size = 1 THEN {"eax"} ELSE {"eax", "edx"}
    IN  CASE f.reg \in {0, 1} -> G(RmRead(f, size), <<"test", size, "rm,imm">>, {}, FlatLogic)
          [] f.reg = 2 -> G(Update(f, size), <<"not", size>>, Written(f), {})
          [] f.reg = 3 -> G(Update(f, size), <<"neg", size>>, Written(f), Arith)
          [] f.reg \in {4, 5} -> G(RmRead(f, size), <<IF f.reg = 4 THEN "mul" ELSE "imul", size>>, wide, {"cf", "of"})
          [] f.reg \in {6, 7} -> G(RmRead(f, size), <<IF f.reg = 6 THEN "div" ELSE "idiv", size>>, wide, {})
Group3Form(f) ==
    LET g == Group3It(f)
    IN  Did(AfterModrm(f) + (IF f.reg \in {0, 1} THEN Size(f) ELSE 0), g.does, g.computes, g.sets, g.flags, "seq")
(* FEh computes on bytes but calls, jumps and pushes as FFh does.          *)
Group5Form(f) ==
    CASE f.reg \in {0, 1} ->
            Did(AfterModrm(f), Update(f, Size(f)), <<IF f.reg = 0 THEN "inc" ELSE "dec", Size(f)>>, Written(f), Arith \ {"cf"}, "seq")
      [] f.reg = 2 -> Leaves(AfterModrm(f), PushV(OpSize(f)) \o RmRead(f, OpSize(f)), "callind")
      [] f.reg = 4 -> [Leaves(AfterModrm(f), RmRead(f, OpSize(f)), "jmpind") EXCEPT !.sets = {}]
      [] f.reg = 6 -> Did(AfterModrm(f), RmRead(f, OpSize(f)) \o PushV(OpSize(f)), <<"push", "rm">>, {"esp"}, {}, "seq")
      [] OTHER -> Refused

FlatString(f, rep) ==
    LET source == Access("read", FlatSegment(f, "ds"), <<"si">>, Size(f))
        target(way) == Access(way, "es", <<"di">>, Size(f))
        compares == f.op \in {\hA6, \hA7, \hAE, \hAF}
    IN  Did(0, (IF f.op \in \hA4..\hA7 \cup {\hAC, \hAD} THEN source ELSE <<>>)
               \o (CASE f.op \in {\hA4, \hA5, \hAA, \hAB} -> target("write") [] compares -> target("read") [] OTHER -> <<>>),
            <<"string", f.op, rep, AdSize(f)>>,
            (IF f.op \in \hA4..\hA7 \cup {\hAC, \hAD} THEN {"esi"} ELSE {})
            \cup (IF f.op \in {\hAC, \hAD} THEN {"eax"} ELSE {"edi"}) \cup (IF rep # 0 THEN {"ecx"} ELSE {}),
            IF compares /\ rep = 0 THEN Arith ELSE {}, "seq")

BitNames == <<"bt", "bts", "btr", "btc">>
BitIt(f, kind, bit) ==
    [does |-> IF f.mod = 3 THEN <<>>
              ELSE Access("read", f.ea.seg, <<"bit">>, 1)
                   \o (IF kind = "bt" THEN <<>> ELSE Access("write", f.ea.seg, <<"bit">>, 1)),
     computes |-> <<kind, OpSize(f), bit>>, sets |-> IF kind = "bt" THEN {} ELSE Written(f)]
BitForm(f) ==
    IF f.op = \h0FBA
    THEN IF f.reg < 4 THEN Refused
         ELSE LET b == BitIt(f, BitNames[f.reg - 3], "imm") IN Did(AfterModrm(f) + 1, b.does, b.computes, b.sets, {"cf"}, "seq")
    ELSE LET kind == CASE f.op = \h0FA3 -> "bt" [] f.op = \h0FAB -> "bts" [] f.op = \h0FB3 -> "btr" [] f.op = \h0FBB -> "btc"
             b == BitIt(f, kind, "reg")
         IN  Did(AfterModrm(f), b.does, b.computes, b.sets, {"cf"}, "seq")
DoubleShiftIt(f, left, by, count) ==
    [does |-> IF by = "imm" /\ count = 0 THEN <<>> ELSE Update(f, OpSize(f)),
     computes |-> <<IF left THEN "shld" ELSE "shrd", OpSize(f), by>>,
     flags |-> IF by = "imm" /\ count # 0 THEN FlatLogic ELSE {}]
DoubleShift(f) ==
    LET by == IF f.op \in {\h0FA4, \h0FAC} THEN "imm" ELSE "cl"
        s == DoubleShiftIt(f, f.op \in {\h0FA4, \h0FA5}, by, f.imm % 32)
    IN  Did(AfterModrm(f) + (IF by = "imm" THEN 1 ELSE 0), s.does, s.computes, Written(f), s.flags, "seq")
Extend(f) ==
    LET size == IF f.op \in {\h0FB6, \h0FBE} THEN 1 ELSE 2 IN
    Did(AfterModrm(f), RmRead(f, size), <<IF f.op \in {\h0FBE, \h0FBF} THEN "movsx" ELSE "movzx", size, OpSize(f)>>, {"reg"}, {}, "seq")
Group7(f) ==
    CASE f.reg = 4 -> Moves(AfterModrm(f), RmWrite(f, 2), "rm,msw", Written(f))
      [] f.reg \in {0, 1} ->         \* a register's number is taken for an address
            Moves(AfterModrm(f), (IF f.mod = 3 THEN Access("write", "flat", <<"number">>, 2) ELSE RmWrite(f, 2))
                                 \o Access("write", "flat", <<"behind">>, 4), "rm,table", {})
      [] f.reg \in {2, 3, 6} -> Moves(AfterModrm(f), <<>>, "nothing", {})
      [] OTHER -> Refused
(* A control register is moved whatever mod says: no displacement is read. *)
TwoByte(f) ==
    CASE f.op \in \h0F80..\h0F8F -> Did(OpSize(f), <<>>, <<"condition", f.op % 16>>, {}, {}, "jcc")
      [] f.op \in \h0F90..\h0F9F -> Did(AfterModrm(f), RmWrite(f, 1), <<"setcc", f.op % 16>>, Written(f), {}, "seq")
      [] f.op \in {\h0FB6, \h0FB7, \h0FBE, \h0FBF} -> Extend(f)
      [] f.op = \h0FAF -> Did(AfterModrm(f), RmRead(f, OpSize(f)), <<"imul", "reg,rm">>, {"reg"}, {"cf", "of"}, "seq")
      [] f.op = \h0F01 -> Group7(f)
      [] f.op = \h0F03 -> Did(AfterModrm(f), RmRead(f, 2), <<"lsl", OpSize(f)>>, {"reg"}, {"zf"}, "seq")
      [] f.op = \h0F20 -> Moves(1, <<>>, "rm,cr", {"rm"})
      [] f.op = \h0F22 -> Moves(1, <<>>, "cr,rm", {"cr"})
      [] f.op \in {\h0FA0, \h0FA8} -> PushOf(f, 0, "sreg")
      [] f.op \in {\h0FA1, \h0FA9} -> PopOf(f, "sreg")
      [] f.op \in {\h0FA3, \h0FAB, \h0FB3, \h0FBB, \h0FBA} -> BitForm(f)
      [] f.op \in {\h0FA4, \h0FA5, \h0FAC, \h0FAD} -> DoubleShift(f)
      [] f.op \in {\h0FBC, \h0FBD} -> Did(AfterModrm(f), RmRead(f, OpSize(f)), <<"scan", f.op>>, {}, {"zf"}, "seq")
      [] f.op = \h0F31 -> Simple(<<"rdtsc">>, {"eax", "edx"}, {})
      [] f.op = \h0FA2 -> Simple(<<"cpuid">>, {"eax", "ebx", "ecx", "edx"}, {})
      [] OTHER -> Refused
FloatForm(f) ==
    Did(AfterModrm(f), <<>>, IF f.mod = 3 THEN <<"x87", f.op, f.reg, "st", <<f.rm>>>>
                             ELSE <<"x87", f.op, f.reg, f.ea.seg, f.ea.at>>, {}, {}, "seq")

FlatStrings == \hA4..\hA7 \cup \hAA..\hAF
FlatSegmentOps == {\h06, \h07, \h0E, \h16, \h17, \h1E, \h1F}
FlatExec(f) ==
    CASE f.op \in FlatSegmentOps -> SegmentStack(f)
      [] f.op < \h40 /\ f.op % 8 < 6 -> AluForm(f)
      [] f.op \in \h40..\h5F -> CountStack(f)
      [] f.op \in {\h60, \h61} \cup \h68..\h6B -> PushAll(f)
      [] f.op \in \h70..\h7F -> JccShort(f)
      [] f.op \in {\h80, \h81, \h83} -> Group1(f)
      [] f.op \in \h84..\h87 -> TestExchange(f)
      [] f.op \in \h88..\h8F -> Moved(f)
      [] f.op \in \h90..\h99 \cup \h9B..\h9F -> Accumulator(f)
      [] f.op \in \hA0..\hA3 -> Moffs(f)
      [] f.op \in {\hA8, \hA9} -> TestAcc(f)
      [] f.op \in FlatStrings -> FlatString(f, LastOf(f.pre, RepPrefixes))
      [] f.op \in \hB0..\hBF -> LoadImm(f)
      [] f.op \in {\hC0, \hC1} \cup \hD0..\hD3 -> ShiftForm(f)
      [] f.op \in \hC2..\hC9 \cup {\hCC, \hCD, \hCF} -> Returns(f)
      [] f.op \in \hD8..\hDF -> FloatForm(f)
      [] f.op \in \hE0..\hE3 -> Loops(f)
      [] f.op \in \hE4..\hE7 \cup \hEC..\hEF -> PortForm(f)
      [] f.op \in {\hE8, \hE9, \hEB} -> Near(f)
      [] f.op \in {\hF4, \hF5} \cup \hF8..\hFD -> FlagForm(f)
      [] f.op \in {\hF6, \hF7} -> Group3Form(f)
      [] f.op \in {\hFE, \hFF} -> Group5Form(f)
      [] f.op \in \h0F00..\h0FFF -> TwoByte(f)
      [] OTHER -> Refused
(* Every prefix is taken, LOCK among them; any other byte is the opcode.   *)
FlatPrefixes == FlatSegments \cup RepPrefixes \cup {\h66, \h67, \hF0}
FlatExecuted(f) == IF \E i \in DOMAIN f.pre : f.pre[i] \notin FlatPrefixes THEN Refused
                   ELSE FlatExec(IF f.mod = 3 THEN f ELSE [f EXCEPT !.ea = MemAddr(f)])
=============================================================================
