--------------------------- MODULE InstructionSet ---------------------------
(***************************************************************************)
(* What one 16-bit instruction does, four times over: as the interpreter   *)
(* executes it (src/dos_re/cpu.py), as the lifter decodes it               *)
(* (lift/decode.py), as the analyses are told (lift/effects.py), and as    *)
(* the emitted function does it (lift/emit.py).  Each is written from its  *)
(* own ladder or table; the properties ask that they agree.                *)
(*                                                                         *)
(* An instruction is its prefixes, its opcode and the fields behind it.    *)
(* Values are left out (see X86Arithmetic): of an execution there remain   *)
(* the bytes taken behind the opcode, the accesses to memory and ports in  *)
(* their order, the helper that computes and its operands, the registers   *)
(* and flags certainly written, and how control leaves.  "r" is a register *)
(* the opcode names, "reg" and "rm" those of the modrm byte.               *)
(***************************************************************************)
EXTENDS Integers, Sequences

Arith == {"cf", "pf", "af", "zf", "sf", "of"}
Every == Arith \cup {"df", "intf"}

SegmentPrefixes == {\h26, \h2E, \h36, \h3E}
RepPrefixes == {\hF2, \hF3}
SegmentName(b) == CASE b = \h26 -> "es" [] b = \h2E -> "cs" [] b = \h36 -> "ss" [] b = \h3E -> "ds"

Among(pre, set) == SelectSeq(pre, LAMBDA b : b \in set)
FirstOf(pre, set) == LET s == Among(pre, set) IN IF s = <<>> THEN 0 ELSE s[1]
LastOf(pre, set) == LET s == Among(pre, set) IN IF s = <<>> THEN 0 ELSE s[Len(s)]
Segment(prefix, default) == IF prefix = 0 THEN default ELSE SegmentName(prefix)

Access(way, seg, at, bytes) == <<[way |-> way, seg |-> seg, at |-> at, bytes |-> bytes]>>
PushWord == Access("write", "ss", "sp", 2)
PopWord == Access("read", "ss", "sp", 2)
Times(n, s) == [i \in 1..n |-> s[1]]

Refused == [refused |-> TRUE]
Did(takes, does, computes, sets, flags, leaves) ==
    [takes |-> takes, does |-> does, computes |-> computes, sets |-> sets, flags |-> flags,
     leaves |-> leaves]

-----------------------------------------------------------------------------
(* The interpreter.  An operand is in memory unless mod is 3.              *)

DispBytes(f) == CASE f.mod = 0 -> IF f.rm = 6 THEN 2 ELSE 0 [] f.mod = 1 -> 1 [] f.mod = 2 -> 2 [] f.mod = 3 -> 0
EaSegment(f) ==
    Segment(LastOf(f.pre, SegmentPrefixes),
            IF f.rm \in {2, 3} \/ (f.rm = 6 /\ f.mod # 0) THEN "ss" ELSE "ds")

Behind(f) == 1 + DispBytes(f)
Bytes(bits) == bits \div 8
OpBits(f) == IF f.op % 2 = 0 THEN 8 ELSE 16
ReadRm(f, bits) == IF f.mod = 3 THEN <<>> ELSE Access("read", EaSegment(f), "ea", Bytes(bits))
WriteRm(f, bits) == IF f.mod = 3 THEN <<>> ELSE Access("write", EaSegment(f), "ea", Bytes(bits))
SetRm(f) == IF f.mod = 3 THEN {"rm"} ELSE {}
ReadFar(f) == ReadRm(f, 16) \o Access("read", EaSegment(f), "ea+2", 2)
SourceSegment(f) == Segment(LastOf(f.pre, SegmentPrefixes), "ds")

AluFlags(group) == IF group \in {1, 4, 6} THEN Arith \ {"af"} ELSE Arith
ShiftFlags(group, count) ==
    IF count = 0 THEN {}
    ELSE {"cf"} \cup (IF group \in {4, 5, 7} THEN {"zf", "sf", "pf"} ELSE {})
                \cup (IF count = 1 THEN {"of"} ELSE {})

AluRm(f) ==
    LET group == f.op \div 8
        toReg == f.op \div 2 % 2 = 1
    IN  Did(Behind(f),
            ReadRm(f, OpBits(f)) \o (IF toReg \/ group = 7 THEN <<>> ELSE WriteRm(f, OpBits(f))),
            <<"alu", group, OpBits(f), IF toReg THEN "reg,rm" ELSE "rm,reg">>,
            IF group = 7 THEN {} ELSE IF toReg THEN {"reg"} ELSE SetRm(f), AluFlags(group), "seq")
AluAcc(f) ==
    Did(Bytes(OpBits(f)), <<>>, <<"alu", f.op \div 8, OpBits(f), "acc,imm">>,
        IF f.op \div 8 = 7 THEN {} ELSE {"ax"}, AluFlags(f.op \div 8), "seq")
AluImm(f) ==
    Did(Behind(f) + (IF f.op = \h81 THEN 2 ELSE 1),
        ReadRm(f, OpBits(f)) \o (IF f.reg = 7 THEN <<>> ELSE WriteRm(f, OpBits(f))),
        <<"alu", f.reg, OpBits(f), IF f.op = \h83 THEN "rm,imm8sx" ELSE "rm,imm">>,
        IF f.reg = 7 THEN {} ELSE SetRm(f), AluFlags(f.reg), "seq")
ShiftRm(f) ==
    LET byImm == f.op \in {\hC0, \hC1}
        count == CASE byImm -> f.imm % 32 [] f.op \in {\hD0, \hD1} -> 1 [] OTHER -> 0
    IN  IF f.reg = 6 /\ ~(byImm /\ count = 0) THEN Refused
        ELSE Did(Behind(f) + (IF byImm THEN 1 ELSE 0), ReadRm(f, OpBits(f)) \o WriteRm(f, OpBits(f)),
                 <<"shift", f.reg, OpBits(f),
                   CASE byImm -> "imm" [] f.op \in {\hD0, \hD1} -> "1" [] OTHER -> "cl">>,
                 SetRm(f), ShiftFlags(f.reg, count), "seq")

IncDecRm(f) ==
    Did(Behind(f), ReadRm(f, OpBits(f)) \o WriteRm(f, OpBits(f)),
        <<IF f.reg = 0 THEN "inc" ELSE "dec", OpBits(f)>>, SetRm(f), Arith \ {"cf"}, "seq")
Group5(f) ==
    LET Goes(does, leaves) == Did(Behind(f), does, <<leaves, f.reg>>, {"sp"}, {}, leaves)
    IN  CASE f.reg \in {0, 1} -> IncDecRm(f)
          [] f.op = \hFE \/ f.reg = 7 \/ (f.reg \in {3, 5} /\ f.mod = 3) -> Refused
          [] f.reg = 2 -> Goes(ReadRm(f, 16) \o PushWord, "callind")
          [] f.reg = 3 -> Goes(ReadFar(f) \o PushWord \o PushWord, "callind")
          [] f.reg = 4 -> [Goes(ReadRm(f, 16), "jmpind") EXCEPT !.sets = {}]
          [] f.reg = 5 -> [Goes(ReadFar(f), "jmpind") EXCEPT !.sets = {}]
          [] f.reg = 6 -> Did(Behind(f), ReadRm(f, 16) \o PushWord, <<"push", "rm">>, {"sp"}, {}, "seq")

Goes(takes, does, leaves) ==
    Did(takes, does, <<leaves>>, IF does = <<>> THEN {} ELSE {"sp"}, {}, leaves)
Pushes(takes, what) == Did(takes, PushWord, <<"push", what>>, {"sp"}, {}, "seq")
Pops(what) == Did(0, PopWord, <<"pop", what>>, {"sp", what}, {}, "seq")
Move(takes, does, what, sets) == Did(takes, does, <<"mov", what>>, sets, {}, "seq")
Sets(computes, sets, flags) == Did(0, <<>>, computes, sets, flags, "seq")

Branch(f) == Did(1, <<>>, <<"condition", f.op % 16>>, {}, {}, "jcc")
NearControl(f) ==
    CASE f.op = \hE8 -> Goes(2, PushWord, "call") [] f.op = \hC3 -> Goes(0, PopWord, "ret")
      [] f.op \in \hE0..\hE2 -> Did(1, <<>>, <<"loop", f.op>>, {"cx"}, {}, "jcc")
      [] f.op = \hEB -> Goes(1, <<>>, "jmp")
Enter(f) ==
    LET nesting == f.imm % 32
        Enclosing[n \in 0..31] ==
            IF n = 0 THEN <<>> ELSE Enclosing[n - 1] \o Access("read", "ss", "bp", 2) \o PushWord
    IN  Did(3, PushWord \o (IF nesting = 0 THEN <<>> ELSE Enclosing[nesting - 1] \o PushWord),
            <<"enter", nesting>>, {"sp", "bp"}, {}, "seq")
FarControl(f) ==
    CASE f.op = \h9A -> Goes(4, PushWord \o PushWord, "callfar")
      [] f.op = \hE9 -> Goes(2, <<>>, "jmp") [] f.op = \hEA -> Goes(4, <<>>, "jmpfar")
      [] f.op = \hC2 -> Goes(2, PopWord, "ret")
      [] f.op = \hCA -> Goes(2, PopWord \o PopWord, "retf") [] f.op = \hCB -> Goes(0, PopWord \o PopWord, "retf")
      [] f.op = \hCF -> [Goes(0, Times(3, PopWord), "iret") EXCEPT !.flags = Every]
      [] f.op = \hC8 -> Enter(f)
      [] f.op = \hC9 -> Did(0, PopWord, <<"leave">>, {"sp", "bp"}, {}, "seq")
      [] f.op = \hE3 -> Did(1, <<>>, <<"loop", f.op>>, {}, {}, "jcc")

(* Exchange and move between a register and an operand; a register counted *)
(* up or down, or loaded.                                                  *)
MoveRm(f) ==
    CASE f.op \in {\h86, \h87} -> Move(Behind(f), ReadRm(f, OpBits(f)) \o WriteRm(f, OpBits(f)), "reg,rm,reg",
                                       {"reg"} \cup SetRm(f))
      [] f.op \in {\h88, \h89} -> Move(Behind(f), WriteRm(f, OpBits(f)), "rm,reg", SetRm(f))
      [] f.op \in {\h8A, \h8B} -> Move(Behind(f), ReadRm(f, OpBits(f)), "reg,rm", {"reg"})
CountOrLoad(f) ==
    CASE f.op \in \h40..\h47 -> Sets(<<"inc", 16>>, {"r"}, Arith \ {"cf"})
      [] f.op \in \h48..\h4F -> Sets(<<"dec", 16>>, {"r"}, Arith \ {"cf"})
      [] f.op \in \hB0..\hB7 -> Move(1, <<>>, "r,imm", {"r"})
      [] f.op \in \hB8..\hBF -> Move(2, <<>>, "r,imm", {"r"})

Stack(f) ==
    LET All == {"ax", "bx", "cx", "dx", "bp", "si", "di", "sp"}
    IN  CASE f.op \in \h50..\h57 -> Pushes(0, "r") [] f.op \in \h58..\h5F -> Pops("r")
          [] f.op \in {\h06, \h0E, \h16, \h1E} -> Pushes(0, "sreg") [] f.op \in {\h07, \h17, \h1F} -> Pops("sreg")
          [] f.op = \h60 -> Did(0, Times(8, PushWord), <<"pusha">>, {"sp"}, {}, "seq")
          [] f.op = \h61 -> Did(0, Times(8, PopWord), <<"popa">>, All, {}, "seq")
          [] f.op = \h68 -> Pushes(2, "imm") [] f.op = \h6A -> Pushes(1, "imm8sx")
          [] f.op \in {\h69, \h6B} ->
                Did(Behind(f) + (IF f.op = \h69 THEN 2 ELSE 1), ReadRm(f, 16), <<"imul", "reg,rm,imm">>, {"reg"}, {"cf", "of"}, "seq")
          [] f.op = \h9C -> Pushes(0, "flags") [] f.op = \h9D -> Did(0, PopWord, <<"popf">>, {"sp"}, Every, "seq")
          [] f.op = \h9B -> Move(0, <<>>, "nothing", {})
          [] f.op = \h9E -> Sets(<<"sahf">>, {}, Arith \ {"of"}) [] f.op = \h9F -> Sets(<<"lahf">>, {"ax"}, {})
          [] f.op = \h98 -> Sets(<<"cbw">>, {"ax"}, {}) [] f.op = \h99 -> Sets(<<"cwd">>, {"dx"}, {})

MoveOther(f) ==
    LET Moffs(way) == Access(way, SourceSegment(f), "imm", Bytes(OpBits(f)))
    IN  CASE f.op = \h8C -> Move(Behind(f), WriteRm(f, 16), "rm,sreg", SetRm(f))
          [] f.op = \h8E -> Move(Behind(f), ReadRm(f, 16), "sreg,rm", {"sreg"})
          [] f.op \in {\hA0, \hA1} -> Move(2, Moffs("read"), "acc,moffs", {"ax"})
          [] f.op \in {\hA2, \hA3} -> Move(2, Moffs("write"), "moffs,acc", {})
          [] f.op \in {\hC6, \hC7} ->
                IF f.reg # 0 THEN Refused
                ELSE Move(Behind(f) + Bytes(OpBits(f)), WriteRm(f, OpBits(f)), "rm,imm", SetRm(f))
TestAndLoad(f) ==
    CASE f.op \in {\h84, \h85} -> Did(Behind(f), ReadRm(f, OpBits(f)), <<"test", OpBits(f), "rm,reg">>, {}, AluFlags(4), "seq")
      [] f.op \in {\hA8, \hA9} -> Did(Bytes(OpBits(f)), <<>>, <<"test", OpBits(f), "acc,imm">>, {}, AluFlags(4), "seq")
      [] f.op = \h8D -> IF f.mod = 3 THEN Refused ELSE Move(Behind(f), <<>>, "reg,ea", {"reg"})
      [] f.op \in {\hC4, \hC5} ->
            IF f.mod = 3 THEN Refused ELSE Move(Behind(f), ReadFar(f), "reg,far", {"reg", "sreg"})
      [] f.op = \h8F -> Did(Behind(f), PopWord \o WriteRm(f, 16), <<"pop", "rm">>, {"sp"} \cup SetRm(f), {}, "seq")
      [] f.op \in \h91..\h97 -> Move(0, <<>>, "ax,r,ax", {"ax", "r"})
      [] f.op = \h90 -> Move(0, <<>>, "nothing", {})

StringOp(f) ==
    LET bytes == Bytes(OpBits(f))
        rep == LastOf(f.pre, RepPrefixes)
        source == Access("read", SourceSegment(f), "si", bytes)
        compares == f.op \in {\hA6, \hA7, \hAE, \hAF}
        loads == f.op \in {\hAC, \hAD}
        One == CASE f.op \in {\h6C, \h6D} -> Access("in", "port", "dx", bytes) \o Access("write", "es", "di", bytes)
                 [] f.op \in {\h6E, \h6F} -> source \o Access("out", "port", "dx", bytes)
                 [] f.op \in {\hA4, \hA5} -> source \o Access("write", "es", "di", bytes)
                 [] f.op \in {\hA6, \hA7} -> source \o Access("read", "es", "di", bytes)
                 [] f.op \in {\hAA, \hAB} -> Access("write", "es", "di", bytes)
                 [] f.op \in {\hAC, \hAD} -> source
                 [] f.op \in {\hAE, \hAF} -> Access("read", "es", "di", bytes)
    IN  Did(0, One, <<"string", f.op, rep>>,
            (IF \E i \in DOMAIN One : One[i].at = "si" THEN {"si"} ELSE {})
            \cup (IF \E i \in DOMAIN One : One[i].at = "di" THEN {"di"} ELSE {})
            \cup (IF rep # 0 THEN {"cx"} ELSE {}) \cup (IF loads THEN {"ax"} ELSE {}),
            IF compares /\ rep = 0 THEN Arith ELSE {}, "seq")

Group3(f) ==
    LET bits == OpBits(f)
        G(does, computes, sets, flags) == Did(Behind(f), ReadRm(f, bits) \o does, computes, sets, flags, "seq")
        wide == IF bits = 8 THEN {"ax"} ELSE {"ax", "dx"}
    IN  CASE f.reg = 0 -> [G(<<>>, <<"test", bits, "rm,imm">>, {}, AluFlags(4)) EXCEPT !.takes = @ + Bytes(bits)]
          [] f.reg = 1 -> Refused
          [] f.reg = 2 -> G(WriteRm(f, bits), <<"not", bits>>, SetRm(f), {})
          [] f.reg = 3 -> G(WriteRm(f, bits), <<"neg", bits>>, SetRm(f), Arith)
          [] f.reg = 4 -> G(<<>>, <<"mul", bits>>, wide, {"cf", "of"})
          [] f.reg = 5 -> G(<<>>, <<"imul", bits>>, wide, {"cf", "of"})
          [] f.reg = 6 -> G(<<>>, <<"div", bits>>, wide, {})
          [] f.reg = 7 -> G(<<>>, <<"idiv", bits>>, wide, {})
Table(f) ==
    IF f.op = \hD7 THEN Move(0, Access("read", SourceSegment(f), "bx+al", 1), "al,table", {"ax"})
    ELSE Sets(<<"daa">>, {"ax"}, Arith \ {"of"})
FlagsAndPorts(f) ==
    LET Port(way) == Access(way, "port", IF f.op < \hE8 THEN "imm" ELSE "dx", Bytes(OpBits(f)))
        portByte == IF f.op < \hE8 THEN 1 ELSE 0
    IN  CASE f.op \in {\hF5, \hF8, \hF9} -> Sets(<<"flag", f.op>>, {}, {"cf"})
          [] f.op \in {\hFA, \hFB} -> Sets(<<"flag", f.op>>, {}, {"intf"})
          [] f.op \in {\hFC, \hFD} -> Sets(<<"flag", f.op>>, {}, {"df"})
          [] f.op = \hF4 -> Goes(0, <<>>, "hlt")
          [] f.op \in {\hE4, \hE5, \hEC, \hED} -> Did(portByte, Port("in"), <<"in">>, {"ax"}, {}, "seq")
          [] f.op \in {\hE6, \hE7, \hEE, \hEF} -> Did(portByte, Port("out"), <<"out">>, {}, {}, "seq")
          [] f.op = \hCC -> Goes(0, <<>>, "int") [] f.op = \hCD -> Goes(1, <<>>, "int")
Float(f) == Did(Behind(f), <<>>, <<"x87", f.op, f.reg, IF f.mod = 3 THEN "st" ELSE EaSegment(f)>>, {}, {}, "seq")

Strings == \h6C..\h6F \cup \hA4..\hA7 \cup \hAA..\hAF
StackOps == \h50..\h61 \cup {\h06, \h07, \h0E, \h16, \h17, \h1E, \h1F, \h68, \h69, \h6A, \h6B}
            \cup {\h98, \h99} \cup \h9B..\h9F
Ports == \hE4..\hE7 \cup \hEC..\hEF

ExecuteOpcode(f) ==
    CASE f.op < \h40 /\ f.op % 8 \in 0..3 -> AluRm(f)
      [] f.op < \h40 /\ f.op % 8 \in {4, 5} -> AluAcc(f)
      [] f.op \in \h80..\h83 -> AluImm(f)
      [] f.op \in {\hC0, \hC1} \cup \hD0..\hD3 -> ShiftRm(f)
      [] f.op \in {\hFE, \hFF} -> Group5(f)
      [] f.op \in {\hF6, \hF7} -> Group3(f)
      [] f.op \in \h70..\h7F -> Branch(f)
      [] f.op \in {\hE8, \hC3, \hEB} \cup \hE0..\hE2 -> NearControl(f)
      [] f.op \in {\h9A, \hE9, \hEA, \hC2, \hC8, \hC9, \hCA, \hCB, \hCF, \hE3} -> FarControl(f)
      [] f.op \in StackOps -> Stack(f)
      [] f.op \in \h86..\h8B -> MoveRm(f)
      [] f.op \in \h40..\h4F \cup \hB0..\hBF -> CountOrLoad(f)
      [] f.op \in {\h8C, \h8E, \hC6, \hC7} \cup \hA0..\hA3 -> MoveOther(f)
      [] f.op \in {\h84, \h85, \hA8, \hA9, \h8D, \hC4, \hC5, \h8F} \cup \h90..\h97 -> TestAndLoad(f)
      [] f.op \in Strings -> StringOp(f)
      [] f.op \in {\hD7, \h27} -> Table(f)
      [] f.op \in Ports \cup {\hF4, \hF5, \hCC, \hCD} \cup \hF8..\hFD -> FlagsAndPorts(f)
      [] f.op \in \hD8..\hDF -> Float(f)
      [] OTHER -> Refused

(* The prefixes the step takes; any other byte is the opcode.              *)
Executed(f) ==
    IF \E i \in DOMAIN f.pre : f.pre[i] \notin SegmentPrefixes \cup RepPrefixes \cup {\h66} THEN Refused
    ELSE ExecuteOpcode(f)
=============================================================================
