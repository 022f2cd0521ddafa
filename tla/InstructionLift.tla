--------------------------- MODULE InstructionLift ---------------------------
(***************************************************************************)
(* The same instruction for the lifter: decoded (src/dos_re/lift/          *)
(* decode.py), described to the analyses (lift/effects.py), and emitted    *)
(* (lift/emit.py).  See InstructionSet.                                    *)
(***************************************************************************)
EXTENDS InstructionSet

-----------------------------------------------------------------------------
(* The decoder's table: which opcodes have a modrm byte, how many bytes    *)
(* their immediate takes, and what kind of instruction they are.           *)

HasModrm == {op \in 0..\h3F : op % 8 < 4} \cup {\h62, \h63, \h69, \h6B} \cup \h80..\h8F
            \cup {\hC0, \hC1} \cup \hC4..\hC7 \cup \hD0..\hD3 \cup \hD8..\hDF \cup {\hF6, \hF7, \hFE, \hFF}
ImmBytes ==
    [op \in 0..255 |->
        CASE op \in {\h9A, \hEA} -> 4 [] op = \hC8 -> 3
          [] op \in {b + 5 : b \in {8 * n : n \in 0..7}} \cup \hA0..\hA3 \cup \hB8..\hBF
                    \cup {\h68, \h69, \h81, \hA9, \hC2, \hC7, \hCA, \hE8, \hE9} -> 2
          [] op \in {b + 4 : b \in {8 * n : n \in 0..7}} \cup \h70..\h7F \cup \hB0..\hB7 \cup \hE0..\hE7
                    \cup {\h6A, \h6B, \h80, \h82, \h83, \hA8, \hC0, \hC1, \hC6, \hCD, \hD4, \hD5, \hEB} -> 1
          [] OTHER -> 0]
Unknown == {\h0F, \hD6, \hF1, \h63} \cup \h64..\h67
NoEntry == {\h26, \h2E, \h36, \h3E, \hF0, \hF2, \hF3}
KindOf ==
    [op \in 0..255 |->
        CASE op \in Unknown \cup NoEntry -> "unsupported"
          [] op \in \h70..\h7F \cup \hE0..\hE3 -> "jcc"
          [] op = \hE8 -> "call" [] op = \h9A -> "callfar"
          [] op \in {\hE9, \hEB} -> "jmp" [] op = \hEA -> "jmpfar"
          [] op \in {\hC2, \hC3} -> "ret" [] op \in {\hCA, \hCB} -> "retf" [] op = \hCF -> "iret"
          [] op \in {\hCC, \hCD, \hCE} -> "int" [] op = \hF4 -> "hlt"
          [] OTHER -> "seq"]

GroupKind(f) ==
    CASE f.op = \hFE -> IF f.reg \in {0, 1} THEN "seq" ELSE "unsupported"
      [] f.op = \hFF -> <<"seq", "seq", "callind", "callind", "jmpind", "jmpind", "seq", "unsupported">>[f.reg + 1]
      [] OTHER -> KindOf[f.op]
ModrmDispLen(f) == IF f.mod = 0 /\ f.rm = 6 THEN 2 ELSE <<0, 1, 2, 0>>[f.mod + 1]
GroupImm(f) == IF f.op \in {\hF6, \hF7} /\ f.reg \in {0, 1} THEN f.op - \hF5 ELSE ImmBytes[f.op]

DecodedPrefixes == SegmentPrefixes \cup RepPrefixes \cup {\hF0}
(* Faulty, to break properties: every sub-opcode of group 3 takes an       *)
(* immediate.                                                              *)
DecodedGroup3Imm(f) ==
    [kind |-> GroupKind(f),
     length |-> Len(f.pre) + 1 + (IF f.op \in HasModrm THEN 1 + ModrmDispLen(f) ELSE 0)
                + (IF f.op \in {\hF6, \hF7} THEN f.op - \hF5 ELSE ImmBytes[f.op])]
(* A byte that is neither a prefix nor known ends the decoding.            *)
Decoded(f) ==
    IF \E i \in DOMAIN f.pre : f.pre[i] \notin DecodedPrefixes
    THEN [kind |-> "unsupported", length |-> 1]
    ELSE [kind |-> GroupKind(f),
          length |-> Len(f.pre) + 1 + (IF f.op \in HasModrm THEN 1 + ModrmDispLen(f) ELSE 0) + GroupImm(f)]

-----------------------------------------------------------------------------
(* The effects table: the role of the memory operand, the flags certainly  *)
(* written, the implicit registers written.  Anything else is refused.     *)

Touch(role, seg, at, bytes) == [role |-> role, seg |-> seg, at |-> at, bytes |-> bytes]
EffectSegment(f) ==
    LET p == FirstOf(f.pre, SegmentPrefixes)
    IN  Segment(p, IF f.mod # 3 /\ ~(f.mod = 0 /\ f.rm = 6) /\ f.rm \in {2, 3, 6} THEN "ss" ELSE "ds")
EffectSource(f) == Segment(FirstOf(f.pre, SegmentPrefixes), "ds")
ModrmMem(f, role, bytes) ==
    IF role = "none" \/ f.mod = 3 THEN {} ELSE {Touch(role, EffectSegment(f), "ea", bytes)}

Wide(op) == 1 + (op % 2)
GroupRole(f) ==
    CASE f.op \in {\h80, \h81, \h83} -> <<IF f.reg = 7 THEN "r" ELSE "rw", Wide(f.op)>>
      [] f.op \in {\hC0, \hC1} \cup \hD0..\hD3 -> <<"rw", Wide(f.op)>>
      [] f.op \in {\hF6, \hF7} -> <<IF f.reg \in {2, 3} THEN "rw" ELSE "r", Wide(f.op)>>
      [] f.op \in {\hFE, \hFF} /\ f.reg \in {0, 1} -> <<"rw", Wide(f.op)>>
      [] f.op = \hFF /\ f.reg \in {2, 4, 6} -> <<"r", 2>>
      [] f.op = \hFF /\ f.reg \in {3, 5} -> <<"r", 4>>
      [] OTHER -> <<"refused", 0>>
Groups == {\h80, \h81, \h83, \hC0, \hC1, \hF6, \hF7, \hFE, \hFF} \cup \hD0..\hD3
RmRole(op) ==
    CASE op < \h40 /\ op % 8 \in {0, 1} -> <<IF op \div 8 = 7 THEN "r" ELSE "rw", Wide(op)>>
      [] op < \h40 /\ op % 8 \in {2, 3} -> <<"r", Wide(op)>>
      [] op \in {\h84, \h85, \h8A, \h8B} -> <<"r", Wide(op)>>
      [] op \in {\h86, \h87} -> <<"rw", Wide(op)>> [] op \in {\h88, \h89, \hC6, \hC7} -> <<"w", Wide(op)>>
      [] op \in {\h8C, \h8F} -> <<"w", 2>> [] op = \h8E -> <<"r", 2>> [] op = \h8D -> <<"none", 0>>
      [] op \in {\hC4, \hC5} -> <<"r", 4>>
      [] OTHER -> <<"refused", 0>>
StackRole(op) ==
    CASE op \in \h50..\h57 \cup {\h06, \h0E, \h16, \h1E, \h9C, \hE8} -> <<"w", 2>>
      [] op \in \h58..\h5F \cup {\h07, \h17, \h1F, \h9D, \hC2, \hC3} -> <<"r", 2>>
      [] op \in {\hCA, \hCB} -> <<"r", 4>> [] op = \h9A -> <<"w", 4>> [] op = \hCF -> <<"r", 6>>
      [] OTHER -> <<"refused", 0>>
NoMem == \h40..\h4F \cup \hB0..\hBF \cup \h70..\h7F \cup {8 * n + 4 : n \in 0..7} \cup {8 * n + 5 : n \in 0..7}
         \cup \h90..\h99 \cup {\hA8, \hA9, \hE9, \hEA, \hEB, \hF5, \h27, \h2F, \h37, \h3F}
         \cup \hE0..\hE3 \cup \hF8..\hFD
PortIo == \hE4..\hE7 \cup \hEC..\hEF
StringMem(f) ==
    (IF f.op \in \hA4..\hA7 \cup {\hAC, \hAD} THEN {Touch("r", EffectSource(f), "si", Wide(f.op))} ELSE {})
    \cup (IF f.op \in \hA4..\hA7 \cup {\hAA, \hAB, \hAE, \hAF}
          THEN {Touch(IF f.op \in {\hA4, \hA5, \hAA, \hAB} THEN "w" ELSE "r", "es", "di", Wide(f.op))} ELSE {})

DeclaredFlags(f) ==
    LET logical == IF f.reg \in {4, 5, 7} THEN {"zf", "sf", "pf"} ELSE {}
        n == f.imm % 32
    IN  CASE KindOf[f.op] = "int" \/ f.op = \h9D -> Every
          [] f.op \in {\hF8, \hF9} -> {"cf"} [] f.op = \h27 -> Arith \ {"of"}
          [] f.op \in {\hFC, \hFD} -> {"df"} [] f.op \in {\hFA, \hFB} -> {"intf"}
          [] f.op \in {\hC0, \hC1} /\ f.reg # 6 /\ n # 0 -> {"cf"} \cup logical \cup (IF n = 1 THEN {"of"} ELSE {})
          [] f.op \in {\hD0, \hD1} /\ f.reg # 6 -> {"cf", "of"} \cup logical
          [] f.op \in {\hA6, \hA7, \hAE, \hAF} /\ Among(f.pre, RepPrefixes) = <<>> -> Arith
          [] f.op \in {\h69, \h6B} \/ (f.op \in {\hF6, \hF7} /\ f.reg \in {4, 5}) -> {"cf", "of"}
          [] (f.op < \h40 /\ f.op % 8 <= 5) \/ f.op \in {\h80, \h81, \h83, \h84, \h85, \hA8, \hA9}
             \/ (f.op \in {\hF6, \hF7} /\ f.reg = 3) -> Arith
          [] f.op \in \h40..\h4F \/ (f.op \in {\hFE, \hFF} /\ f.reg \in {0, 1}) -> Arith \ {"cf"}
          [] OTHER -> {}

EffectsOf(f) ==
    LET Told(mem, sets) == [mem |-> mem, flags |-> DeclaredFlags(f), sets |-> sets]
        Mem(role, place) == IF role[1] = "refused" THEN Refused ELSE Told(place, {})
    IN  CASE f.op \in Strings \ \h6C..\h6F ->
                Told(StringMem(f), {t.at : t \in StringMem(f)}
                     \cup (IF Among(f.pre, RepPrefixes) # <<>> THEN {"cx"} ELSE {})
                     \cup (IF f.op \in {\hAC, \hAD} THEN {"ax"} ELSE {}))
          [] f.op = \hD7 -> Told({Touch("r", EffectSource(f), "bx+al", 1)}, {"ax"})
          [] f.op \in \hA0..\hA3 -> Told({Touch(IF f.op < \hA2 THEN "r" ELSE "w", EffectSource(f), "imm", Wide(f.op))}, {})
          [] f.op \in Groups ->
                LET role == GroupRole(f) IN
                IF role[1] = "refused" THEN Refused
                ELSE Told(ModrmMem(f, role[1], role[2]),
                          IF f.op \in {\hF6, \hF7} /\ f.reg >= 4 THEN {"ax", "dx"} ELSE {})
          [] RmRole(f.op)[1] # "refused" -> Told(ModrmMem(f, RmRole(f.op)[1], RmRole(f.op)[2]), {})
          [] StackRole(f.op)[1] # "refused" ->
                Told({Touch(StackRole(f.op)[1], "ss", "sp", StackRole(f.op)[2])}, {"sp"})
          [] f.op \in PortIo \cup NoMem \/ KindOf[f.op] = "int" -> Told({}, {})
          [] OTHER -> Refused

-----------------------------------------------------------------------------
(* The emitted lines, run.  A form without lines of its own falls back on  *)
(* the interpreter; a terminator ends its block.                           *)

Fallback == [fallback |-> TRUE]
Lines(does, computes, sets, flags, leaves) ==
    [does |-> does, computes |-> computes, sets |-> sets, flags |-> flags, leaves |-> leaves]
Straight(does, computes, sets, flags) == Lines(does, computes, sets, flags, "seq")

RmBase == <<"ds", "ds", "ss", "ss", "ds", "ds", "ss", "ds">>
OperandSegment(f) ==
    Segment(LastOf(f.pre, SegmentPrefixes), IF f.mod = 0 /\ f.rm = 6 THEN "ds" ELSE RmBase[f.rm + 1])
OperandRead(f, bits) == IF f.mod = 3 THEN <<>> ELSE Access("read", OperandSegment(f), "ea", bits \div 8)
OperandWrite(f, bits) == IF f.mod = 3 THEN <<>> ELSE Access("write", OperandSegment(f), "ea", bits \div 8)
OperandSet(f) == IF f.mod = 3 THEN {"rm"} ELSE {}
LineBits(f, wide) == IF f.op \in wide THEN 16 ELSE 8

(* cmp writes nothing, whatever its destination.                           *)
AluLines(group, bits, order, reads, writes, set) ==
    Straight(reads \o (IF group = 7 THEN <<>> ELSE writes), <<"alu", group, bits, order>>,
             IF group = 7 THEN {} ELSE set,
             CASE group \in {0, 2} -> Arith [] group \in {3, 5, 7} -> Arith [] OTHER -> Arith \ {"af"})
AluEmitted(f) ==
    LET bits == IF f.op % 2 = 0 THEN 8 ELSE 16
    IN  CASE f.op < \h40 /\ f.op % 8 < 2 ->
                AluLines(f.op \div 8, bits, "rm,reg", OperandRead(f, bits), OperandWrite(f, bits), OperandSet(f))
          [] f.op < \h40 /\ f.op % 8 \in {2, 3} -> AluLines(f.op \div 8, bits, "reg,rm", OperandRead(f, bits), <<>>, {"reg"})
          [] f.op < \h40 -> AluLines(f.op \div 8, bits, "acc,imm", <<>>, <<>>, {"ax"})
          [] OTHER -> AluLines(f.reg, bits, IF f.op = \h83 THEN "rm,imm8sx" ELSE "rm,imm",
                               OperandRead(f, bits), OperandWrite(f, bits), OperandSet(f))

MovEmitted(f) ==
    LET seg == Segment(LastOf(f.pre, SegmentPrefixes), "ds")
        M(does, what, sets) == Straight(does, <<"mov", what>>, sets, {})
        R(wide) == OperandRead(f, LineBits(f, wide))
        W(wide) == OperandWrite(f, LineBits(f, wide))
    IN  CASE f.op \in {\h88, \h89} -> M(W({\h89}), "rm,reg", OperandSet(f))
          [] f.op \in {\h8A, \h8B} -> M(R({\h8B}), "reg,rm", {"reg"})
          [] f.op = \h8C -> M(W({\h8C}), "rm,sreg", OperandSet(f))
          [] f.op = \h8E -> M(R({\h8E}), "sreg,rm", {"sreg"})
          [] f.op \in {\hA0, \hA1} -> M(Access("read", seg, "imm", IF f.op = \hA0 THEN 1 ELSE 2), "acc,moffs", {"ax"})
          [] f.op \in {\hA2, \hA3} -> M(Access("write", seg, "imm", IF f.op = \hA2 THEN 1 ELSE 2), "moffs,acc", {})
          [] f.op \in \hB0..\hBF -> M(<<>>, "r,imm", {"r"})
          [] f.op \in {\hC6, \hC7} -> M(W({\hC7}), "rm,imm", OperandSet(f))
TestOrCount(f) ==
    LET S(computes, sets, flags) == Straight(<<>>, computes, sets, flags)
    IN  CASE f.op \in {\h84, \h85} ->
                Straight(OperandRead(f, LineBits(f, {\h85})), <<"test", LineBits(f, {\h85}), "rm,reg">>, {}, Arith \ {"af"})
          [] f.op \in {\hA8, \hA9} -> S(<<"test", LineBits(f, {\hA9}), "acc,imm">>, {}, Arith \ {"af"})
          [] f.op \in \h40..\h4F -> S(<<IF f.op >= \h48 THEN "dec" ELSE "inc", 16>>, {"r"}, Arith \ {"cf"})
          [] f.op \in {\hFE, \hFF} ->
                Straight(OperandRead(f, LineBits(f, {\hFF})) \o OperandWrite(f, LineBits(f, {\hFF})),
                         <<IF f.reg = 1 THEN "dec" ELSE "inc", LineBits(f, {\hFF})>>, OperandSet(f), Arith \ {"cf"})

LinePush(what) == Straight(PushWord, <<"push", what>>, {"sp"}, {})
LinePop(what) == Straight(PopWord, <<"pop", what>>, {"sp", what}, {})
PushPop(f) ==
    CASE f.op \in \h50..\h57 -> LinePush("r") [] f.op \in \h58..\h5F -> LinePop("r")
      [] f.op \in {\h06, \h0E, \h16, \h1E} -> LinePush("sreg") [] f.op \in {\h07, \h17, \h1F} -> LinePop("sreg")
      [] f.op = \h68 -> LinePush("imm") [] f.op = \h6A -> LinePush("imm8sx")
      [] f.op = \h8F -> Straight(PopWord \o OperandWrite(f, 16), <<"pop", "rm">>, {"sp"} \cup OperandSet(f), {})
      [] f.op = \hFF -> Straight(OperandRead(f, 16) \o PushWord, <<"push", "rm">>, {"sp"}, {})
ExchangeOrLoad(f) ==
    LET bits == LineBits(f, {\h87})
        M(does, what, sets) == Straight(does, <<"mov", what>>, sets, {})
    IN  CASE f.op \in {\h86, \h87} -> M(OperandRead(f, bits) \o OperandWrite(f, bits), "reg,rm,reg", {"reg"} \cup OperandSet(f))
          [] f.op \in \h91..\h97 -> M(<<>>, "ax,r,ax", {"ax", "r"})
          [] f.op = \h90 -> M(<<>>, "nothing", {})
          [] f.op = \h8D -> M(<<>>, "reg,ea", {"reg"})
          [] f.op \in {\hC4, \hC5} ->
                M(Access("read", OperandSegment(f), "ea", 2) \o Access("read", OperandSegment(f), "ea+2", 2), "reg,far", {"reg", "sreg"})
ShiftEmitted(f) ==
    LET bits == LineBits(f, {\hC1, \hD1, \hD3})
        by == CASE f.op \in {\hC0, \hC1} -> "imm" [] f.op \in {\hD0, \hD1} -> "1" [] OTHER -> "cl"
        count == CASE by = "imm" -> f.imm % 32 [] by = "1" -> 1 [] OTHER -> 0
    IN  Straight(OperandRead(f, bits) \o OperandWrite(f, bits), <<"shift", f.reg, bits, by>>, OperandSet(f),
                 ShiftFlags(f.reg, count))
Frames(f) ==
    CASE f.op = \h60 -> Straight(Times(8, PushWord), <<"pusha">>, {"sp"}, {})
      [] f.op = \h61 -> Straight(Times(8, PopWord), <<"popa">>, {"ax", "bx", "cx", "dx", "bp", "si", "di", "sp"}, {})
      [] f.op \in {\h69, \h6B} -> Straight(OperandRead(f, 16), <<"imul", "reg,rm,imm">>, {"reg"}, {"cf", "of"})
      [] f.op = \hC8 -> IF f.imm % 32 # 0 THEN Fallback ELSE Straight(PushWord, <<"enter", 0>>, {"sp", "bp"}, {})
      [] f.op = \hC9 -> Straight(PopWord, <<"leave">>, {"sp", "bp"}, {})
MiscEmitted(f) ==
    LET S(computes, sets, flags) == Straight(<<>>, computes, sets, flags)
    IN  CASE f.op = \h27 -> S(<<"daa">>, {"ax"}, Arith \ {"of"})
          [] f.op = \h98 -> S(<<"cbw">>, {"ax"}, {}) [] f.op = \h99 -> S(<<"cwd">>, {"dx"}, {})
          [] f.op = \h9E -> S(<<"sahf">>, {}, Arith \ {"of"}) [] f.op = \h9F -> S(<<"lahf">>, {"ax"}, {})
          [] f.op = \h9C -> LinePush("flags") [] f.op = \h9D -> Straight(PopWord, <<"popf">>, {"sp"}, Every)
          [] f.op \in \hF5..\hFD ->
                S(<<"flag", f.op>>, {}, CASE f.op \in {\hFA, \hFB} -> {"intf"} [] f.op \in {\hFC, \hFD} -> {"df"} [] OTHER -> {"cf"})

Group3Emitted(f) ==
    LET bits == LineBits(f, {\hF7})
        G(does, computes, sets, flags) == Straight(OperandRead(f, bits) \o does, computes, sets, flags)
        wide == IF bits = 8 THEN {"ax"} ELSE {"ax", "dx"}
    IN  CASE f.reg = 0 -> G(<<>>, <<"test", bits, "rm,imm">>, {}, Arith \ {"af"})
          [] f.reg = 1 -> Fallback
          [] f.reg = 2 -> G(OperandWrite(f, bits), <<"not", bits>>, OperandSet(f), {})
          [] f.reg = 3 -> G(OperandWrite(f, bits), <<"neg", bits>>, OperandSet(f), Arith)
          [] f.reg \in {4, 5} -> G(<<>>, <<IF f.reg = 4 THEN "mul" ELSE "imul", bits>>, wide, {"cf", "of"})
          [] f.reg \in {6, 7} -> G(<<>>, <<IF f.reg = 6 THEN "div" ELSE "idiv", bits>>, wide, {})
PortEmitted(f) ==
    LET at == IF f.op \in \hE4..\hE7 THEN "imm" ELSE "dx"
        bytes == IF f.op \in {\hE4, \hEC, \hE6, \hEE} THEN 1 ELSE 2
    IN  IF f.op \in {\hE4, \hE5, \hEC, \hED}
        THEN Straight(Access("in", "port", at, bytes), <<"in">>, {"ax"}, {})
        ELSE Straight(Access("out", "port", at, bytes), <<"out">>, {}, {})

(* A string instruction and an x87 one hand the decoded operands to the    *)
(* interpreter's own helper.                                               *)
Delegated(f) ==
    LET seg == Segment(LastOf(f.pre, SegmentPrefixes), "ds")
        rep == FirstOf(f.pre, RepPrefixes)
        d == StringOp([f EXCEPT !.pre = Among(@, SegmentPrefixes) \o (IF rep = 0 THEN <<>> ELSE <<rep>>)])
    IN  CASE f.op = \hD7 -> Straight(Access("read", seg, "bx+al", 1), <<"mov", "al,table">>, {"ax"}, {})
          [] f.op = \h9B -> Straight(<<>>, <<"mov", "nothing">>, {}, {})
          [] f.op \in \hD8..\hDF ->
                Straight(<<>>, <<"x87", f.op, f.reg, IF f.mod = 3 THEN "st" ELSE OperandSegment(f)>>, {}, {})
          [] f.op \in Strings -> Lines(d.does, d.computes, d.sets, d.flags, d.leaves)

Terminator(f) ==
    LET T(does, computes, sets, flags) == Lines(does, computes, sets, flags, GroupKind(f))
    IN  CASE f.op \in \hE0..\hE3 -> T(<<>>, <<"loop", f.op>>, IF f.op = \hE3 THEN {} ELSE {"cx"}, {})
          [] f.op \in \h70..\h7F -> T(<<>>, <<"condition", f.op % 16>>, {}, {})
          [] f.op \in {\hE9, \hEB} -> T(<<>>, <<"jmp">>, {}, {}) [] f.op = \hEA -> T(<<>>, <<"jmpfar">>, {}, {})
          [] f.op \in {\hC2, \hC3} -> T(PopWord, <<"ret">>, {"sp"}, {})
          [] f.op \in {\hCA, \hCB} -> T(PopWord \o PopWord, <<"retf">>, {"sp"}, {})
          [] f.op = \hCF -> T(Times(3, PopWord), <<"iret">>, {"sp"}, Every)
          [] f.op = \hFF /\ f.reg = 5 ->
                T(Access("read", OperandSegment(f), "ea", 2) \o Access("read", OperandSegment(f), "ea+2", 2), <<"jmpind", 5>>, {}, {})
          [] f.op = \hFF -> T(OperandRead(f, 16), <<"jmpind", 4>>, {}, {})

Emitted(f) ==
    CASE (f.op < \h40 /\ f.op % 8 < 6) \/ f.op \in \h80..\h83 -> AluEmitted(f)
      [] f.op \in {\h8C, \h8E, \hC6, \hC7} \cup \h88..\h8B \cup \hA0..\hA3 \cup \hB0..\hBF -> MovEmitted(f)
      [] f.op \in {\h84, \h85, \hA8, \hA9} \cup \h40..\h4F \/ (f.op \in {\hFE, \hFF} /\ f.reg < 2) -> TestOrCount(f)
      [] f.op \in \h50..\h5F \cup {\h06, \h07, \h0E, \h16, \h17, \h1E, \h1F, \h68, \h6A, \h8F}
         \/ (f.op = \hFF /\ f.reg = 6) -> PushPop(f)
      [] f.op \in {\h86, \h87, \h8D, \hC4, \hC5} \cup \h90..\h97 -> ExchangeOrLoad(f)
      [] f.op \in {\hC0, \hC1} \cup \hD0..\hD3 -> ShiftEmitted(f)
      [] f.op \in {\h60, \h61, \h69, \h6B, \hC8, \hC9} -> Frames(f)
      [] f.op \in {\h27, \h98, \h99, \hF5} \cup \h9C..\h9F \cup \hF8..\hFD -> MiscEmitted(f)
      [] f.op \in PortIo -> PortEmitted(f)
      [] f.op \in {\hF6, \hF7} -> Group3Emitted(f)
      [] f.op \in Strings \cup {\h9B, \hD7} \cup \hD8..\hDF -> Delegated(f)
      [] GroupKind(f) \in {"jcc", "jmp", "jmpfar", "jmpind", "ret", "retf", "iret"} -> Terminator(f)
      [] OTHER -> Fallback

-----------------------------------------------------------------------------
(* What the four are compared by, for one opcode after one prefix.         *)

Immediates(op) == IF op \in {\hC0, \hC1, \hC8} THEN {0, 1, 9} ELSE {1}
Forms(pre, op) ==
    IF op \in HasModrm
    THEN [op : {op}, pre : {pre}, mod : 0..3, reg : 0..7, rm : {0, 2, 4, 5, 6}, imm : Immediates(op)]
    ELSE [op : {op}, pre : {pre}, mod : {0}, reg : {0}, rm : {0}, imm : Immediates(op)]

Places(d) == {<<d.does[i].seg, IF d.does[i].at = "ea+2" THEN "ea" ELSE d.does[i].at>> : i \in DOMAIN d.does}
Amount(d, ways, place) ==
    LET hits == SelectSeq(d.does, LAMBDA a : a.way \in ways /\ <<a.seg, IF a.at = "ea+2" THEN "ea" ELSE a.at>> = place)
        Sum[n \in 0..Len(hits)] == IF n = 0 THEN 0 ELSE Sum[n - 1] + hits[n].bytes
    IN  Sum[Len(hits)]
Observed(d) ==
    {Touch(IF Amount(d, {"read"}, p) > 0 THEN IF Amount(d, {"write"}, p) > 0 THEN "rw" ELSE "r" ELSE "w", p[1], p[2],
           IF Amount(d, {"read"}, p) > 0 THEN Amount(d, {"read"}, p) ELSE Amount(d, {"write"}, p)) :
        p \in {q \in Places(d) : q[1] # "port"}}

(* With the instruction as it is executed (e), decoded (d), declared (t)   *)
(* and emitted (l):                                                        *)

(* What is executed is decoded with the same length and leaves the same    *)
(* way.                                                                    *)
DecodedAlike(f, e, d) ==
    e # Refused /\ d.kind # "unsupported" =>
        d.length = Len(f.pre) + 1 + e.takes /\ d.kind = e.leaves

(* Beside these, what is declared is what happens: indirect calls, push    *)
(* and pop of an operand keep silent about the stack, and logic operations *)
(* leave the adjust flag they declare.                                     *)
Silent(f) == f.op = \h8F \/ (f.op = \hFF /\ f.reg \in {2, 3, 6})
DeclaredAlike(f, e, d, t) ==
    Refused \notin {e, t} /\ ~Silent(f) /\ d.kind \notin {"unsupported", "int"} =>
        /\ t.mem = Observed(e)
        /\ t.flags \ {"af"} \subseteq e.flags
        /\ "af" \in t.flags \ e.flags => e.computes[1] \in {"alu", "test"}
        /\ f.op \in Strings \cup {\hF6, \hF7, \hD7} \/ "sp" \in t.sets =>
                e.sets \ {"reg", "rm", "r", "sreg"} \subseteq t.sets

(* What is emitted does what the interpreter does, in the same order.      *)
EmittedAlike(f, e, d, l) ==
    e # Refused /\ l # Fallback /\ d.kind # "unsupported" =>
        l = Lines(e.does, e.computes, e.sets, e.flags, e.leaves)

LiftedAgree(f, e, d) ==
    DecodedAlike(f, e, d) /\ DeclaredAlike(f, e, d, EffectsOf(f)) /\ EmittedAlike(f, e, d, Emitted(f))
=============================================================================
