------------------------------ MODULE FlatLift ------------------------------
(***************************************************************************)
(* The 32-bit instruction for the lifter: decoded (src/dos_re/lift/        *)
(* decode32.py) and emitted (lift/emit32.py), and what must agree with its *)
(* execution (see FlatInstructions).                                       *)
(***************************************************************************)
EXTENDS FlatInstructions

-----------------------------------------------------------------------------
(* The decoder's tables and its walk over the bytes.                       *)

OneByteModrm ==
    {op \in 0..\h3F : op % 8 < 4} \cup {\h69, \h6B, \h80, \h81, \hC0, \hC1} \cup \h83..\h8F \cup \hC4..\hC7
    \cup \hD0..\hD3 \cup \hD8..\hDF \cup {\hF6, \hF7, \hFE, \hFF}
TwoByteModrm ==
    {\h0F01, \h0F03, \h0F20, \h0F22, \h0FA3, \h0FAB, \h0FB3, \h0FBB, \h0FA4, \h0FA5, \h0FAC, \h0FAD, \h0FAF}
    \cup {\h0FBA, \h0FBC, \h0FBD, \h0FB6, \h0FB7, \h0FBE, \h0FBF} \cup \h0F90..\h0F9F
TwoByteKnown == TwoByteModrm \cup {\h0F31, \h0FA2, \h0FA0, \h0FA1, \h0FA8, \h0FA9} \cup \h0F80..\h0F8F
OneByteUnknown == {\h0F, \h27, \h2F, \h37, \h3F, \h82, \h9A, \hCA, \hCB, \hCE, \hD4, \hD5, \hD6, \hD7, \hF1}
                  \cup \h62..\h67 \cup \h6C..\h6F \cup {\h26, \h2E, \h36, \h3E, \hF0, \hF2, \hF3}
FlatKnown(op) == IF op < 256 THEN op \notin OneByteUnknown ELSE op \in TwoByteKnown
FlatImm(f) ==
    CASE f.op \in {8 * n + 4 : n \in 0..7} \cup \h70..\h7F \cup \hB0..\hB7 \cup \hE0..\hE7
                  \cup {\h6A, \h6B, \h80, \h83, \hA8, \hC0, \hC1, \hC6, \hCD, \hEB, \h0FA4, \h0FAC, \h0FBA} -> 1
      [] f.op = \hC2 -> 2 [] f.op = \hC8 -> 3
      [] f.op \in {8 * n + 5 : n \in 0..7} \cup \hB8..\hBF \cup \h0F80..\h0F8F
                  \cup {\h68, \h69, \h81, \hA9, \hC7, \hE8, \hE9} -> OpSize(f)
      [] f.op \in \hA0..\hA3 -> AdSize(f)
      [] f.op = \hEA -> OpSize(f) + 2
      [] f.op \in {\hF6, \hF7} -> IF f.reg > 1 THEN 0 ELSE IF f.op = \hF6 THEN 1 ELSE OpSize(f)
      [] OTHER -> 0
FlatKind(f) ==
    CASE f.op = \hFF -> <<"seq", "seq", "callind", "callind", "jmpind", "jmpind", "seq", "seq">>[f.reg + 1]
      [] f.op \in \h70..\h7F \cup \hE0..\hE3 \cup \h0F80..\h0F8F -> "jcc"
      [] f.op = \hE8 -> "call" [] f.op \in {\hE9, \hEB} -> "jmp" [] f.op = \hEA -> "jmpfar"
      [] f.op \in {\hC2, \hC3} -> "ret" [] f.op = \hCF -> "iret" [] f.op \in {\hCC, \hCD} -> "int"
      [] f.op = \hF4 -> "hlt"
      [] OTHER -> "seq"

(* Faulty, to break properties: a scaled form never has a bare             *)
(* displacement.                                                           *)
ModrmExtraBased(f) ==
    CASE f.mod = 3 -> 0
      [] AdSize(f) = 2 -> IF f.mod = 0 THEN (IF f.rm = 6 THEN 2 ELSE 0) ELSE f.mod
      [] OTHER -> (CASE f.mod = 0 -> IF f.rm = 5 THEN 4 ELSE 0 [] f.mod = 1 -> 1 [] f.mod = 2 -> 4)
                  + (IF f.rm = 4 THEN 1 ELSE 0)

(* The bytes of displacement and scale behind a modrm byte.                *)
ModrmExtra(f) ==
    CASE f.mod = 3 -> 0
      [] AdSize(f) = 2 -> IF f.mod = 0 THEN (IF f.rm = 6 THEN 2 ELSE 0) ELSE f.mod
      [] OTHER -> LET scaled == f.rm = 4
                      disp == CASE f.mod = 0 -> IF (scaled /\ f.base = 5) \/ f.rm = 5 THEN 4 ELSE 0
                                [] f.mod = 1 -> 1 [] f.mod = 2 -> 4
                  IN  disp + (IF scaled THEN 1 ELSE 0)
FlatModrm(op) == op \in OneByteModrm \cup TwoByteModrm
FlatDecoded(f) ==
    IF (\E i \in DOMAIN f.pre : f.pre[i] \notin FlatPrefixes) \/ ~FlatKnown(f.op) THEN Refused
    ELSE [kind |-> FlatKind(f), takes |-> (IF FlatModrm(f.op) THEN 1 + ModrmExtra(f) ELSE 0) + FlatImm(f)]

-----------------------------------------------------------------------------
(* The emitted lines.                                                      *)

(* The offset expression: what it adds up, and its default segment.        *)
OffsetExpr(f) ==
    LET bare == IF f.rm = 4 THEN f.base = 5 /\ f.mod = 0 ELSE f.rm = 5 /\ f.mod = 0
        base == IF bare THEN NoReg ELSE IF f.rm = 4 THEN f.base ELSE f.rm
        index == IF f.rm # 4 \/ f.index = 4 THEN NoReg ELSE f.index
    IN  [at |-> Ea(base, index, ModrmExtra(f) - (IF f.rm = 4 THEN 1 ELSE 0)),
         seg |-> FlatSegment(f, IF ~bare /\ (base = 5 \/ (f.rm = 4 /\ base = 4)) THEN "ss" ELSE "ds")]
Native(f) == f.mod = 3 \/ AdSize(f) = 4         \* else no form of its own
OpRead(f, bytes) == IF f.mod = 3 THEN <<>> ELSE Access("read", f.ea.seg, f.ea.at, bytes)
OpWrite(f, bytes) == IF f.mod = 3 THEN <<>> ELSE Access("write", f.ea.seg, f.ea.at, bytes)
OpSet(f) == IF f.mod = 3 THEN {"rm"} ELSE {}
Line(does, computes, sets, flags) ==
    [does |-> does, computes |-> computes, sets |-> sets, flags |-> flags, leaves |-> "seq"]
Fallback32 == [fallback |-> TRUE]         \* the interpreter is called for it
MovLine(does, what, sets) == Line(does, <<"mov", what>>, sets, {})
Wide32(f, bytes) == IF f.op \in bytes THEN 1 ELSE OpSize(f)

(* The interpreter's helper works at the place emitted for it.             *)
Placed(f, does) ==
    [i \in DOMAIN does |-> [does[i] EXCEPT !.seg = f.ea.seg,
                                           !.at = IF @ = <<"bit">> THEN @ ELSE f.ea.at]]

AluLine(group, size, order, reads, writes, set) ==
    Line(reads \o (IF group = 7 THEN <<>> ELSE writes), <<"alu", group, size, order>>,
         IF group = 7 THEN {} ELSE set, IF group \in {0, 2, 3, 5, 7} THEN Arith ELSE FlatLogic)
EmitAlu(f) ==
    LET size == IF f.op % 2 = 0 THEN 1 ELSE OpSize(f)
    IN  CASE f.op < \h40 /\ f.op % 8 < 2 -> AluLine(f.op \div 8, size, "rm,reg", OpRead(f, size), OpWrite(f, size), OpSet(f))
          [] f.op < \h40 /\ f.op % 8 \in {2, 3} -> AluLine(f.op \div 8, size, "reg,rm", OpRead(f, size), <<>>, {"reg"})
          [] f.op < \h40 -> AluLine(f.op \div 8, size, "acc,imm", <<>>, <<>>, {"eax"})
          [] OTHER -> AluLine(f.reg, size, IF f.op = \h83 THEN "rm,imm8sx" ELSE "rm,imm", OpRead(f, size), OpWrite(f, size), OpSet(f))
EmitMov(f) ==
    LET size == Wide32(f, {\h88, \h8A, \hA0, \hA2, \hC6})
        moffs(way) == Access(way, FlatSegment(f, "ds"), <<"imm">>, size)
    IN  CASE f.op \in {\h88, \h89} -> MovLine(OpWrite(f, size), "rm,reg", OpSet(f))
          [] f.op \in {\h8A, \h8B} -> MovLine(OpRead(f, size), "reg,rm", {"reg"})
          [] f.op \in \hA0..\hA3 /\ AdSize(f) # 4 -> Fallback32
          [] f.op \in {\hA0, \hA1} -> MovLine(moffs("read"), "eax,moffs", {"eax"})
          [] f.op \in {\hA2, \hA3} -> MovLine(moffs("write"), "moffs,eax", {})
          [] f.op \in \hB0..\hB7 -> MovLine(<<>>, "r,imm8", {"r"})
          [] f.op \in \hB8..\hBF -> MovLine(<<>>, "r,imm", {"r"})
          [] f.op \in {\hC6, \hC7} -> MovLine(OpWrite(f, size), "rm,imm", OpSet(f))
EmitTest(f) ==
    LET size == Wide32(f, {\h84, \hA8, \h86})
    IN  CASE f.op \in {\h84, \h85} -> Line(OpRead(f, size), <<"test", size, "rm,reg">>, {}, FlatLogic)
          [] f.op \in {\hA8, \hA9} -> Line(<<>>, <<"test", size, "acc,imm">>, {}, FlatLogic)
          [] f.op \in {\h86, \h87} -> MovLine(OpRead(f, size) \o OpWrite(f, size), "reg,rm,reg", {"reg"} \cup OpSet(f))
          [] f.op \in \h91..\h97 -> MovLine(<<>>, "eax,r,eax", {"eax", "r"})
          [] f.op = \h90 -> MovLine(<<>>, "nothing", {})
          [] f.op = \h8D -> IF f.mod = 3 \/ AdSize(f) # 4 THEN Refused ELSE MovLine(<<>>, "reg,ea", {"reg"})
EmitCount(f) ==
    LET size == Wide32(f, {\hFE})
        down == IF f.op < \h50 THEN f.op >= \h48 ELSE f.reg = 1
        name == <<IF down THEN "dec" ELSE "inc", size>>
    IN  IF f.op < \h50 THEN Line(<<>>, name, {"r"}, Arith \ {"cf"})
        ELSE Line(OpRead(f, size) \o OpWrite(f, size), name, OpSet(f), Arith \ {"cf"})
PushLine(f, what) == Line(PushV(OpSize(f)), <<"push", what>>, {"esp"}, {})
PopLine(f, what) == Line(PopV(OpSize(f)), <<"pop", what>>, {"esp", what}, {})
EmitStack(f) ==
    CASE f.op \in \h50..\h57 -> PushLine(f, "r") [] f.op \in \h58..\h5F -> PopLine(f, "r")
      [] f.op = \h68 -> PushLine(f, "imm") [] f.op = \h6A -> PushLine(f, "imm8sx")
      [] f.op = \h8F -> Line(PopV(OpSize(f)) \o OpWrite(f, OpSize(f)), <<"pop", "rm">>, {"esp"} \cup OpSet(f), {})
      [] f.op = \hFF -> Line(OpRead(f, OpSize(f)) \o PushV(OpSize(f)), <<"push", "rm">>, {"esp"}, {})
      [] f.op = \hC9 -> Line(PopV(OpSize(f)), <<"leave">>, {"esp", "ebp"}, {})
      [] f.op = \h60 -> Line(Times(8, PushV(OpSize(f))), <<"pusha">>, {"esp"}, {})
      [] f.op = \h61 -> Line(Times(8, PopV(OpSize(f))), <<"popa">>, AllRegs, {})
EmitFlags(f) ==
    CASE f.op \in {\hF5, \hF8, \hF9} -> Line(<<>>, <<"flag", f.op>>, {}, {"cf"})
      [] f.op \in {\hFA, \hFB} -> Line(<<>>, <<"flag", f.op>>, {}, {"intf"})
      [] f.op \in {\hFC, \hFD} -> Line(<<>>, <<"flag", f.op>>, {}, {"df"})
      [] f.op = \h9B -> MovLine(<<>>, "nothing", {})
      [] f.op = \h9E -> Line(<<>>, <<"sahf">>, {}, Arith \ {"of"})
      [] f.op = \h9F -> Line(<<>>, <<"lahf">>, {"eax"}, {})
EmitSegment(f) ==
    CASE f.op \in {\h06, \h0E, \h16, \h1E, \h0FA0, \h0FA8} -> PushLine(f, "sreg")
      [] f.op \in {\h07, \h17, \h1F, \h0FA1, \h0FA9} -> PopLine(f, "sreg")
      [] f.op \in {\h8C, \h8E} /\ f.reg > 5 -> Fallback32
      [] f.op = \h8C -> MovLine(OpWrite(f, 2), "rm,sreg", OpSet(f))
      [] f.op = \h8E -> MovLine(OpRead(f, 2), "sreg,rm", {"sreg"})
      [] f.op = \hC8 -> IF f.imm % 32 # 0 THEN Fallback32 ELSE Line(PushV(OpSize(f)), <<"enter">>, {"esp", "ebp"}, {})
      [] f.op \in {\hC4, \hC5} ->
            IF f.mod = 3 THEN Fallback32
            ELSE MovLine(OpRead(f, OpSize(f)) \o Access("read", f.ea.seg, <<"behind">>, 2), "reg,far", {"reg", "sreg"})
EmitPort(f) ==
    LET in == f.op \in {\hE4, \hE5, \hEC, \hED}
        size == Wide32(f, {\hE4, \hEC, \hE6, \hEE})
    IN  Line(Access(IF in THEN "in" ELSE "out", "port", IF f.op \in \hE4..\hE7 THEN <<"imm">> ELSE <<"dx">>, size),
             IF in THEN <<"in">> ELSE <<"out">>, IF in THEN {"eax"} ELSE {}, {})
(* A product's operand is spelled twice, and so read twice, to take its    *)
(* sign.                                                                   *)
EmitProduct(f) ==
    LET twice == OpRead(f, OpSize(f)) \o OpRead(f, OpSize(f))
    IN  CASE f.op \in {\hF6, \hF7} -> LET g == Group3It(f) IN Line(Placed(f, g.does), g.computes, g.sets, g.flags)
          [] f.op = \h0FAF -> Line(twice, <<"imul", "reg,rm">>, {"reg"}, {"cf", "of"})
          [] f.op \in {\h69, \h6B} ->
                Line(twice, <<"imul", IF f.op = \h69 THEN "reg,rm,imm" ELSE "reg,rm,imm8sx">>, {"reg"}, {"cf", "of"})
EmitShift(f) ==
    LET by == CASE f.op \in {\hC0, \hC1} -> "imm" [] f.op \in {\hD0, \hD1} -> "1" [] OTHER -> "cl"
        s == ShiftIt(f, by, CASE by = "imm" -> f.imm % 32 [] by = "1" -> 1 [] by = "cl" -> 0)
    IN  Line(Placed(f, s.does), s.computes, OpSet(f), s.flags)
EmitWide(f) ==
    CASE f.op = \h98 -> Line(<<>>, <<"widen", OpSize(f)>>, {"eax"}, {})
      [] f.op = \h99 -> Line(<<>>, <<"sign", OpSize(f)>>, {"edx"}, {})
      [] f.op = \h9C -> PushLine(f, "flags")
      [] f.op = \h9D -> Line(PopV(OpSize(f)), <<"popf">>, {"esp"}, Every)
      [] f.op \in FlatStrings ->          \* the first repeat prefix, not the last
            LET s == FlatString(f, FirstOf(f.pre, RepPrefixes)) IN Line(s.does, s.computes, s.sets, s.flags)
      [] f.op \in \hD8..\hDF ->
            Line(<<>>, IF f.mod = 3 THEN <<"x87", f.op, f.reg, "st", <<f.rm>>>>
                       ELSE <<"x87", f.op, f.reg, f.ea.seg, f.ea.at>>, {}, {})
EmitTwoByte(f) ==
    LET bit(kind, by) == LET b == BitIt(f, kind, by) IN Line(Placed(f, b.does), b.computes, b.sets, {"cf"})
    IN  CASE f.op \in {\h0FB6, \h0FB7, \h0FBE, \h0FBF} ->
                LET size == IF f.op \in {\h0FB6, \h0FBE} THEN 1 ELSE 2 IN
                Line(OpRead(f, size), <<IF f.op \in {\h0FBE, \h0FBF} THEN "movsx" ELSE "movzx", size, OpSize(f)>>, {"reg"}, {})
          [] f.op \in \h0F90..\h0F9F -> Line(OpWrite(f, 1), <<"setcc", f.op % 16>>, OpSet(f), {})
          [] f.op = \h0FA3 -> bit("bt", "reg") [] f.op = \h0FAB -> bit("bts", "reg")
          [] f.op = \h0FB3 -> bit("btr", "reg") [] f.op = \h0FBB -> bit("btc", "reg")
          [] f.op = \h0FBA -> IF f.reg < 4 THEN Fallback32 ELSE bit(BitNames[f.reg - 3], "imm")
          [] f.op \in {\h0FA4, \h0FA5, \h0FAC, \h0FAD} ->
                LET s == DoubleShiftIt(f, f.op \in {\h0FA4, \h0FA5}, IF f.op \in {\h0FA4, \h0FAC} THEN "imm" ELSE "cl", f.imm % 32)
                IN  Line(Placed(f, s.does), s.computes, OpSet(f), s.flags)
          [] f.op = \h0F03 -> Line(OpRead(f, 2), <<"lsl", OpSize(f)>>, {"reg"}, {"zf"})
          [] f.op = \h0F20 -> MovLine(<<>>, "rm,cr", {"rm"})
          [] f.op = \h0F22 -> MovLine(<<>>, "cr,rm", {"cr"})
          [] f.op \in {\h0FBC, \h0FBD} -> Line(OpRead(f, OpSize(f)), <<"scan", f.op>>, {}, {"zf"})
          [] OTHER -> Fallback32

(* The lines that end a block, and the calls and interrupts inside one.    *)
(* They work on four bytes whatever stands before them.                    *)
Leaving(f, does, computes, sets) ==
    [does |-> does, computes |-> computes, sets |-> sets, flags |-> {}, leaves |-> FlatKind(f)]
LeaveLines(f) ==
    CASE f.op \in \hE0..\hE3 -> Leaving(f, <<>>, <<"loop", f.op, AdSize(f)>>, IF f.op = \hE3 THEN {} ELSE {"ecx"})
      [] FlatKind(f) = "jcc" -> Leaving(f, <<>>, <<"condition", f.op % 16>>, {})
      [] f.op \in {\hE9, \hEB} -> Leaving(f, <<>>, <<"jmp">>, {})
      [] f.op \in {\hC2, \hC3} -> Leaving(f, PopV(4), <<"ret">>, {"esp"})
      [] f.op = \hCF -> [Leaving(f, Times(3, PopV(4)), <<"iret">>, {"esp"}) EXCEPT !.flags = Every]
      [] f.op = \hFF -> IF f.reg = 5 \/ ~Native(f) THEN Refused ELSE Leaving(f, OpRead(f, 4), <<"jmpind">>, {})
      [] OTHER -> Refused
CallLines(f) ==
    CASE f.op = \hE8 -> Leaving(f, PushV(4), <<"call">>, {"esp"})
      [] f.op = \hFF -> IF Native(f) THEN Leaving(f, OpRead(f, 4) \o PushV(4), <<"callind">>, {"esp"}) ELSE Refused
      [] OTHER -> Leaving(f, <<>>, <<"int">>, {})

EmittedSeq(f) ==
    CASE FlatModrm(f.op) /\ f.op \notin {\h8D, \h0F20, \h0F22} /\ ~Native(f) -> Fallback32
      [] (f.op < \h40 /\ f.op % 8 < 6) \/ f.op \in {\h80, \h81, \h83} -> EmitAlu(f)
      [] f.op \in \h88..\h8B \cup \hA0..\hA3 \cup \hB0..\hBF \cup {\hC6, \hC7} -> EmitMov(f)
      [] f.op \in \h84..\h87 \cup {\h8D, \hA8, \hA9} \cup \h90..\h97 -> EmitTest(f)
      [] f.op \in \h40..\h4F \/ (f.op \in {\hFE, \hFF} /\ f.reg < 2) -> EmitCount(f)
      [] f.op \in \h50..\h5F \cup {\h60, \h61, \h68, \h6A, \h8F, \hC9} \/ (f.op = \hFF /\ f.reg = 6) -> EmitStack(f)
      [] f.op \in {\h9B, \h9E, \h9F, \hF5} \cup \hF8..\hFD -> EmitFlags(f)
      [] f.op \in FlatSegmentOps \cup {\h8C, \h8E, \hC4, \hC5, \hC8, \h0FA0, \h0FA1, \h0FA8, \h0FA9} -> EmitSegment(f)
      [] f.op \in \hE4..\hE7 \cup \hEC..\hEF -> EmitPort(f)
      [] f.op \in {\hF6, \hF7, \h69, \h6B, \h0FAF} -> EmitProduct(f)
      [] f.op \in {\hC0, \hC1} \cup \hD0..\hD3 -> EmitShift(f)
      [] f.op \in {\h98, \h99, \h9C, \h9D} \cup FlatStrings \cup \hD8..\hDF -> EmitWide(f)
      [] f.op > \h0F00 -> EmitTwoByte(f)
      [] OTHER -> Fallback32
EmittedFrom(f) ==
    CASE FlatKind(f) = "seq" -> EmittedSeq(f)
      [] FlatKind(f) \in {"call", "callind", "int"} -> CallLines(f)
      [] OTHER -> LeaveLines(f)
FlatEmitted(f) == EmittedFrom(IF f.mod # 3 /\ Native(f) THEN [f EXCEPT !.ea = OffsetExpr(f)] ELSE f)

-----------------------------------------------------------------------------
(* What the three are compared by, for one opcode after one prefix.        *)

FlatForms(pre, op) ==
    LET imms == IF op \in {\hC0, \hC1, \hC8, \h0FA4, \h0FAC} THEN {0, 1, 8} ELSE {1}
        some(mod, reg, rm, base, index) ==
            [op : {op}, pre : {pre}, mod : mod, reg : reg, rm : rm, base : base, index : index, imm : imms,
             ea : {<<>>}]
    IN  IF FlatModrm(op)
        THEN some(0..3, 0..7, {4}, {0, 4, 5}, {1, 4}) \cup some(0..3, 0..7, {0, 5, 6}, {0}, {4})
        ELSE some({0}, {0}, {0}, {0}, {4})
Leaving16(f) == FlatKind(f) # "seq" /\ Behind66(f)
(* FEh calls, jumps and pushes too, but is decoded to go straight on.      *)
ByteGroup(f) == f.op = \hFE /\ f.reg \in {2, 4}

(* With the instruction as it is executed (e), decoded (d) and emitted     *)
(* (l):                                                                    *)

(* What is executed is decoded with the same length and leaves the same    *)
(* way; a control register's move is not, with an operand in memory.       *)
FlatDecodedAlike(f, e, d) ==
    e # Refused /\ d # Refused /\ ~(f.op \in {\h0F20, \h0F22} /\ f.mod # 3) =>
        /\ d.takes = e.takes
        /\ ByteGroup(f) \/ d.kind = e.leaves
(* What is emitted does what the interpreter does, in the same order, but  *)
(* for a product's second read, an indirect call's read before its push,   *)
(* and the width of what leaves the function.                              *)
Reordered(f, does) ==
    CASE f.op \in {\h69, \h6B, \h0FAF} -> SubSeq(does, 1, Len(does) \div 2)
      [] FlatKind(f) = "callind" -> <<does[Len(does)]>> \o SubSeq(does, 1, Len(does) - 1)
      [] OTHER -> does
FlatEmittedAlike(f, e, d, l) ==
    Refused \notin {e, d} /\ l \notin {Refused, Fallback32} /\ ~Leaving16(f) =>
        [l EXCEPT !.does = Reordered(f, @)]
        = [does |-> e.does, computes |-> e.computes, sets |-> e.sets, flags |-> e.flags, leaves |-> e.leaves]
(* The interpreter is called only for what goes straight on.               *)
FallbackReturns(f, e, d, l) == l = Fallback32 /\ Refused \notin {e, d} => ByteGroup(f) \/ e.leaves = "seq"

FlatAlike(f, e, d, l) == FlatDecodedAlike(f, e, d) /\ FlatEmittedAlike(f, e, d, l) /\ FallbackReturns(f, e, d, l)
FlatAgree(f) == FlatAlike(f, FlatExecuted(f), FlatDecoded(f), FlatEmitted(f))
=============================================================================
