------------------------------ MODULE X87Stack ------------------------------
(***************************************************************************)
(* The interpreter's x87 (src/dos_re/cpu.py), which the emitted code calls *)
(* too: a stack of at most eight values, the comparison bits of its status *)
(* word and the rounding bits of its control word.  ST(0) is the last of   *)
(* the stack.                                                              *)
(*                                                                         *)
(* A value is a fraction n / d, or NaN when d is zero; infinities and the  *)
(* precision of doubles are left out.  An instruction returns the machine  *)
(* after it and what it stores; it may be Refused (UnsupportedInstruction) *)
(* or end the run with an exception of Python's own (Crashed).             *)
(***************************************************************************)
EXTENDS Integers, Sequences

CONSTANTS
    Math(_, _),     \* the value of sqrt, sin, cos (named by their rm field)
    Constant(_)     \* the constants FLDPI and its like load

NaN == [n |-> 0, d |-> 0]
Q(n, d) == [n |-> n, d |-> d]
Whole(n) == Q(n, 1)
IsNaN(a) == a.d = 0

Fin(a, b, v) == IF IsNaN(a) \/ IsNaN(b) THEN NaN ELSE v
Add(a, b) == Fin(a, b, Q((a.n * b.d) + (b.n * a.d), a.d * b.d))
Minus(a, b) == Fin(a, b, Q((a.n * b.d) - (b.n * a.d), a.d * b.d))
Times(a, b) == Fin(a, b, Q(a.n * b.n, a.d * b.d))
Less(a, b) == a.n * b.d < b.n * a.d
Equal(a, b) == a.n * b.d = b.n * a.d
Same(a, b) == IF IsNaN(a) \/ IsNaN(b) THEN IsNaN(a) /\ IsNaN(b) ELSE Equal(a, b)
Over(a, b) == Fin(a, b, IF b.n > 0 THEN Q(a.n * b.d, a.d * b.n) ELSE Q(-a.n * b.d, a.d * (-b.n)))

Clear == [c0 |-> FALSE, c1 |-> FALSE, c2 |-> FALSE, c3 |-> FALSE]
Refused == [result |-> "refused"]
Crashed == [result |-> "crashed"]
Done(m, out) == [result |-> "done", m |-> m, out |-> out]
Finished(m) == Done(m, <<>>)

-----------------------------------------------------------------------------
(* The stack, comparison, classification and rounding.                     *)

Has(m, i) == i < Len(m.st)
St(m, i) == m.st[Len(m.st) - i]
StSet(m, i, v) == [m EXCEPT !.st[Len(m.st) - i] = v]
Popped(m) == [m EXCEPT !.st = SubSeq(@, 1, Len(@) - 1)]

FPush(m, v) == IF Len(m.st) >= 8 THEN Refused ELSE Finished([m EXCEPT !.st = Append(@, v)])
FCompare(m, a, b) ==
    LET unordered == IsNaN(a) \/ IsNaN(b)
        equal == ~unordered /\ Equal(a, b)
    IN  [m EXCEPT !.sw = [c0 |-> unordered \/ (~equal /\ Less(a, b)), c1 |-> FALSE,
                          c2 |-> unordered, c3 |-> unordered \/ equal]]
FXam(m) ==
    [m EXCEPT !.sw =
        IF m.st = <<>> THEN [Clear EXCEPT !.c3 = TRUE, !.c0 = TRUE]
        ELSE LET v == St(m, 0) IN
             [c0 |-> IsNaN(v), c1 |-> v.n < 0, c2 |-> ~IsNaN(v) /\ v.n # 0, c3 |-> ~IsNaN(v) /\ v.n = 0]]

Floor(v) == v.n \div v.d
Ceil(v) == -((-v.n) \div v.d)
FRound(rc, v) ==
    LET f == Floor(v)
        twice == 2 * (v.n - (f * v.d))      \* twice the fractional part, times d
    IN  CASE rc = 0 -> IF twice > v.d \/ (twice = v.d /\ f % 2 = 1) THEN f + 1 ELSE f
          [] rc = 1 -> f
          [] rc = 2 -> Ceil(v)
          [] rc = 3 -> IF v.n < 0 THEN Ceil(v) ELSE f
(* A NaN cannot be rounded: Python's floor raises.                         *)
Rounds(m, v, then) == IF IsNaN(v) THEN Crashed ELSE then

-----------------------------------------------------------------------------
(* Register forms.                                                         *)

(* Two operands in the order the form computes them; a division by zero is *)
(* Python's.                                                               *)
Computes(m, at, way, a, b) ==
    CASE way = "add" -> Finished(StSet(m, at, Add(a, b)))
      [] way = "mul" -> Finished(StSet(m, at, Times(a, b)))
      [] way = "sub" -> Finished(StSet(m, at, Minus(a, b)))
      [] way = "div" -> IF ~IsNaN(b) /\ b.n = 0 THEN Crashed ELSE Finished(StSet(m, at, Over(a, b)))
ThenPops(r) == IF r.result = "done" THEN Finished(Popped(r.m)) ELSE r
Way(reg) == CASE reg = 0 -> "add" [] reg = 1 -> "mul" [] reg \in {4, 5} -> "sub" [] reg \in {6, 7} -> "div"

ArithTop(m, reg, a, b) ==        \* D8: ST(0) op= ST(i), and every form in memory
    CASE reg \in {0, 1, 4, 6} -> Computes(m, 0, Way(reg), a, b)
      [] reg \in {5, 7} -> Computes(m, 0, Way(reg), b, a)
      [] reg = 2 -> Finished(FCompare(m, a, b))
      [] reg = 3 -> Finished(Popped(FCompare(m, a, b)))
(* Faulty, to break properties: the reversed forms are taken for straight. *)
ArithDeepStraight(m, reg, rm) ==
    IF reg \in {2, 3} THEN Refused ELSE Computes(m, rm, Way(reg), St(m, rm), St(m, 0))
ArithDeep(m, reg, rm) ==         \* DC: ST(i) op= ST(0)
    CASE reg \in {0, 1, 5, 7} -> Computes(m, rm, Way(reg), St(m, rm), St(m, 0))
      [] reg \in {4, 6} -> Computes(m, rm, Way(reg), St(m, 0), St(m, rm))
      [] OTHER -> Refused
ArithPop(m, reg, rm) ==          \* DE: the same, and a pop
    CASE reg = 0 -> ThenPops(Computes(m, rm, "add", St(m, rm), St(m, 0)))
      [] reg = 1 -> ThenPops(Computes(m, rm, "mul", St(m, rm), St(m, 0)))
      [] reg = 4 -> ThenPops(Computes(m, rm, "sub", St(m, 0), St(m, rm)))
      [] reg = 5 -> ThenPops(Computes(m, rm, "sub", St(m, rm), St(m, 0)))
      [] reg = 6 -> ThenPops(Computes(m, rm, "div", St(m, 0), St(m, rm)))
      [] reg = 7 -> ThenPops(Computes(m, rm, "div", St(m, rm), St(m, 0)))
      [] OTHER -> Refused
Control(m, rm) ==                \* DB/4
    CASE rm \in {0, 1} -> Finished(m)
      [] rm = 2 -> Finished(m)      \* FCLEX keeps the comparison bits
      [] rm = 3 -> Finished([m EXCEPT !.st = <<>>, !.sw = Clear, !.rc = 0])
      [] OTHER -> Refused
Specials(m, reg, rm) ==          \* D9
    LET v == St(m, 0) IN
    CASE reg = 0 -> IF Has(m, rm) THEN FPush(m, St(m, rm)) ELSE Refused
      [] reg = 1 -> IF Has(m, rm) THEN Finished(StSet(StSet(m, 0, St(m, rm)), rm, v)) ELSE Refused
      [] reg = 4 /\ rm = 5 -> Finished(FXam(m))
      [] reg = 5 /\ rm # 7 -> FPush(m, Constant(rm))
      [] ~Has(m, 0) -> Refused
      [] reg = 4 /\ rm = 0 -> Finished(StSet(m, 0, [v EXCEPT !.n = -@]))
      [] reg = 4 /\ rm = 1 -> Finished(StSet(m, 0, [v EXCEPT !.n = IF @ < 0 THEN -@ ELSE @]))
      [] reg = 4 /\ rm = 4 -> Finished(FCompare(m, v, Whole(0)))
      [] reg = 7 /\ rm = 2 /\ v.n < 0 -> Crashed
      [] reg = 7 /\ rm \in {2, 6, 7} -> Finished(StSet(m, 0, Math(rm, v)))
      [] reg = 7 /\ rm = 4 -> Rounds(m, v, Finished(StSet(m, 0, Whole(FRound(m.rc, v)))))
      [] reg = 7 /\ rm = 5 ->
            IF ~Has(m, 1) THEN Refused
            ELSE Rounds(m, St(m, 1),
                        LET e == FRound(3, St(m, 1)) IN
                        Finished(StSet(m, 0, IF e >= 0 THEN Times(v, Whole(2^e)) ELSE Times(v, Q(1, 2^(-e))))))
      [] OTHER -> Refused

FpuRegOp(m, op, reg, rm) ==
    CASE op = \hD8 -> IF Has(m, 0) /\ Has(m, rm) THEN ArithTop(m, reg, St(m, 0), St(m, rm)) ELSE Refused
      [] op = \hD9 -> IF reg \in {0, 5} \/ (reg = 4 /\ rm = 5) \/ Has(m, 0) THEN Specials(m, reg, rm) ELSE Refused
      [] op = \hDB /\ reg = 4 -> Control(m, rm)
      [] op = \hDC -> IF Has(m, 0) /\ Has(m, rm) THEN ArithDeep(m, reg, rm) ELSE Refused
      [] op = \hDD /\ reg = 3 -> IF Has(m, rm) THEN Finished(Popped(StSet(m, rm, St(m, 0)))) ELSE Refused
      [] op = \hDE -> IF Has(m, 0) /\ Has(m, rm) THEN ArithPop(m, reg, rm) ELSE Refused
      [] op = \hDF /\ reg = 4 /\ rm = 0 -> Done(m, <<"ax", m.sw>>)
      [] OTHER -> Refused

-----------------------------------------------------------------------------
(* Memory forms: v is the value the memory operand holds, as its format    *)
(* reads it; what is stored names its format.                              *)

Stores(m, format, reg) ==
    IF ~Has(m, 0) THEN Refused
    ELSE Done(IF reg = 2 THEN m ELSE Popped(m), <<format, St(m, 0)>>)
StoresInt(m, format, reg) ==
    IF ~Has(m, 0) THEN Refused
    ELSE Rounds(m, St(m, 0),
                Done(IF reg = 2 THEN m ELSE Popped(m), <<format, Whole(FRound(m.rc, St(m, 0)))>>))
FpuMemOp(m, op, reg, v) ==
    CASE op = \hD9 /\ reg = 5 -> Finished([m EXCEPT !.rc = v.n % 4])
      [] op = \hD9 /\ reg = 7 -> Done(m, <<"control", m.rc>>)
      [] op = \hDD /\ reg = 7 -> Done(m, <<"status", m.sw>>)
      [] op \in {\hD9, \hDB, \hDD, \hDF} /\ reg = 0 -> FPush(m, v)
      [] op = \hDB /\ reg = 5 -> FPush(m, v)
      [] op = \hDB /\ reg = 7 -> Stores(m, "m80", 3)
      [] op = \hDD /\ reg \in {2, 3} -> Stores(m, "m64", reg)
      [] op = \hD9 /\ reg \in {2, 3} -> Stores(m, "m32", reg)
      [] op = \hDF /\ reg = 7 -> StoresInt(m, "m64int", 3)
      [] op = \hDB /\ reg \in {2, 3} -> StoresInt(m, "m32int", reg)
      [] op = \hDF /\ reg \in {2, 3} -> StoresInt(m, "m16int", reg)
      [] op \in {\hD8, \hDC, \hDA, \hDE} -> IF Has(m, 0) THEN ArithTop(m, reg, St(m, 0), v) ELSE Refused
      [] OTHER -> Refused

-----------------------------------------------------------------------------
(* Extended reals: a mantissa of 64 bits with its leading one, and a       *)
(* biased exponent.  Here of Bits bits; an exponent is left unbiased.      *)

Exponent(a, b) ==       \* frexp: a / b = m 2^e with 1/2 <= m < 1
    CHOOSE e \in -12..12 : LET s == Q(2^(e + 12), 2^12)
                           IN  ~Less(Q(a, b), Times(s, Q(1, 2))) /\ Less(Q(a, b), s)
DoubleToF80(v, bits) ==
    LET e == Exponent(v.n, v.d)
    IN  [mantissa |-> (v.n * 2^bits * 2^12) \div (v.d * 2^(e + 12)), exponent |-> e - 1]
F80ToDouble(f, bits) == Times(Q(f.mantissa, 2^(bits - 1)), Q(2^(f.exponent + 12), 2^12))

-----------------------------------------------------------------------------
(* What holds of every form.                                               *)

SameMachine(r, q) ==
    /\ r.result = q.result
    /\ r.result = "done" =>
          /\ Len(r.m.st) = Len(q.m.st) /\ r.m.sw = q.m.sw /\ r.m.rc = q.m.rc
          /\ \A i \in DOMAIN r.m.st : Same(r.m.st[i], q.m.st[i])

(* A popping form is its plain form and a pop.                             *)
PopsAlike(m, reg, rm) ==
    SameMachine(FpuRegOp(m, \hDE, reg, rm), ThenPops(FpuRegOp(m, \hDC, reg, rm)))
(* A form in memory is a load and the popping form on ST(1): FSUB and FSUBR *)
(* (4, 5), FDIV and FDIVR (6, 7) change names between the two.             *)
Renamed(reg) == CASE reg \in {4, 6} -> reg + 1 [] reg \in {5, 7} -> reg - 1 [] OTHER -> reg
LoadsAlike(m, op, reg, v) ==
    Len(m.st) \in 1..7 /\ reg \notin {2, 3} =>
        SameMachine(FpuMemOp(m, op, reg, v), FpuRegOp(FpuMemOp(m, \hDD, 0, v).m, \hDE, Renamed(reg), 1))
(* The status word through FNSTSW AX and SAHF makes ja, jb, je and jp      *)
(* (carry C0, parity C2, zero C3) tell how the two compare.                *)
ComparesTold(m, v) ==
    Has(m, 0) =>
        LET sw == FpuMemOp(m, \hD8, 2, v).m.sw
            unordered == IsNaN(St(m, 0)) \/ IsNaN(v)
        IN  /\ sw.c2 <=> unordered
            /\ ~sw.c0 /\ ~sw.c3 <=> ~unordered /\ Less(v, St(m, 0))
            /\ sw.c0 /\ ~sw.c2 <=> ~unordered /\ Less(St(m, 0), v)
(* The stack never exceeds eight, and an exchange undone is undone.        *)
StackKept(m, op, reg, rm, v) ==
    /\ LET r == FpuRegOp(m, op, reg, rm) IN r.result = "done" => Len(r.m.st) <= 8
    /\ LET r == FpuMemOp(m, op, reg, v) IN r.result = "done" => Len(r.m.st) <= 8
    /\ Has(m, rm) => FpuRegOp(FpuRegOp(m, \hD9, 1, rm).m, \hD9, 1, rm).m = m
(* What is stored as an integer is the integer the control word asks for.  *)
RoundsAlike(m) ==
    Has(m, 0) /\ ~IsNaN(St(m, 0)) =>
        LET v == St(m, 0)
            w == FpuMemOp(m, \hDB, 2, NaN).out[2]
            gap == IF Less(w, v) THEN Minus(v, w) ELSE Minus(w, v)
        IN  /\ Less(gap, Whole(1))
            /\ m.rc = 0 => ~Less(Q(1, 2), gap) /\ (Equal(gap, Q(1, 2)) => w.n % 2 = 0)
            /\ m.rc = 1 => ~Less(v, w)
            /\ m.rc = 2 => ~Less(w, v)
            /\ m.rc = 3 => ~Less(Times(v, v), Times(w, w))
(* What is stored as an extended real is loaded again.                     *)
ExtendedExact(v, bits) == v.n > 0 => Same(F80ToDouble(DoubleToF80(v, bits), bits), v)
=============================================================================
