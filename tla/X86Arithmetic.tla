---------------------------- MODULE X86Arithmetic ----------------------------
(***************************************************************************)
(* The interpreter's arithmetic (src/dos_re/cpu.py): what each operation   *)
(* leaves in its result and in the flags, as the closed forms the code     *)
(* computes.  The lifter's emitted code calls or inlines the same forms.   *)
(*                                                                         *)
(* Values are naturals below 2^bits; a result before it is masked may be   *)
(* larger or negative.  Parity is of the low byte.                         *)
(***************************************************************************)
EXTENDS Integers, Sequences

Values(bits) == 0..2^bits - 1
Flags == [cf : BOOLEAN, pf : BOOLEAN, af : BOOLEAN, zf : BOOLEAN, sf : BOOLEAN, of : BOOLEAN]

Masked(v, bits) == v % 2^bits
Negative(v, bits) == v \div 2^(bits - 1) % 2 = 1
Signed(v, bits) == IF Negative(v, bits) THEN v - 2^bits ELSE v
Bit(v, i) == v \div 2^i % 2
Ones(v) == LET Count[i \in 0..8] == IF i = 0 THEN 0 ELSE Count[i - 1] + Bit(v, i - 1) IN Count[8]
Parity(v) == Ones(v) % 2 = 0
One(condition) == IF condition THEN 1 ELSE 0

(* ZF, SF and PF of a result; what becomes of the others depends.          *)
Shown(f, r, bits) ==
    [f EXCEPT !.zf = r = 0, !.sf = Negative(r, bits), !.pf = Parity(r)]

-----------------------------------------------------------------------------
(* Logic, addition and subtraction.  The incoming carry is kept apart from *)
(* the second operand.                                                     *)

LogicBit(group, x, y) ==
    CASE group = "or" -> One(x = 1 \/ y = 1) [] group = "and" -> One(x = 1 /\ y = 1) [] group = "xor" -> One(x # y)
Logical(group, a, b, bits) ==
    LET From[i \in 0..bits] == IF i = bits THEN 0 ELSE LogicBit(group, Bit(a, i), Bit(b, i)) + 2 * From[i + 1]
    IN  From[0]

LogicFlags(f, result, bits) ==
    [Shown(f, Masked(result, bits), bits) EXCEPT !.cf = FALSE, !.of = FALSE]

AddFlags(f, a, b, result, bits, carry) ==
    LET r == Masked(result, bits)
    IN  [Shown(f, r, bits) EXCEPT
            !.cf = result > 2^bits - 1,
            !.af = (a % 16) + (b % 16) + carry > 15,
            !.of = Negative(a, bits) = Negative(b, bits) /\ Negative(a, bits) # Negative(r, bits)]

(* Faulty, to break properties: the borrow folded into the operand.        *)
SubFlagsFolded(f, a, b, result, bits, carry) ==
    LET r == Masked(result, bits)
        c == Masked(b + carry, bits)
    IN  [Shown(f, r, bits) EXCEPT
            !.cf = result < 0,
            !.af = (a % 16) - (c % 16) < 0,
            !.of = Negative(a, bits) # Negative(c, bits) /\ Negative(a, bits) # Negative(r, bits)]
SubFlags(f, a, b, result, bits, carry) ==
    LET r == Masked(result, bits)
    IN  [Shown(f, r, bits) EXCEPT
            !.cf = result < 0,
            !.af = (a % 16) - (b % 16) - carry < 0,
            !.of = Negative(a, bits) # Negative(b, bits) /\ Negative(a, bits) # Negative(r, bits)]

IncDecFlags(f, old, res, bits, dec) ==
    LET sign == 2^(bits - 1)
    IN  [Shown(f, res, bits) EXCEPT
            !.af = IF dec THEN old % 16 = 0 ELSE old % 16 = 15,
            !.of = IF dec THEN old = sign ELSE res = sign]

Group == <<"add", "or", "adc", "sbb", "and", "sub", "xor", "cmp">>

Alu(f, group, a, b, bits) ==
    LET carry == One(f.cf)
        R(result, flags) == [result |-> Masked(result, bits), flags |-> flags]
        Sum(c) == R(a + b + c, AddFlags(f, a, b, a + b + c, bits, c))
        Difference(c) == R(a - b - c, SubFlags(f, a, b, a - b - c, bits, c))
        Logic == LET r == Logical(group, a, b, bits) IN R(r, LogicFlags(f, r, bits))
    IN  CASE group = "add" -> Sum(0) [] group = "adc" -> Sum(carry)
          [] group = "sub" \/ group = "cmp" -> Difference(0) [] group = "sbb" -> Difference(carry)
          [] group \in {"or", "and", "xor"} -> Logic

Increment(f, a, bits) ==
    LET r == Masked(a + 1, bits) IN [result |-> r, flags |-> IncDecFlags(f, a, r, bits, FALSE)]
Decrement(f, a, bits) ==
    LET r == Masked(a - 1, bits) IN [result |-> r, flags |-> IncDecFlags(f, a, r, bits, TRUE)]

(* The same for authored code (asm.py): an addition, and the carry put     *)
(* back.                                                                   *)
PreservingCarry(f, group, a, bits) ==
    LET r == Alu(f, group, a, 1, bits) IN [r EXCEPT !.flags.cf = f.cf]

Negate(f, a, bits) ==
    [result |-> Masked(-a, bits), flags |-> SubFlags(f, 0, a, -a, bits, 0)]

(* The conditions of the conditional jumps, in pairs: each odd one is the  *)
(* negation of the one before.                                             *)
Condition(f, n) ==
    LET half == CASE n \div 2 = 0 -> f.of [] n \div 2 = 1 -> f.cf [] n \div 2 = 2 -> f.zf
                  [] n \div 2 = 3 -> f.cf \/ f.zf [] n \div 2 = 4 -> f.sf [] n \div 2 = 5 -> f.pf
                  [] n \div 2 = 6 -> f.sf # f.of [] n \div 2 = 7 -> f.zf \/ f.sf # f.of
    IN  IF n % 2 = 0 THEN half ELSE ~half

-----------------------------------------------------------------------------
(* Shifts and rotates by any count, in closed form.                        *)

Shifts == <<"rol", "ror", "rcl", "rcr", "shl", "shr", "sar">>

RotatedLeft(v, n, width) == IF n = 0 THEN v ELSE (v * 2^n % 2^width) + v \div 2^(width - n)
RotatedRight(v, n, width) == IF n = 0 THEN v ELSE v \div 2^n + (v * 2^(width - n) % 2^width)

Shifted(f, group, v, count, bits) ==
    LET wide == One(f.cf) * 2^bits + v
        Split(combined) == [result |-> combined % 2^bits, cf |-> Bit(combined, bits)]
    IN  CASE group = "shl" /\ count <= bits -> [result |-> v * 2^count % 2^bits, cf |-> Bit(v, bits - count)]
          [] group = "shr" /\ count <= bits -> [result |-> v \div 2^count, cf |-> Bit(v, count - 1)]
          [] group \in {"shl", "shr"} /\ count > bits -> [result |-> 0, cf |-> 0]
          [] group = "sar" /\ count >= bits ->
                [result |-> IF Negative(v, bits) THEN 2^bits - 1 ELSE 0, cf |-> Bit(v, bits - 1)]
          [] group = "sar" /\ count < bits ->
                [result |-> Masked(Signed(v, bits) \div 2^count, bits), cf |-> Bit(v, count - 1)]
          [] group = "rol" -> LET r == RotatedLeft(v, count % bits, bits)
                              IN  [result |-> r, cf |-> r % 2]
          [] group = "ror" -> LET r == RotatedRight(v, count % bits, bits)
                              IN  [result |-> r, cf |-> Bit(r, bits - 1)]
          [] group = "rcl" -> Split(RotatedLeft(wide, count % (bits + 1), bits + 1))
          [] group = "rcr" -> Split(RotatedRight(wide, count % (bits + 1), bits + 1))

(* OF is defined for a count of one, and left alone for others; rotates    *)
(* leave ZF, SF and PF alone.                                              *)
Shift(f, group, v, count, bits) ==
    LET n == count % 32
        s == Shifted(f, group, v, n, bits)
        r == s.result
        msb == Bit(r, bits - 1)
        of == CASE group = "shl" -> Bit(v, bits - 1) # msb
                [] group = "shr" -> Bit(v, bits - 1) = 1
                [] group = "sar" -> FALSE
                [] group = "rol" -> msb # r % 2
                [] group = "rcl" -> msb # s.cf
                [] OTHER -> msb # Bit(r, bits - 2)
        g == IF group \in {"shl", "shr", "sar"} THEN Shown(f, r, bits) ELSE f
    IN  IF n = 0 THEN [result |-> v, flags |-> f]
        ELSE [result |-> r,
              flags |-> [g EXCEPT !.cf = s.cf = 1, !.of = IF n = 1 THEN of ELSE f.of]]

-----------------------------------------------------------------------------
(* Multiplication and division: the wide value is high, low.               *)

Multiply(f, a, b, bits) ==
    LET w == a * b
        high == w \div 2^bits
    IN  [low |-> w % 2^bits, high |-> high, flags |-> [f EXCEPT !.cf = high # 0, !.of = high # 0]]

SignedMultiply(f, a, b, bits) ==
    LET w == Signed(a, bits) * Signed(b, bits)
        carry == w \notin -(2^(bits - 1))..2^(bits - 1) - 1
    IN  [low |-> w % 2^bits, high |-> w \div 2^bits % 2^bits,
         flags |-> [f EXCEPT !.cf = carry, !.of = carry]]

(* Division raises by zero and when the quotient has no room; a signed     *)
(* quotient is cut off, not rounded down.                                  *)
Raises == [raised |-> TRUE, quotient |-> 0, remainder |-> 0]
Divide(wide, b, bits) ==
    IF b = 0 \/ wide \div b > 2^bits - 1 THEN Raises
    ELSE [raised |-> FALSE, quotient |-> wide \div b, remainder |-> wide % b]

Magnitude(v) == IF v < 0 THEN -v ELSE v
SignedDivide(wide, b, bits) ==
    LET n == Signed(wide, 2 * bits)
        d == Signed(b, bits)
        m == Magnitude(n) \div Magnitude(d)
        q == IF (n < 0) # (d < 0) THEN -m ELSE m
    IN  IF b = 0 \/ q \notin -(2^(bits - 1))..2^(bits - 1) - 1 THEN Raises
        ELSE [raised |-> FALSE, quotient |-> Masked(q, bits), remainder |-> Masked(n - q * d, bits)]

(* DAA: AL after the addition of two packed decimals.                      *)
DecimalAdjust(f, al) ==
    LET low == al % 16 > 9 \/ f.af
        high == al > 153 \/ f.cf
        r == (al + 6 * One(low) + 96 * One(high)) % 256
    IN  [result |-> r, flags |-> [Shown(f, r, 8) EXCEPT !.af = low, !.cf = high]]

-----------------------------------------------------------------------------
(* What the hardware's manual says, independently of the closed forms.     *)

(* One bit at a time, each step as the instruction with a count of one.    *)
StepLeft(v, in, bits) == [result |-> (v * 2 % 2^bits) + in, cf |-> Bit(v, bits - 1)]
StepRight(v, in, bits) == [result |-> v \div 2 + in * 2^(bits - 1), cf |-> v % 2]
OneStep(group, v, cf, bits) ==
    CASE group = "shl" -> StepLeft(v, 0, bits) [] group = "shr" -> StepRight(v, 0, bits)
      [] group = "sar" -> StepRight(v, Bit(v, bits - 1), bits)
      [] group = "rol" -> StepLeft(v, Bit(v, bits - 1), bits)
      [] group = "ror" -> StepRight(v, v % 2, bits)
      [] group = "rcl" -> StepLeft(v, cf, bits) [] group = "rcr" -> StepRight(v, cf, bits)

BitByBit(group, v, cf, count, bits) ==
    LET After[n \in 0..count] ==
            IF n = 0 THEN [result |-> v, cf |-> cf]
            ELSE LET s == After[n - 1] IN OneStep(group, s.result, s.cf, bits)
    IN  After[count]

(* The closed forms of shifts and rotates are what a loop over the bits    *)
(* leaves, for every count (cpu.py:1640-1646).                             *)
ShiftsExact(v, cf, bits) ==
    LET f == [cf |-> cf, pf |-> FALSE, af |-> FALSE, zf |-> FALSE, sf |-> FALSE, of |-> FALSE]
    IN  \A n \in DOMAIN Shifts, count \in 1..31 :
            LET s == Shift(f, Shifts[n], v, count, bits)
                loop == BitByBit(Shifts[n], v, One(cf), count, bits)
            IN  /\ s.result = loop.result /\ s.flags.cf = (loop.cf = 1)
                /\ count = 1 =>
                      s.flags.of = (Negative(s.result, bits) # Negative(v, bits))

(* Carries and overflows say what was lost, of the true sum or difference. *)
SumsExact(a, b, cf, bits) ==
    LET f == [cf |-> cf, pf |-> FALSE, af |-> FALSE, zf |-> FALSE, sf |-> FALSE, of |-> FALSE]
        In(v) == v \in -(2^(bits - 1))..2^(bits - 1) - 1
        adc == Alu(f, "adc", a, b, bits)
        sbb == Alu(f, "sbb", a, b, bits)
        c == One(cf)
    IN  /\ adc.result + One(adc.flags.cf) * 2^bits = a + b + c
        /\ sbb.result - One(sbb.flags.cf) * 2^bits = a - b - c
        /\ adc.flags.of = ~In(Signed(a, bits) + Signed(b, bits) + c)
        /\ sbb.flags.of = ~In(Signed(a, bits) - Signed(b, bits) - c)
        /\ Increment(f, a, bits) = PreservingCarry(f, "add", a, bits)
        /\ Decrement(f, a, bits) = PreservingCarry(f, "sub", a, bits)
        /\ Negate(f, a, bits) = Alu(f, "sub", 0, a, bits)

(* A comparison decides the jumps as their names say.                      *)
JumpsExact(a, b, bits) ==
    LET none == [cf |-> FALSE, pf |-> FALSE, af |-> FALSE, zf |-> FALSE, sf |-> FALSE, of |-> FALSE]
        f == Alu(none, "cmp", a, b, bits).flags
        x == Signed(a, bits)
        y == Signed(b, bits)
    IN  /\ Condition(f, 2) = (a < b) /\ Condition(f, 7) = (a > b)
        /\ Condition(f, 12) = (x < y) /\ Condition(f, 15) = (x > y)
        /\ Condition(f, 6) = (a <= b) /\ Condition(f, 14) = (x <= y)

(* The halves of a product are the product, and the carry says whether the *)
(* high one is needed.                                                     *)
ProductsExact(a, b, bits) ==
    LET f == [cf |-> FALSE, pf |-> FALSE, af |-> FALSE, zf |-> FALSE, sf |-> FALSE, of |-> FALSE]
        u == Multiply(f, a, b, bits)
        s == SignedMultiply(f, a, b, bits)
        wide == s.high * 2^bits + s.low
    IN  /\ u.high * 2^bits + u.low = a * b /\ u.flags.cf = (u.high > 0)
        /\ Signed(wide, 2 * bits) = Signed(a, bits) * Signed(b, bits)
        /\ s.flags.cf = (Signed(wide, 2 * bits) # Signed(s.low, bits))

(* Quotient and remainder make up the dividend again.                      *)
DivisionsExact(wide, b, bits) ==
    LET u == Divide(wide, b, bits)
        s == SignedDivide(wide, b, bits)
        q == Signed(s.quotient, bits)
        r == Signed(s.remainder, bits)
        n == Signed(wide, 2 * bits)
    IN  /\ ~u.raised => u.quotient * b + u.remainder = wide /\ u.remainder < b
        /\ ~s.raised =>
                       /\ q * Signed(b, bits) + r = n
                       /\ Magnitude(r) < Magnitude(Signed(b, bits))
                       /\ r = 0 \/ (r < 0) = (n < 0)

(* The adjusted sum of two packed decimals is their decimal sum.           *)
Packed(n) == (n \div 10) * 16 + (n % 10)
DecimalsExact(m, n) ==
    LET none == [cf |-> FALSE, pf |-> FALSE, af |-> FALSE, zf |-> FALSE, sf |-> FALSE, of |-> FALSE]
        sum == Alu(none, "add", Packed(m), Packed(n), 8)
        adjusted == DecimalAdjust(sum.flags, sum.result)
    IN  adjusted.result = Packed((m + n) % 100) /\ adjusted.flags.cf = (m + n > 99)
=============================================================================
