------------------------ MODULE ViewerSessionProofs ------------------------
(***************************************************************************)
(* Proofs about the real-mode viewer, for any keys, pointer positions,     *)
(* programs and lengths of sessions: a recording is not lost, the game's   *)
(* keys are the player's, and, where no device interrupts between frames,  *)
(* a playback is at each frame in the state the recorded session was in.   *)
(***************************************************************************)
EXTENDS ViewerSession, FiniteSetTheorems, SequenceTheorems, WellFoundedInduction, TLAPS

(* The dispatcher's proofs, about the dispatcher of the session.           *)
KP == INSTANCE KeyDispatcherProofs

(* The mouse is nowhere but where it can be, and a session meets a finite  *)
(* number of device interrupts.                                            *)
SessionConstants == /\ StepsPerFrame \in Nat /\ NoPointer \notin Pointer
                    /\ IsFiniteSet(IrqAt)

-----------------------------------------------------------------------------
(* The machine.                                                            *)

IsMachine(m) ==
    /\ m = [count |-> m.count, taken |-> m.taken, unread |-> m.unread,
            table |-> m.table, log |-> m.log, mouse |-> m.mouse]
    /\ m.count \in Nat

LEMMA MachineMoves ==
    ASSUME NEW m, IsMachine(m)
    PROVE  /\ \A code : /\ IsMachine(Delivered(m, code))
                        /\ Delivered(m, code).count = m.count + 1
                        /\ Delivered(m, code).table = IF code.kind = "make" THEN m.table \cup {code.code}
                                                      ELSE m.table \ {code.code}
           /\ IsMachine(Interrupted(m)) /\ Interrupted(m).count = m.count + 1
           /\ \A p : /\ IsMachine(Pointed(m, p)) /\ Pointed(m, p).count = m.count
                     /\ Pointed(m, p).table = m.table
           /\ IsMachine(Ticked(m)) /\ Ticked(m).count = m.count + 1 /\ Ticked(m).table = m.table
<1> USE DEF IsMachine
<1>1. ASSUME NEW code
      PROVE  /\ IsMachine(Delivered(m, code)) /\ Delivered(m, code).count = m.count + 1
             /\ Delivered(m, code).table = IF code.kind = "make" THEN m.table \cup {code.code}
                                           ELSE m.table \ {code.code}
  <2> DEFINE log == Append(m.log, <<code, Where(m)>>)
             table1 == IF code.kind = "make" THEN m.table \cup {code.code} ELSE m.table \ {code.code}
             unread1 == IF code.kind = "make" THEN m.unread + 1 ELSE m.unread
  <2>1. Delivered(m, code) = [m EXCEPT !.log = log, !.table = table1, !.unread = unread1, !.count = m.count + 1]
    BY Zenon DEF Delivered
  <2> HIDE DEF log, table1, unread1
  <2>2. Delivered(m, code) = [count |-> m.count + 1, taken |-> m.taken, unread |-> unread1,
                              table |-> table1, log |-> log, mouse |-> m.mouse]
    BY <2>1
  <2> QED BY <2>2 DEF table1
<1>2. IsMachine(Interrupted(m)) /\ Interrupted(m).count = m.count + 1
  BY DEF Interrupted
<1>3. ASSUME NEW p PROVE /\ IsMachine(Pointed(m, p)) /\ Pointed(m, p).count = m.count
                         /\ Pointed(m, p).table = m.table
  BY DEF Pointed
<1>4. IsMachine(Ticked(m)) /\ Ticked(m).count = m.count + 1 /\ Ticked(m).table = m.table
  BY DEF Ticked
<1> QED BY <1>1, <1>2, <1>3, <1>4

(* A step counts, takes an interrupt, or leaves the machine where it is.   *)
LEMMA StepMoves ==
    ASSUME NEW m, IsMachine(m)
    PROVE  /\ IsMachine(Stepped(m)) /\ Stepped(m).table = m.table
           /\ IrqAt = {} => Stepped(m) = m \/ Stepped(m).count = m.count + 1
<1> USE DEF IsMachine
<1>1. CASE m.count \in IrqAt \ m.taken
  BY <1>1 DEF Stepped
<1>2. CASE m.count \notin IrqAt \ m.taken /\ (m.count \in StopAt \/ (m.count \in ReadAt /\ m.unread = 0))
  BY <1>2 DEF Stepped
<1>3. CASE m.count \notin IrqAt \ m.taken /\ ~(m.count \in StopAt \/ (m.count \in ReadAt /\ m.unread = 0))
  <2> DEFINE unread1 == IF m.count \in ReadAt THEN m.unread - 1 ELSE m.unread
  <2>1. Stepped(m) = [m EXCEPT !.count = m.count + 1, !.unread = unread1]
    BY <1>3, Zenon DEF Stepped
  <2> HIDE DEF unread1
  <2>2. Stepped(m) = [count |-> m.count + 1, taken |-> m.taken, unread |-> unread1,
                      table |-> m.table, log |-> m.log, mouse |-> m.mouse]
    BY <2>1
  <2> QED BY <2>2
<1> QED BY <1>1, <1>2, <1>3

(* Induction over numbers, for a property that is a set.                   *)
LEMMA Inductive ==
    ASSUME NEW S, 0 \in S, \A i \in Nat : i \in S => i + 1 \in S
    PROVE  Nat \subseteq S
<1> DEFINE T == Nat \ S
<1>1. SUFFICES ASSUME T # {} PROVE FALSE
  OBVIOUS
<1>2. PICK x \in T : \A y \in T : ~(<<y, x>> \in OpToRel(<, Nat))
  BY <1>1, NatLessThanWellFounded, WFMin
<1>3. x \in Nat /\ x # 0 /\ x \notin S
  BY <1>2
<1>4. x - 1 \in Nat /\ x - 1 < x /\ x - 1 + 1 = x
  BY <1>3
<1>5. x - 1 \in T
  BY <1>3, <1>4
<1> QED BY <1>2, <1>3, <1>4, <1>5 DEF OpToRel

(* The runs of Ran and RanTo are what their definitions say: such functions*)
(* exist.                                                                  *)
LEMMA RunIs ==
    ASSUME NEW m, NEW k \in Nat
    PROVE  \E s : /\ s[0] = m /\ \A i \in 0..k - 1 : s[i + 1] = Stepped(s[i])
                  /\ Ran(m, k) = s[k]
<1> DEFINE IsRun(f, j) == f = [i \in 0..j |-> IF i = 0 THEN m ELSE LET r == f[i - 1] IN Stepped(r)]
           S == {j \in Nat : \E f : IsRun(f, j)}
<1>1. 0 \in S
  <2> DEFINE f == [i \in 0..0 |-> m]
  <2>1. IsRun(f, 0)
    OBVIOUS
  <2> QED BY <2>1
<1>2. ASSUME NEW j \in Nat, j \in S PROVE j + 1 \in S
  <2>1. PICK f : IsRun(f, j)
    BY <1>2
  <2> DEFINE last == Stepped(f[j])
             g == [i \in 0..j + 1 |-> IF i = j + 1 THEN last ELSE f[i]]
  <2>2. \A i \in 0..j : g[i] = f[i]
    OBVIOUS
  <2>3. ASSUME NEW i \in 0..j + 1
        PROVE  g[i] = IF i = 0 THEN m ELSE LET r == g[i - 1] IN Stepped(r)
    <3>1. CASE i = j + 1
      <4>1. i - 1 = j /\ i # 0 /\ g[j] = f[j]
        BY <2>2, <3>1
      <4> QED BY <3>1, <4>1
    <3>2. CASE i \in 0..j
      <4>1. f[i] = IF i = 0 THEN m ELSE LET r == f[i - 1] IN Stepped(r)
        BY <2>1, <3>2
      <4>2. i # 0 => i - 1 \in 0..j
        BY <3>2
      <4> HIDE DEF g
      <4> QED BY <2>2, <3>2, <4>1, <4>2
    <3> QED BY <3>1, <3>2
  <2>4. g = [i \in 0..j + 1 |-> g[i]]
    OBVIOUS
  <2> HIDE DEF g
  <2>5. IsRun(g, j + 1)
    BY <2>3, <2>4
  <2>6. \E f1 : IsRun(f1, j + 1)
    BY <2>5
  <2> QED BY <2>6
<1>3. k \in S
  <2> HIDE DEF S
  <2> QED BY <1>1, <1>2, Inductive
<1> DEFINE s == CHOOSE s : IsRun(s, k)
<1>4. IsRun(s, k)
  BY <1>3
<1>5. Ran(m, k) = s[k]
  BY DEF Ran
<1> HIDE DEF s
<1>6. s[0] = m
  BY <1>4
<1>7. \A i \in 0..k - 1 : s[i + 1] = Stepped(s[i])
  <2> TAKE i \in 0..k - 1
  <2>1. i + 1 \in 0..k /\ i + 1 # 0 /\ i + 1 - 1 = i
    OBVIOUS
  <2> QED BY <1>4, <2>1
<1> QED BY <1>5, <1>6, <1>7

LEMMA RunToIs ==
    ASSUME NEW m, NEW count, NEW k \in Nat, k = Cardinality(IrqAt) + count
    PROVE  \E s : /\ s[0] = m
                  /\ \A i \in 0..k - 1 : s[i + 1] = IF s[i].count = count THEN s[i] ELSE Stepped(s[i])
                  /\ RanTo(m, count) = s[k]
<1> DEFINE IsRun(f, j) == f = [i \in 0..j |-> IF i = 0 THEN m
                                              ELSE LET r == f[i - 1]
                                                   IN  IF r.count = count THEN r ELSE Stepped(r)]
           S == {j \in Nat : \E f : IsRun(f, j)}
<1>1. 0 \in S
  <2> DEFINE f == [i \in 0..0 |-> m]
  <2>1. IsRun(f, 0)
    OBVIOUS
  <2> QED BY <2>1
<1>2. ASSUME NEW j \in Nat, j \in S PROVE j + 1 \in S
  <2>1. PICK f : IsRun(f, j)
    BY <1>2
  <2> DEFINE last == IF f[j].count = count THEN f[j] ELSE Stepped(f[j])
             g == [i \in 0..j + 1 |-> IF i = j + 1 THEN last ELSE f[i]]
  <2>2. \A i \in 0..j : g[i] = f[i]
    OBVIOUS
  <2>3. ASSUME NEW i \in 0..j + 1
        PROVE  g[i] = IF i = 0 THEN m ELSE LET r == g[i - 1]
                                           IN  IF r.count = count THEN r ELSE Stepped(r)
    <3>1. CASE i = j + 1
      <4>1. i - 1 = j /\ i # 0 /\ g[j] = f[j]
        BY <2>2, <3>1
      <4> QED BY <3>1, <4>1
    <3>2. CASE i \in 0..j
      <4>1. f[i] = IF i = 0 THEN m ELSE LET r == f[i - 1]
                                        IN  IF r.count = count THEN r ELSE Stepped(r)
        BY <2>1, <3>2
      <4>2. i # 0 => i - 1 \in 0..j
        BY <3>2
      <4> HIDE DEF g
      <4> QED BY <2>2, <3>2, <4>1, <4>2
    <3> QED BY <3>1, <3>2
  <2>4. g = [i \in 0..j + 1 |-> g[i]]
    OBVIOUS
  <2> HIDE DEF g
  <2>5. IsRun(g, j + 1)
    BY <2>3, <2>4
  <2>6. \E f1 : IsRun(f1, j + 1)
    BY <2>5
  <2> QED BY <2>6
<1>3. k \in S
  <2> HIDE DEF S
  <2> QED BY <1>1, <1>2, Inductive
<1> DEFINE s == CHOOSE s : IsRun(s, k)
<1>4. IsRun(s, k)
  BY <1>3
<1>5. RanTo(m, count) = s[k]
  BY DEF RanTo
<1> HIDE DEF s
<1>6. s[0] = m
  BY <1>4
<1>7. \A i \in 0..k - 1 : s[i + 1] = IF s[i].count = count THEN s[i] ELSE Stepped(s[i])
  <2> TAKE i \in 0..k - 1
  <2>1. i + 1 \in 0..k /\ i + 1 # 0 /\ i + 1 - 1 = i
    OBVIOUS
  <2> QED BY <1>4, <2>1
<1> QED BY <1>5, <1>6, <1>7

LEMMA RunToAlone ==
    ASSUME IrqAt = {}, NEW m, NEW e \in Nat
    PROVE  \E s : /\ s[0] = m
                  /\ \A i \in 0..e - 1 : s[i + 1] = IF s[i].count = e THEN s[i] ELSE Stepped(s[i])
                  /\ RanTo(m, e) = s[e]
<1>1. e = Cardinality(IrqAt) + e
  BY FS_EmptySet
<1> QED BY <1>1, RunToIs

LEMMA RunToKeeps ==
    ASSUME IsFiniteSet(IrqAt), NEW m, IsMachine(m), NEW count \in Nat
    PROVE  IsMachine(RanTo(m, count)) /\ RanTo(m, count).table = m.table
<1> DEFINE k == Cardinality(IrqAt) + count
<1>1. k \in Nat /\ k = Cardinality(IrqAt) + count
  BY FS_CardinalityType
<1> HIDE DEF k
<1>2. PICK s : /\ s[0] = m
               /\ \A i \in 0..k - 1 : s[i + 1] = IF s[i].count = count THEN s[i] ELSE Stepped(s[i])
               /\ RanTo(m, count) = s[k]
  BY <1>1, RunToIs
<1> DEFINE S == {i \in Nat : i <= k => IsMachine(s[i]) /\ s[i].table = m.table}
<1>3. 0 \in S
  BY <1>2
<1>4. ASSUME NEW i \in Nat, i \in S PROVE i + 1 \in S
  <2>1. SUFFICES ASSUME i + 1 <= k PROVE IsMachine(s[i + 1]) /\ s[i + 1].table = m.table
    OBVIOUS
  <2>2. /\ IsMachine(s[i]) /\ s[i].table = m.table
        /\ s[i + 1] = IF s[i].count = count THEN s[i] ELSE Stepped(s[i])
    BY <1>1, <1>2, <1>4, <2>1
  <2> QED BY <2>2, StepMoves
<1>5. Nat \subseteq S
  <2> HIDE DEF S
  <2> QED BY <1>3, <1>4, Inductive
<1> QED BY <1>1, <1>2, <1>5

(* A run never counts back, and ends as it was when it first had its last  *)
(* count; so one that is stopped at that count ends the same way.          *)
LEMMA RunKeeps ==
    ASSUME NEW m, IsMachine(m), NEW k \in Nat
    PROVE  /\ IsMachine(Ran(m, k)) /\ Ran(m, k).table = m.table
           /\ IrqAt = {} => m.count <= Ran(m, k).count /\ RanTo(m, Ran(m, k).count) = Ran(m, k)
<1>1. PICK s : /\ s[0] = m /\ \A i \in 0..k - 1 : s[i + 1] = Stepped(s[i])
               /\ Ran(m, k) = s[k]
  BY RunIs
<1>2. \A i \in 0..k : IsMachine(s[i]) /\ s[i].table = m.table
  <2> DEFINE S == {i \in Nat : i <= k => IsMachine(s[i]) /\ s[i].table = m.table}
  <2>1. 0 \in S
    BY <1>1
  <2>2. ASSUME NEW i \in Nat, i \in S PROVE i + 1 \in S
    <3>1. SUFFICES ASSUME i + 1 <= k PROVE IsMachine(s[i + 1]) /\ s[i + 1].table = m.table
      OBVIOUS
    <3>2. IsMachine(s[i]) /\ s[i].table = m.table /\ s[i + 1] = Stepped(s[i])
      BY <1>1, <2>2, <3>1
    <3> QED BY <3>2, StepMoves
  <2>3. Nat \subseteq S
    <3> HIDE DEF S
    <3> QED BY <2>1, <2>2, Inductive
  <2> QED BY <2>3
<1>3. SUFFICES ASSUME IrqAt = {}
               PROVE  m.count <= s[k].count /\ RanTo(m, s[k].count) = s[k]
  BY <1>1, <1>2
<1> DEFINE c(i) == s[i].count
<1>4. \A i \in 0..k : c(i) \in Nat
  BY <1>2 DEF IsMachine
<1>5. \A i \in 0..k - 1 : s[i + 1] = s[i] \/ c(i + 1) = c(i) + 1
  <2> TAKE i \in 0..k - 1
  <2>1. i \in 0..k /\ s[i + 1] = Stepped(s[i])
    BY <1>1
  <2> QED BY <1>2, <1>3, <2>1, StepMoves
<1> HIDE DEF c
<1>6. \A i \in 0..k : \A j \in 0..i : /\ c(j) <= c(i) /\ (c(j) = c(i) => s[j] = s[i])
                                      /\ Stepped(s[j]) = s[j] => s[i] = s[j]
  <2> DEFINE P(i) == \A j \in 0..i : /\ c(j) <= c(i) /\ (c(j) = c(i) => s[j] = s[i])
                                     /\ Stepped(s[j]) = s[j] => s[i] = s[j]
             S == {i \in Nat : i <= k => P(i)}
  <2>1. 0 \in S
    BY <1>4
  <2>2. ASSUME NEW i \in Nat, i \in S PROVE i + 1 \in S
    <3>1. SUFFICES ASSUME i + 1 <= k, NEW j \in 0..i + 1
                   PROVE  /\ c(j) <= c(i + 1) /\ (c(j) = c(i + 1) => s[j] = s[i + 1])
                          /\ Stepped(s[j]) = s[j] => s[i + 1] = s[j]
      OBVIOUS
    <3>2. i \in 0..k - 1 /\ i \in 0..k /\ i + 1 \in 0..k
      BY <3>1
    <3>3. c(i) \in Nat /\ c(i + 1) \in Nat /\ s[i + 1] = Stepped(s[i])
          /\ (s[i + 1] = s[i] \/ c(i + 1) = c(i) + 1)
      BY <1>1, <1>4, <1>5, <3>2
    <3>4. CASE j = i + 1
      BY <3>3, <3>4
    <3>5. CASE j \in 0..i
      <4>1. c(j) <= c(i) /\ (c(j) = c(i) => s[j] = s[i]) /\ (Stepped(s[j]) = s[j] => s[i] = s[j])
        BY <2>2, <3>1, <3>5
      <4>2. c(j) \in Nat
        BY <1>4, <3>2, <3>5
      <4>3. s[i + 1] = s[i] => c(i + 1) = c(i)
        BY DEF c
      <4>4. c(j) <= c(i + 1) /\ (c(j) = c(i + 1) => s[j] = s[i + 1])
        BY <3>3, <4>1, <4>2, <4>3
      <4>5. Stepped(s[j]) = s[j] => s[i + 1] = s[j]
        BY <3>3, <4>1
      <4> QED BY <4>4, <4>5
    <3> QED BY <3>4, <3>5
  <2>3. Nat \subseteq S
    <3> HIDE DEF S
    <3> QED BY <2>1, <2>2, Inductive
  <2> QED BY <2>3
<1> DEFINE e == c(k)
<1>7. e \in Nat
  BY <1>4
<1>8. PICK r : /\ r[0] = m
               /\ \A i \in 0..e - 1 : r[i + 1] = IF r[i].count = e THEN r[i] ELSE Stepped(r[i])
               /\ RanTo(m, e) = r[e]
  BY <1>3, <1>7, RunToAlone
<1> HIDE DEF e
<1>9. \A i \in 0..e : \E j \in 0..k : r[i] = s[j] /\ (c(j) = e \/ c(j) >= i)
  <2> DEFINE P(i) == \E j \in 0..k : r[i] = s[j] /\ (c(j) = e \/ c(j) >= i)
             S == {i \in Nat : i <= e => P(i)}
  <2>1. 0 \in S
    <3>1. 0 \in 0..k /\ r[0] = s[0] /\ c(0) >= 0
      BY <1>1, <1>4, <1>8
    <3>2. P(0)
      BY <3>1
    <3> QED BY <3>2
  <2>2. ASSUME NEW i \in Nat, i \in S PROVE i + 1 \in S
    <3>1. SUFFICES ASSUME i + 1 <= e PROVE P(i + 1)
      OBVIOUS
    <3>2. PICK j \in 0..k : r[i] = s[j] /\ (c(j) = e \/ c(j) >= i)
      BY <1>7, <2>2, <3>1
    <3>3. r[i + 1] = IF c(j) = e THEN s[j] ELSE Stepped(s[j])
      BY <1>7, <1>8, <3>1, <3>2 DEF c
    <3>4. CASE c(j) = e
      BY <3>2, <3>3, <3>4
    <3>5. CASE c(j) # e
      <4>1. j # k
        BY <3>5 DEF e
      <4>2. j \in 0..k - 1 /\ j + 1 \in 0..k /\ s[j + 1] = Stepped(s[j]) /\ c(j) \in Nat
        BY <1>1, <1>4, <4>1
      <4>3. s[j + 1] # s[j]
        <5>1. SUFFICES ASSUME Stepped(s[j]) = s[j] PROVE FALSE
          BY <4>2
        <5>2. s[k] = s[j]
          BY <1>6, <5>1
        <5> QED BY <3>5, <5>2 DEF c, e
      <4>4. c(j + 1) = c(j) + 1
        BY <1>5, <4>2, <4>3
      <4>5. r[i + 1] = s[j + 1] /\ c(j + 1) >= i + 1
        BY <3>2, <3>3, <3>5, <4>2, <4>4
      <4> QED BY <4>2, <4>5
    <3> QED BY <3>4, <3>5
  <2>3. Nat \subseteq S
    <3> HIDE DEF S
    <3> QED BY <2>1, <2>2, Inductive
  <2> QED BY <1>7, <2>3
<1>10. PICK j \in 0..k : r[e] = s[j] /\ (c(j) = e \/ c(j) >= e)
  BY <1>7, <1>9
<1>11. c(j) = e /\ s[j] = s[k]
  <2>1. c(j) <= c(k) /\ c(j) \in Nat /\ (c(j) = c(k) => s[j] = s[k])
    BY <1>4, <1>6
  <2> QED BY <1>7, <1>10, <2>1 DEF e
<1>12. RanTo(m, e) = s[k]
  BY <1>8, <1>10, <1>11
<1>13. c(0) <= c(k)
  BY <1>6
<1> QED BY <1>1, <1>12, <1>13 DEF c, e
-----------------------------------------------------------------------------
(* Lists grow at their end.                                                *)

IsList(l) == \E S : l \in Seq(S)

LEMMA Grown ==
    ASSUME NEW l, IsList(l), NEW x
    PROVE  /\ IsList(Append(l, x)) /\ Len(l) \in Nat /\ Len(Append(l, x)) = Len(l) + 1
           /\ Append(l, x)[Len(l) + 1] = x /\ \A i \in 1..Len(l) : Append(l, x)[i] = l[i]
           /\ Append(l, x) # l
<1>1. PICK S : l \in Seq(S)
  BY DEF IsList
<1>2. l \in Seq(S \cup {x})
  BY <1>1, LenProperties
<1>3. /\ Append(l, x) \in Seq(S \cup {x}) /\ Len(l) \in Nat /\ Len(Append(l, x)) = Len(l) + 1
      /\ Append(l, x)[Len(l) + 1] = x /\ \A i \in 1..Len(l) : Append(l, x)[i] = l[i]
  BY <1>2, AppendProperties, LenProperties
<1> QED BY <1>3 DEF IsList

(* What a step of a pump delivers.                                         *)
Typed(old, code) == IF code.kind = "make" THEN old \cup {code.code} ELSE old \ {code.code}

LEMMA PumpSends ==
    ASSUME IsList(sent), PumpStep
    PROVE  /\ IsList(sent')
           /\ \/ sent' = sent /\ table' = table
              \/ /\ sent' # sent /\ sent'[Len(sent')].kind \in {"make", "break"}
                 /\ table' = Typed(table, sent'[Len(sent')])
<1> DEFINE Sends(code) == /\ sent' = Append(sent, code) /\ code.kind \in {"make", "break"}
                          /\ table' = Typed(table, code)
<1>1. (sent' = sent /\ table' = table) \/ \E code : Sends(code)
  <2>1. \A k : K!Make(k) => Sends([kind |-> "make", code |-> k])
    BY DEF K!Make, Typed
  <2>2. \A k : K!Break(k) => Sends([kind |-> "break", code |-> k])
    BY DEF K!Break, Typed
  <2> HIDE DEF Sends
  <2>3. CASE K!Drain
    BY <2>1, <2>3 DEF K!Drain, K!Down, K!Up, K!gameVars
  <2>4. CASE K!Drained
    BY <2>4 DEF K!Drained, K!gameVars
  <2>5. CASE K!ReleaseReady
    BY <2>2, <2>5 DEF K!ReleaseReady, K!Released, K!gameVars
  <2>6. CASE K!ReleaseDone
    BY <2>6 DEF K!ReleaseDone, K!gameVars
  <2>7. CASE K!Age
    BY <2>7 DEF K!Age, K!gameVars
  <2> QED BY <2>3, <2>4, <2>5, <2>6, <2>7 DEF PumpStep
<1>2. CASE \E code : Sends(code)
  <2>1. PICK code : Sends(code)
    BY <1>2
  <2>2. /\ IsList(sent') /\ sent' # sent /\ Len(sent') = Len(sent) + 1
        /\ sent'[Len(sent) + 1] = code
    BY <2>1, Grown
  <2>3. sent'[Len(sent')] = code
    BY <2>2
  <2> QED BY <2>1, <2>2, <2>3
<1> QED BY <1>1, <1>2

-----------------------------------------------------------------------------
(* The recorder, whatever interrupts there are.                            *)

(* A recording of o frames: the machine and its coordinate of each, and    *)
(* input in none beyond them.                                              *)
Recorded(r, o) ==
    /\ r = [active |-> TRUE, fresh |-> r.fresh, start |-> r.start, base |-> r.base,
            events |-> r.events, mouse |-> r.mouse, coords |-> r.coords, truth |-> r.truth]
    /\ IsList(r.events) /\ \A j \in 1..Len(r.events) : r.events[j].ordinal \in 0..o
    /\ DOMAIN r.truth = 0..o /\ DOMAIN r.coords = 0..o
    /\ \A i \in 0..o : IsMachine(r.truth[i]) /\ r.coords[i] = r.truth[i].count
    /\ r.truth[0] = r.base

(* ... of which no input came since the last one.                          *)
AtFrame(r, o, m) == m = r.truth[o] /\ \A j \in 1..Len(r.events) : r.events[j].ordinal < o

(* While a session is between two frames, its machine is that of the last  *)
(* point of its recording; a playback does not record, and ends with its   *)
(* recording.                                                              *)
RecInv ==
    /\ IsMachine(machine) /\ frame \in Nat
    /\ rec = NoRec \/ (rec.start \in 0..frame /\ Recorded(rec, frame - rec.start))
    /\ rec # NoRec \/ loop \in {"pump", "mouse", "frame"} => ~replaying
    /\ rec # NoRec /\ (loop \in {"top", "events"} \/ (loop = "closing" /\ ~failed)) =>
           AtFrame(rec, frame - rec.start, machine)
    /\ rec # NoRec /\ ~SameSecond => rec.fresh = TRUE
    /\ IsList(sent)
    /\ ~SameSecond => RecordingKept
    /\ saved.end \in Nat /\ IsMachine(saved.base)
    /\ saved # NoRecording => \A i \in 0..saved.end : saved.coords[i] \in Nat
    /\ loop = "apply" => replaying
    /\ replaying => saved # NoRecording
    /\ replaying /\ loop = "top" => frame <= saved.end
    /\ replaying /\ loop \in {"events", "apply"} => frame < saved.end

LEMMA ActiveRec == ASSUME RecInv PROVE rec.active <=> rec # NoRec
<1>1. CASE rec = NoRec
  BY <1>1 DEF NoRec
<1>2. CASE rec # NoRec
  BY <1>2 DEF RecInv, Recorded
<1> QED BY <1>1, <1>2

LEMMA NewRecorded ==
    ASSUME NEW fresh, NEW start \in Nat, NEW m, IsMachine(m)
    PROVE  /\ NewRec(fresh, start, m) # NoRec /\ Recorded(NewRec(fresh, start, m), 0)
           /\ NewRec(fresh, start, m).start = start /\ NewRec(fresh, start, m).fresh = fresh
           /\ NewRec(fresh, start, m).mouse = NoPointer /\ Len(NewRec(fresh, start, m).events) = 0
           /\ AtFrame(NewRec(fresh, start, m), 0, m)
<1> DEFINE r == NewRec(fresh, start, m)
<1>1. r = [active |-> TRUE, fresh |-> fresh, start |-> start, base |-> m, events |-> <<>>,
           mouse |-> NoPointer, coords |-> [i \in {0} |-> m.count], truth |-> [i \in {0} |-> m]]
  BY DEF NewRec
<1> HIDE DEF r
<1>2. IsList(<<>>) /\ Len(<<>>) = 0
  BY EmptySeq DEF IsList
<1>3. r # NoRec
  <2>1. r.active = TRUE /\ NoRec.active = FALSE
    BY <1>1 DEF NoRec
  <2> QED BY <2>1
<1>4. 0..0 = {0}
  OBVIOUS
<1>5. Recorded(r, 0)
  BY <1>1, <1>2, <1>4 DEF Recorded
<1>6. AtFrame(r, 0, m)
  BY <1>1, <1>2 DEF AtFrame
<1> QED BY <1>1, <1>2, <1>3, <1>5, <1>6 DEF r

(* Input is added, in the frame that is under way.                         *)
LEMMA AddedRecorded ==
    ASSUME RecInv, rec # NoRec, NEW input
    PROVE  LET e == [ordinal |-> frame - rec.start, input |-> input]
           IN  /\ Added(input) = [rec EXCEPT !.events = Append(@, e)]
               /\ Added(input) # NoRec /\ Recorded(Added(input), frame - rec.start)
               /\ Added(input).start = rec.start /\ Added(input).fresh = rec.fresh
               /\ Added(input).mouse = rec.mouse
               /\ Added(input).truth = rec.truth /\ Added(input).coords = rec.coords
               /\ Len(rec.events) \in Nat /\ Len(Added(input).events) = Len(rec.events) + 1
               /\ Added(input).events[Len(rec.events) + 1] = e
               /\ \A i \in 1..Len(rec.events) : Added(input).events[i] = rec.events[i]
<1> DEFINE e == [ordinal |-> frame - rec.start, input |-> input]
           o == frame - rec.start
           events1 == Append(rec.events, e)
<1>1. rec.start \in 0..frame /\ frame \in Nat /\ Recorded(rec, o) /\ o \in Nat
  BY DEF RecInv
<1>2. OrdinalOf(frame) = o
  BY <1>1 DEF OrdinalOf
<1>3. Added(input) = [rec EXCEPT !.events = events1]
  BY <1>2, Zenon DEF Added
<1>4. /\ IsList(events1) /\ Len(rec.events) \in Nat /\ Len(events1) = Len(rec.events) + 1
      /\ events1[Len(rec.events) + 1] = e /\ \A i \in 1..Len(rec.events) : events1[i] = rec.events[i]
  BY <1>1, Grown DEF Recorded
<1> DEFINE r == Added(input)
<1> HIDE DEF events1, r
<1>5. r = [active |-> TRUE, fresh |-> rec.fresh, start |-> rec.start, base |-> rec.base,
           events |-> events1, mouse |-> rec.mouse, coords |-> rec.coords, truth |-> rec.truth]
  BY <1>1, <1>3 DEF Recorded, r
<1>6. r # NoRec
  <2>1. r.active = TRUE /\ NoRec.active = FALSE
    BY <1>5 DEF NoRec
  <2> QED BY <2>1
<1>7. \A j \in 1..Len(events1) : events1[j].ordinal \in 0..o
  <2> TAKE j \in 1..Len(events1)
  <2>1. CASE j = Len(rec.events) + 1
    BY <1>1, <1>4, <2>1
  <2>2. CASE j \in 1..Len(rec.events)
    BY <1>1, <1>4, <2>2 DEF Recorded
  <2> QED BY <1>4, <2>1, <2>2
<1>8. Recorded(r, o)
  BY <1>1, <1>4, <1>5, <1>7 DEF Recorded
<1> QED BY <1>3, <1>4, <1>5, <1>6, <1>8 DEF r, events1

(* A sample of the mouse is added, or was there already.                   *)
LEMMA SampledRecorded ==
    ASSUME RecInv, rec # NoRec, NEW p, p # rec.mouse
    PROVE  LET e == [ordinal |-> frame - rec.start, input |-> [kind |-> "mouse", code |-> p]]
               r == Sampled(p)
           IN  /\ r # NoRec /\ Recorded(r, frame - rec.start)
               /\ r.start = rec.start /\ r.fresh = rec.fresh /\ r.mouse = p
               /\ r.truth = rec.truth /\ r.coords = rec.coords
               /\ Len(rec.events) \in Nat /\ Len(r.events) = Len(rec.events) + 1
               /\ r.events[Len(rec.events) + 1] = e
               /\ \A i \in 1..Len(rec.events) : r.events[i] = rec.events[i]
<1> DEFINE input == [kind |-> "mouse", code |-> p]
           a == Added(input)
           r == Sampled(p)
           o == frame - rec.start
<1>1. r = [a EXCEPT !.mouse = p]
  BY DEF Sampled
<1>2. /\ a # NoRec /\ Recorded(a, o)
      /\ a.start = rec.start /\ a.fresh = rec.fresh
      /\ a.truth = rec.truth /\ a.coords = rec.coords
      /\ Len(rec.events) \in Nat /\ Len(a.events) = Len(rec.events) + 1
      /\ a.events[Len(rec.events) + 1] = [ordinal |-> o, input |-> input]
      /\ \A i \in 1..Len(rec.events) : a.events[i] = rec.events[i]
  BY AddedRecorded
<1> HIDE DEF a, r, o, input
<1>3. r = [active |-> TRUE, fresh |-> a.fresh, start |-> a.start, base |-> a.base,
           events |-> a.events, mouse |-> p, coords |-> a.coords, truth |-> a.truth]
  <2>1. a = [active |-> TRUE, fresh |-> a.fresh, start |-> a.start, base |-> a.base,
             events |-> a.events, mouse |-> a.mouse, coords |-> a.coords, truth |-> a.truth]
    BY <1>2 DEF Recorded
  <2>2. /\ r = [x \in DOMAIN a |-> IF x = "mouse" THEN p ELSE a[x]]
        /\ DOMAIN a = {"active", "fresh", "start", "base", "events", "mouse", "coords", "truth"}
    BY <1>1, <2>1
  <2>3. a.active = TRUE
    BY <2>1
  <2> QED BY <2>2, <2>3
<1>4. r # NoRec
  <2>1. r.active = TRUE /\ NoRec.active = FALSE
    BY <1>3 DEF NoRec
  <2> QED BY <2>1
<1>5. Recorded(r, o)
  BY <1>2, <1>3 DEF Recorded
<1> QED BY <1>2, <1>3, <1>4, <1>5 DEF r, o, input

(* A frame is run, and marked.                                             *)
LEMMA MarkedRecorded ==
    ASSUME RecInv, rec # NoRec, NEW m, IsMachine(m)
    PROVE  LET o == frame - rec.start
               r == Marked(OrdinalOf(frame + 1), m)
           IN  /\ r # NoRec /\ r.start = rec.start /\ Recorded(r, frame + 1 - r.start)
               /\ r.fresh = rec.fresh /\ r.mouse = rec.mouse /\ r.events = rec.events
               /\ r.truth[o + 1] = m /\ r.coords[o + 1] = m.count
               /\ \A i \in 0..o : r.truth[i] = rec.truth[i] /\ r.coords[i] = rec.coords[i]
               /\ AtFrame(r, frame + 1 - r.start, m)
<1> DEFINE o == frame - rec.start
           r == Marked(OrdinalOf(frame + 1), m)
           coords1 == Put(rec.coords, o + 1, m.count)
           truth1 == Put(rec.truth, o + 1, m)
<1>1. rec.start \in 0..frame /\ frame \in Nat /\ Recorded(rec, o) /\ o \in Nat /\ rec.active
  <2>1. rec.active
    BY ActiveRec
  <2>2. rec.start \in 0..frame /\ frame \in Nat /\ Recorded(rec, o)
    BY DEF RecInv
  <2> QED BY <2>1, <2>2
<1>2. OrdinalOf(frame + 1) = o + 1 /\ frame + 1 - rec.start = o + 1
  BY <1>1 DEF OrdinalOf
<1>3. r = [rec EXCEPT !.coords = coords1, !.truth = truth1]
  BY <1>1, <1>2, Zenon DEF Marked
<1>4. DOMAIN rec.truth = 0..o /\ DOMAIN rec.coords = 0..o /\ o + 1 \notin 0..o
      /\ 0..o + 1 = 0..o \cup {o + 1}
  BY <1>1 DEF Recorded
<1>5. /\ DOMAIN coords1 = 0..o + 1 /\ DOMAIN truth1 = 0..o + 1
      /\ truth1[o + 1] = m /\ coords1[o + 1] = m.count
      /\ \A i \in 0..o : truth1[i] = rec.truth[i] /\ coords1[i] = rec.coords[i]
  BY <1>4 DEF Put
<1> HIDE DEF coords1, truth1, r
<1>6. r = [active |-> TRUE, fresh |-> rec.fresh, start |-> rec.start, base |-> rec.base,
           events |-> rec.events, mouse |-> rec.mouse, coords |-> coords1, truth |-> truth1]
  BY <1>1, <1>3 DEF Recorded
<1>7. r # NoRec
  <2>1. r.active = TRUE /\ NoRec.active = FALSE
    BY <1>6 DEF NoRec
  <2> QED BY <2>1
<1>8. \A i \in 0..o + 1 : IsMachine(truth1[i]) /\ coords1[i] = truth1[i].count
  <2> TAKE i \in 0..o + 1
  <2>1. CASE i = o + 1
    BY <1>5, <2>1
  <2>2. CASE i \in 0..o
    BY <1>1, <1>5, <2>2 DEF Recorded
  <2> QED BY <1>4, <2>1, <2>2
<1>9. \A j \in 1..Len(rec.events) : rec.events[j].ordinal \in 0..o + 1 /\ rec.events[j].ordinal < o + 1
  <2> TAKE j \in 1..Len(rec.events)
  <2>1. rec.events[j].ordinal \in 0..o
    BY <1>1 DEF Recorded
  <2> QED BY <1>1, <2>1
<1>10. truth1[0] = rec.base
  BY <1>1, <1>5 DEF Recorded
<1>11. Recorded(r, o + 1)
  BY <1>1, <1>5, <1>6, <1>8, <1>9, <1>10 DEF Recorded
<1>12. AtFrame(r, o + 1, m)
  BY <1>5, <1>6, <1>9 DEF AtFrame
<1>13. /\ r.start = rec.start /\ r.fresh = rec.fresh /\ r.mouse = rec.mouse /\ r.events = rec.events
       /\ r.truth = truth1 /\ r.coords = coords1
  BY <1>6
<1>14. frame + 1 - r.start = o + 1
  BY <1>2, <1>13
<1> QED BY <1>5, <1>7, <1>11, <1>12, <1>13, <1>14 DEF r

(* At an orderly end nothing is in the way of a recording.                 *)
LEMMA OrderlyEnd ==
    ASSUME RecInv, rec # NoRec, AtFrame(rec, frame - rec.start, machine), ~SameSecond
    PROVE  Finishable
<1> DEFINE o == frame - rec.start
<1>1. rec.start \in 0..frame /\ frame \in Nat /\ Recorded(rec, o) /\ o \in Nat /\ rec.active /\ rec.fresh = TRUE
  <2>1. rec.active
    BY ActiveRec
  <2>2. rec.start \in 0..frame /\ frame \in Nat /\ Recorded(rec, o) /\ rec.fresh = TRUE
    BY DEF RecInv
  <2> QED BY <2>1, <2>2
<1>2. OrdinalOf(frame) = o
  BY <1>1 DEF OrdinalOf
<1>3. Markable(o, machine)
  BY <1>1 DEF Markable, Recorded, AtFrame
<1>4. \A i \in DOMAIN rec.events : rec.events[i].ordinal <= o
  <2>1. DOMAIN rec.events = 1..Len(rec.events)
    BY <1>1, LenProperties DEF Recorded, IsList
  <2>2. \A i \in 1..Len(rec.events) : rec.events[i].ordinal \in 0..o
    BY <1>1 DEF Recorded
  <2> QED BY <1>1, <2>1, <2>2
<1>5. DOMAIN Marked(o, machine).coords = 0..o
  <2>1. Marked(o, machine) = [rec EXCEPT !.coords = Put(rec.coords, o, machine.count),
                                         !.truth = Put(rec.truth, o, machine)]
    BY <1>1, Zenon DEF Marked
  <2>2. Marked(o, machine).coords = Put(rec.coords, o, machine.count)
    BY <1>1, <2>1 DEF Recorded
  <2>3. DOMAIN Put(rec.coords, o, machine.count) = 0..o
    BY <1>1 DEF Put, Recorded
  <2> QED BY <2>2, <2>3
<1> QED BY <1>1, <1>2, <1>3, <1>4, <1>5 DEF Finishable

LEMMA FinishedIs ==
    ASSUME RecInv, rec # NoRec
    PROVE  /\ Finished # NoRecording
           /\ Finished = [end |-> frame - rec.start, base |-> rec.base, events |-> rec.events,
                          coords |-> rec.coords, truth |-> rec.truth]
           /\ Finished.end \in Nat /\ IsMachine(Finished.base)
           /\ \A i \in 0..Finished.end : Finished.coords[i] \in Nat
<1> DEFINE o == frame - rec.start
<1>1. rec.start \in 0..frame /\ frame \in Nat /\ Recorded(rec, o)
  BY DEF RecInv
<1>2. OrdinalOf(frame) = o /\ o \in Nat
  BY <1>1 DEF OrdinalOf
<1>3. Finished = [end |-> o, base |-> rec.base, events |-> rec.events,
                  coords |-> rec.coords, truth |-> rec.truth]
  BY <1>2, Zenon DEF Finished
<1>4. Finished # NoRecording
  <2>1. "truth" \in DOMAIN Finished /\ "truth" \notin DOMAIN NoRecording
    BY <1>3 DEF NoRecording
  <2> QED BY <2>1
<1>5. IsMachine(rec.base) /\ \A i \in 0..o : rec.coords[i] \in Nat
  <2>1. 0 \in 0..o
    BY <1>2
  <2> QED BY <1>1, <2>1 DEF Recorded, IsMachine
<1> QED BY <1>2, <1>3, <1>4, <1>5

LEMMA LaunchRec == RecInv /\ SessionConstants /\ (LaunchLive \/ LaunchReplay) => RecInv'
<1> SUFFICES ASSUME RecInv, LaunchLive \/ LaunchReplay PROVE RecInv'
  OBVIOUS
<1>1. /\ frame' = 0 /\ IsList(sent') /\ lost' = FALSE /\ loop' = "top" /\ saved' = saved
  <2>1. IsList(<<>>)
    BY EmptySeq DEF IsList
  <2> QED BY <2>1 DEF LaunchLive, LaunchReplay, Launch
<1>2. IsMachine(NewMachine)
  BY DEF NewMachine, IsMachine
<1>3. CASE LaunchLive
  <2>1. machine' = NewMachine /\ replaying' = FALSE /\ rec' \in {NoRec, NewRec(TRUE, 0, NewMachine)}
    BY <1>3 DEF LaunchLive
  <2>2. /\ Recorded(NewRec(TRUE, 0, NewMachine), 0) /\ NewRec(TRUE, 0, NewMachine).start = 0
        /\ NewRec(TRUE, 0, NewMachine).fresh = TRUE
        /\ AtFrame(NewRec(TRUE, 0, NewMachine), 0, NewMachine)
    <3>1. 0 \in Nat
      OBVIOUS
    <3>2. \A fresh : LET r == NewRec(fresh, 0, NewMachine)
                     IN  Recorded(r, 0) /\ r.start = 0 /\ r.fresh = fresh /\ AtFrame(r, 0, NewMachine)
      BY <1>2, <3>1, NewRecorded
    <3> QED BY <3>2
  <2>3. rec' # NoRec => /\ rec'.start = 0 /\ Recorded(rec', 0) /\ rec'.fresh = TRUE
                        /\ AtFrame(rec', 0, machine')
    BY <2>1, <2>2
  <2>4. 0 \in Nat /\ 0 - 0 = 0 /\ 0 \in 0..0
    OBVIOUS
  <2> QED BY <1>1, <1>2, <2>1, <2>3, <2>4 DEF RecInv, RecordingKept
<1>4. CASE LaunchReplay
  BY <1>1, <1>4 DEF LaunchReplay, RecInv, RecordingKept
<1> QED BY <1>3, <1>4

(* What input the machine has been given is recorded, or it is not         *)
(* recorded at all.                                                        *)
LEMMA InputRec ==
    ASSUME RecInv, SessionConstants, Pump \/ PumpFails \/ SampleMouse
    PROVE  RecInv'
<1>1. UNCHANGED <<frame, replaying, lost, saved>> /\ ~replaying
  BY DEF Pump, PumpFails, SampleMouse, playVars, endVars, RecInv
<1>2. CASE Pump
  <2>1. /\ IsList(sent') /\ loop' \in {"pump", "frame", "mouse"} /\ failed' = failed
    BY <1>2, PumpSends DEF Pump, RecInv, endVars
  <2>2. CASE sent' = sent
    <3>1. machine' = machine /\ rec' = rec
      BY <1>2, <2>2 DEF Pump
    <3> QED BY <1>1, <2>1, <3>1 DEF RecInv, RecordingKept
  <2>3. CASE sent' # sent
    <3> DEFINE code == sent'[Len(sent')]
    <3>1. machine' = Delivered(machine, code) /\ rec' = IF rec.active THEN Added(code) ELSE rec
      BY <1>2, <2>3 DEF Pump, LiveInput, Scanned
    <3> HIDE DEF code
    <3>2. IsMachine(machine')
      BY <3>1, MachineMoves DEF RecInv
    <3>3. CASE rec = NoRec
      <4>1. rec' = rec
        BY <3>1, <3>3, ActiveRec
      <4> QED BY <1>1, <2>1, <3>2, <3>3, <4>1 DEF RecInv, RecordingKept
    <3>4. CASE rec # NoRec
      <4>1. rec' = Added(code)
        BY <3>1, <3>4, ActiveRec
      <4>2. /\ rec' # NoRec /\ rec'.start = rec.start /\ rec'.fresh = rec.fresh
            /\ Recorded(rec', frame - rec.start)
        BY <3>4, <4>1, AddedRecorded
      <4> QED BY <1>1, <2>1, <3>2, <3>4, <4>2 DEF RecInv, RecordingKept
    <3> QED BY <3>3, <3>4
  <2> QED BY <2>2, <2>3
<1>3. CASE PumpFails
  <2>1. /\ IsList(sent') /\ loop' = "closing" /\ failed' = TRUE /\ rec' = rec
        /\ machine' = Interrupted(machine)
    BY <1>3, PumpSends DEF PumpFails, RecInv
  <2>2. IsMachine(machine')
    BY <2>1, MachineMoves DEF RecInv
  <2> QED BY <1>1, <2>1, <2>2 DEF RecInv, RecordingKept
<1>4. CASE SampleMouse
  <2>1. loop' = "frame" /\ UNCHANGED <<sent, failed>>
    BY <1>4 DEF SampleMouse, keyVars, endVars
  <2>2. CASE rec = NoRec \/ pointer = NoPointer
    <3>1. machine' = machine /\ rec' = rec
      BY <1>4, <2>2, ActiveRec DEF SampleMouse
    <3> QED BY <1>1, <2>1, <3>1 DEF RecInv, RecordingKept
  <2>3. CASE rec # NoRec /\ pointer # NoPointer
    <3>1. rec' = Sampled(pointer) /\ machine' = Pointed(machine, pointer)
      BY <1>4, <2>3, ActiveRec DEF SampleMouse
    <3>2. IsMachine(machine')
      BY <3>1, MachineMoves DEF RecInv
    <3>3. CASE pointer = rec.mouse
      <4>1. rec' = rec
        BY <3>1, <3>3 DEF Sampled
      <4> QED BY <1>1, <2>1, <3>2, <4>1 DEF RecInv, RecordingKept
    <3>4. CASE pointer # rec.mouse
      <4>1. /\ rec' # NoRec /\ rec'.start = rec.start /\ rec'.fresh = rec.fresh
            /\ Recorded(rec', frame - rec.start)
        BY <2>3, <3>1, <3>4, SampledRecorded
      <4> QED BY <1>1, <2>1, <2>3, <3>2, <4>1 DEF RecInv, RecordingKept
    <3> QED BY <3>3, <3>4
  <2> QED BY <2>2, <2>3
<1> QED BY <1>2, <1>3, <1>4

LEMMA FrameRec == ASSUME RecInv, SessionConstants, Frame PROVE RecInv'
<1>1. /\ machine' = Ran(Ticked(machine), StepsPerFrame)
      /\ rec' = Marked(OrdinalOf(frame + 1), machine')
      /\ frame' = frame + 1 /\ loop' = "top" /\ ~replaying
      /\ UNCHANGED <<replaying, failed, lost, saved, sent>>
  BY DEF Frame, playVars, K!Frame, RecInv
<1>2. IsMachine(machine') /\ frame' \in Nat
  BY <1>1, MachineMoves, RunKeeps DEF RecInv, SessionConstants
<1>3. CASE rec = NoRec
  <2>1. rec' = rec
    BY <1>1, <1>3, ActiveRec DEF Marked
  <2> QED BY <1>1, <1>2, <1>3, <2>1 DEF RecInv, RecordingKept
<1>4. CASE rec # NoRec
  <2>1. /\ rec' # NoRec /\ rec'.start = rec.start /\ Recorded(rec', frame + 1 - rec'.start)
        /\ rec'.fresh = rec.fresh /\ AtFrame(rec', frame + 1 - rec'.start, machine')
    BY <1>1, <1>2, <1>4, MarkedRecorded
  <2>2. rec'.start \in 0..frame'
    BY <1>1, <1>4, <2>1 DEF RecInv
  <2> QED BY <1>1, <1>2, <1>4, <2>1, <2>2 DEF RecInv, RecordingKept
<1> QED BY <1>3, <1>4

LEMMA ReplayRec == ASSUME RecInv, SessionConstants, ApplyEvent \/ ReplayFrame PROVE RecInv'
<1>1. /\ UNCHANGED <<rec, replaying, failed, lost, saved, sent>>
      /\ loop = "apply" /\ replaying /\ rec = NoRec /\ saved # NoRecording /\ frame < saved.end
  BY DEF ApplyEvent, ReplayFrame, playVars, endVars, keyVars, RecInv
<1>2. CASE ApplyEvent
  <2> DEFINE input == saved.events[play.cursor + 1].input
  <2>1. /\ machine' = machine \/ machine' = Delivered(machine, input)
        /\ UNCHANGED <<loop, frame>>
    BY <1>2 DEF ApplyEvent
  <2> HIDE DEF input
  <2>2. IsMachine(machine) /\ \A code : IsMachine(Delivered(machine, code))
    BY MachineMoves DEF RecInv
  <2>3. IsMachine(machine')
    BY <2>1, <2>2, Zenon
  <2> QED BY <1>1, <2>1, <2>3 DEF RecInv, RecordingKept
<1>3. CASE ReplayFrame
  <2> DEFINE ticked == Ticked(ReplayedPointer)
             target == saved.coords[frame + 1]
  <2>1. /\ machine' = ticked \/ machine' = RanTo(ticked, target)
        /\ frame' = frame + 1 /\ loop' = "top"
    BY <1>3 DEF ReplayFrame
  <2>2. IsMachine(ReplayedPointer)
    BY MachineMoves DEF ReplayedPointer, RecInv
  <2>3. IsMachine(ticked)
    BY <2>2, MachineMoves
  <2>4. frame + 1 \in 0..saved.end /\ target \in Nat
    BY <1>1 DEF RecInv
  <2> HIDE DEF ticked, target
  <2>5. IsMachine(machine')
    BY <2>1, <2>3, <2>4, RunToKeeps DEF SessionConstants
  <2> QED BY <1>1, <2>1, <2>4, <2>5 DEF RecInv, RecordingKept
<1> QED BY <1>2, <1>3

LEMMA SavingRec == ASSUME RecInv, StopRecording \/ Close PROVE RecInv'
<1>1. UNCHANGED <<machine, frame, replaying, failed, sent>>
  BY DEF StopRecording, Close, playVars, keyVars
<1>2. CASE StopRecording
  <2>1. rec # NoRec /\ loop = "events" /\ lost' = lost
    BY <1>2, ActiveRec DEF StopRecording, Listening
  <2>2. CASE Finishable
    <3>1. rec' = NoRec /\ saved' = Finished /\ loop' = loop
      BY <1>2, <2>2 DEF StopRecording
    <3>2. ~replaying /\ saved'.end \in Nat /\ IsMachine(saved'.base)
          /\ \A i \in 0..saved'.end : saved'.coords[i] \in Nat
      BY <2>1, <3>1, FinishedIs DEF RecInv
    <3> QED BY <1>1, <2>1, <3>1, <3>2 DEF RecInv, RecordingKept
  <2>3. CASE ~Finishable
    <3>1. loop' = "closing" /\ UNCHANGED <<rec, saved>>
      BY <1>2, <2>3 DEF StopRecording
    <3> QED BY <1>1, <2>1, <3>1 DEF RecInv, RecordingKept
  <2> QED BY <2>2, <2>3
<1>3. CASE Close
  <2>1. loop = "closing" /\ loop' = "off"
    BY <1>3 DEF Close
  <2>2. CASE rec = NoRec
    <3>1. UNCHANGED <<rec, saved, lost>>
      BY <1>3, <2>2, ActiveRec DEF Close
    <3> QED BY <1>1, <2>1, <2>2, <3>1 DEF RecInv, RecordingKept
  <2>3. CASE rec # NoRec /\ Finishable
    <3>1. rec' = NoRec /\ saved' = Finished /\ lost' = lost
      BY <1>3, <2>3, ActiveRec DEF Close
    <3>2. ~replaying /\ saved'.end \in Nat /\ IsMachine(saved'.base)
          /\ \A i \in 0..saved'.end : saved'.coords[i] \in Nat
      BY <2>3, <3>1, FinishedIs DEF RecInv
    <3> QED BY <1>1, <2>1, <3>1, <3>2 DEF RecInv, RecordingKept
  <2>4. CASE rec # NoRec /\ ~Finishable
    <3>1. UNCHANGED <<rec, saved>>
      BY <1>3, <2>4, ActiveRec DEF Close
    <3>2. ~SameSecond => failed
      BY <2>1, <2>4, OrderlyEnd DEF RecInv
    <3> QED BY <1>1, <2>1, <3>1, <3>2 DEF RecInv, RecordingKept
  <2> QED BY <2>2, <2>3, <2>4
<1> QED BY <1>2, <1>3

LEMMA LoopRec == ASSUME RecInv, Top \/ Quit \/ NoTick \/ TickLive \/ TickReplay PROVE RecInv'
<1>1. UNCHANGED <<machine, frame, rec, failed, lost, saved>>
  BY DEF Top, Quit, NoTick, TickLive, TickReplay, endVars
<1>2. CASE Top
  <2>1. /\ sent' = sent /\ loop = "top" /\ loop' \in {"closing", "events"}
        /\ (replaying' => replaying)
        /\ (replaying' /\ loop' = "events" => ~PlaybackFinished)
    BY <1>2 DEF Top, keyVars
  <2>2. replaying' /\ loop' = "events" => frame < saved.end
    BY <2>1 DEF PlaybackFinished, RecInv
  <2> QED BY <1>1, <2>1, <2>2 DEF RecInv, RecordingKept
<1>3. CASE Quit
  <2>1. UNCHANGED <<sent, loop, replaying>>
    BY <1>3 DEF Quit, keyVars, playVars
  <2> QED BY <1>1, <2>1 DEF RecInv, RecordingKept
<1>4. CASE NoTick
  <2>1. UNCHANGED <<sent, replaying>> /\ loop = "events" /\ loop' = "top"
    BY <1>4 DEF NoTick, keyVars, playVars
  <2> QED BY <1>1, <2>1 DEF RecInv, RecordingKept
<1>5. CASE TickLive
  <2>1. sent' = <<>> /\ replaying' = replaying /\ ~replaying /\ loop' = "pump"
    BY <1>5 DEF TickLive, Listening, K!Begin, playVars
  <2>2. IsList(<<>>)
    BY EmptySeq DEF IsList
  <2> QED BY <1>1, <2>1, <2>2 DEF RecInv, RecordingKept
<1>6. CASE TickReplay
  <2>1. UNCHANGED <<sent, replaying>> /\ loop = "events" /\ replaying /\ loop' = "apply"
    BY <1>6 DEF TickReplay, keyVars, playVars
  <2> QED BY <1>1, <2>1 DEF RecInv, RecordingKept
<1> QED BY <1>2, <1>3, <1>4, <1>5, <1>6

LEMMA HostRec ==
    ASSUME RecInv,
           \/ \E k \in ScanCode : PressKey(k) \/ LiftKey(k)
           \/ \E p \in Pointer : MoveMouse(p)
           \/ \E fresh \in {TRUE, ~(SameSecond /\ saved # NoRecording)} : StartRecording(fresh)
    PROVE  RecInv'
<1>1. CASE \E k \in ScanCode : PressKey(k) \/ LiftKey(k)
  <2>1. UNCHANGED <<machine, frame, rec, loop, replaying, failed, lost, saved, sent>>
    BY <1>1 DEF PressKey, LiftKey, K!PostDown, K!PostUp, K!gameVars, playVars, endVars
  <2> QED BY <2>1 DEF RecInv, RecordingKept
<1>2. CASE \E p \in Pointer : MoveMouse(p)
  <2>1. PICK p \in Pointer : MoveMouse(p)
    BY <1>2
  <2>2. /\ UNCHANGED <<frame, rec, loop, replaying, failed, lost, saved, sent>>
        /\ machine' = IF rec.active THEN machine ELSE Pointed(machine, p)
    BY <2>1 DEF MoveMouse, playVars, endVars, keyVars
  <2>3. IsMachine(machine') /\ (rec # NoRec => machine' = machine)
    <3>1. CASE rec.active
      BY <2>2, <3>1 DEF RecInv
    <3>2. CASE ~rec.active
      <4>1. machine' = Pointed(machine, p) /\ rec = NoRec
        BY <2>2, <3>2, ActiveRec
      <4> QED BY <4>1, MachineMoves DEF RecInv
    <3> QED BY <3>1, <3>2
  <2> QED BY <2>2, <2>3 DEF RecInv, RecordingKept
<1>3. CASE \E fresh \in {TRUE, ~(SameSecond /\ saved # NoRecording)} : StartRecording(fresh)
  <2>1. PICK fresh : StartRecording(fresh) /\ (~SameSecond => fresh = TRUE)
    BY <1>3
  <2>2. /\ UNCHANGED <<machine, frame, loop, replaying, failed, lost, saved, sent>>
        /\ rec' = NewRec(fresh, frame, machine) /\ ~replaying /\ loop = "events"
    BY <2>1 DEF StartRecording, Listening, playVars, endVars, keyVars
  <2>3. frame \in Nat /\ IsMachine(machine) /\ frame - frame = 0 /\ frame \in 0..frame
    BY DEF RecInv
  <2>4. /\ rec' # NoRec /\ Recorded(rec', 0) /\ rec'.start = frame /\ rec'.fresh = fresh
        /\ AtFrame(rec', 0, machine)
    BY <2>2, <2>3, NewRecorded
  <2> QED BY <2>1, <2>2, <2>3, <2>4 DEF RecInv, RecordingKept
<1> QED BY <1>1, <1>2, <1>3

LEMMA RecStep == RecInv /\ SessionConstants /\ [ViewerNext]_sessionVars => RecInv'
<1> SUFFICES ASSUME RecInv, SessionConstants, [ViewerNext]_sessionVars PROVE RecInv'
  OBVIOUS
<1>1. CASE UNCHANGED sessionVars
  BY <1>1 DEF sessionVars, keyVars, playVars, endVars, RecInv, RecordingKept
<1> QED BY <1>1, LaunchRec, InputRec, FrameRec, ReplayRec, SavingRec, LoopRec, HostRec DEF ViewerNext

LEMMA RecInit == ViewerInit => RecInv
<1> SUFFICES ASSUME ViewerInit PROVE RecInv
  OBVIOUS
<1>1. IsMachine(NewMachine) /\ IsList(<<>>)
  BY EmptySeq DEF NewMachine, IsMachine, IsList
<1>2. /\ machine = NewMachine /\ frame = 0 /\ rec = NoRec /\ replaying = FALSE /\ loop = "off"
      /\ lost = FALSE /\ saved = NoRecording /\ sent = <<>>
  BY DEF ViewerInit, K!KeysInit
<1>3. NoRecording.end = 0 /\ NoRecording.base = NewMachine
  BY DEF NoRecording
<1> QED BY <1>1, <1>2, <1>3 DEF RecInv, RecordingKept

(* A recording is not lost by an orderly end of its session: wherever it   *)
(* is stopped, its last point can be marked, no input lies behind it, and  *)
(* all the points before have been marked (run_view's recorder and         *)
(* ReplayRecording.finish).                                                *)
THEOREM RecordingsKept ==
    ASSUME SessionConstants, ~SameSecond PROVE ViewerSpec => []RecordingKept
<1>1. RecInv => RecordingKept
  BY DEF RecInv
<1> QED BY <1>1, RecInit, RecStep, PTL DEF ViewerSpec
-----------------------------------------------------------------------------
(* The keys.                                                               *)

(* Each step of a session is one of its dispatcher, or none of it; a new   *)
(* process has a new one.                                                  *)
LEMMA DispatcherSteps == [ViewerNext]_sessionVars => KP!KeysInit' \/ [KP!KeysNext]_KP!keyVars
<1> USE DEF K!dispatcherVars, K!pumpVars, K!gameVars, K!userVars,
            KP!dispatcherVars, KP!pumpVars, KP!gameVars, KP!userVars
<1> SUFFICES ASSUME ViewerNext, ~KP!KeysInit', ~UNCHANGED keyVars PROVE KP!KeysNext
  BY DEF sessionVars, keyVars, KP!keyVars
<1>1. ASSUME NEW k \in ScanCode, PressKey(k) \/ LiftKey(k) PROVE KP!KeysNext
  <2>1. KP!PostDown(k) \/ KP!PostUp(k)
    BY <1>1 DEF PressKey, LiftKey, K!PostDown, K!PostUp, KP!PostDown, KP!PostUp
  <2> QED BY <2>1 DEF KP!KeysNext
<1>2. CASE TickLive
  <2>1. KP!Begin("pump") /\ "pump" \in Mode
    BY <1>2 DEF TickLive, K!Begin, KP!Begin, Mode
  <2> QED BY <2>1 DEF KP!KeysNext
<1>3. CASE Frame
  <2>1. KP!Frame
    BY <1>3 DEF Frame, K!Frame, KP!Frame
  <2> QED BY <2>1 DEF KP!KeysNext, KP!Pumping
<1>4. CASE PumpStep
  <2> USE DEF K!Make, K!Break, KP!Make, KP!Break
  <2>1. CASE K!Drain
    <3>1. KP!Drain
      BY <2>1 DEF K!Drain, K!Down, K!Up, KP!Drain, KP!Down, KP!Up
    <3> QED BY <3>1 DEF KP!KeysNext, KP!Pumping
  <2>2. CASE K!Drained
    <3>1. KP!Drained
      BY <2>2 DEF K!Drained, KP!Drained
    <3> QED BY <3>1 DEF KP!KeysNext, KP!Pumping
  <2>3. CASE K!ReleaseReady
    <3>1. KP!ReleaseReady
      BY <2>3 DEF K!ReleaseReady, K!Released, K!Ready, KP!ReleaseReady, KP!Released, KP!Ready
    <3> QED BY <3>1 DEF KP!KeysNext, KP!Pumping
  <2>4. CASE K!ReleaseDone
    <3>1. KP!ReleaseDone
      BY <2>4 DEF K!ReleaseDone, KP!ReleaseDone
    <3> QED BY <3>1 DEF KP!KeysNext, KP!Pumping
  <2>5. CASE K!Age
    <3>1. KP!Age
      BY <2>5 DEF K!Age, K!AgedNow, KP!Age, KP!AgedNow
    <3> QED BY <3>1 DEF KP!KeysNext, KP!Pumping
  <2> QED BY <1>4, <2>1, <2>2, <2>3, <2>4, <2>5 DEF PumpStep
<1>5. ~Launch
  BY DEF Launch, KP!KeysInit
<1> QED BY <1>1, <1>2, <1>3, <1>4, <1>5
        DEF ViewerNext, LaunchLive, LaunchReplay, Top, MoveMouse, StartRecording, StopRecording, Quit,
            NoTick, TickReplay, Pump, PumpFails, SampleMouse, ApplyEvent, ReplayFrame, Close

(* The machine's key-state table is the one the dispatcher's game has, as  *)
(* long as no delivery failed and no playback was handed over.             *)
TableInv == /\ play = [open |-> play.open, cursor |-> play.cursor, mouse |-> play.mouse]
            /\ ~play.open => ~replaying
            /\ ~play.open /\ loop \notin {"off", "closing"} => machine.table = table

KeysInv == KP!Inv /\ KP!Queue /\ TableInv

LEMMA TableStep == RecInv /\ SessionConstants /\ TableInv /\ [ViewerNext]_sessionVars => TableInv'
<1> SUFFICES ASSUME RecInv, SessionConstants, TableInv, [ViewerNext]_sessionVars PROVE TableInv'
  OBVIOUS
<1>1. CASE UNCHANGED sessionVars
  BY <1>1 DEF sessionVars, keyVars, playVars, TableInv
<1>2. CASE LaunchLive
  BY <1>2 DEF LaunchLive, Launch, NewMachine, NoPlayback, TableInv
<1>3. CASE LaunchReplay
  <2>1. play' = [NoPlayback EXCEPT !.open = TRUE]
    BY <1>3 DEF LaunchReplay
  <2>2. play' = [open |-> TRUE, cursor |-> 0, mouse |-> NoPointer]
    BY <2>1 DEF NoPlayback
  <2>3. play'.open = TRUE
    BY <2>2
  <2> QED BY <2>2, <2>3 DEF TableInv
<1>4. CASE Top \/ Quit \/ NoTick \/ TickReplay \/ StopRecording \/ Close
  <2>1. UNCHANGED <<play, machine, table>>
    BY <1>4 DEF Top, Quit, NoTick, TickReplay, StopRecording, Close, playVars, keyVars
  <2>2. replaying' => replaying
    <3>1. CASE Top
      BY <3>1, Zenon DEF Top
    <3>2. CASE Quit \/ NoTick \/ TickReplay \/ StopRecording \/ Close
      BY <3>2 DEF Quit, NoTick, TickReplay, StopRecording, Close, playVars
    <3> QED BY <1>4, <3>1, <3>2
  <2>3. loop' \notin {"off", "closing"} => loop \notin {"off", "closing"}
    BY <1>4 DEF Top, Quit, NoTick, TickReplay, StopRecording, Listening, Close
  <2>4. play'.open = play.open
    BY <2>1
  <2> QED BY <2>1, <2>2, <2>3, <2>4, Zenon DEF TableInv
<1>5. CASE TickLive \/ (\E k \in ScanCode : PressKey(k) \/ LiftKey(k))
           \/ (\E fresh \in {TRUE, ~(SameSecond /\ saved # NoRecording)} : StartRecording(fresh))
  <2>1. UNCHANGED <<play, machine, table, replaying>> /\ loop = "events"
    BY <1>5 DEF TickLive, PressKey, LiftKey, StartRecording, Listening, playVars, keyVars,
                K!Begin, K!PostDown, K!PostUp, K!gameVars
  <2> QED BY <2>1 DEF TableInv
<1>6. CASE \E p \in Pointer : MoveMouse(p)
  <2>1. PICK p \in Pointer : MoveMouse(p)
    BY <1>6
  <2>2. /\ UNCHANGED <<play, table, replaying>> /\ loop = "events"
        /\ machine' = IF rec.active THEN machine ELSE Pointed(machine, p)
    BY <2>1 DEF MoveMouse, Listening, playVars, keyVars
  <2>3. Pointed(machine, p).table = machine.table
    BY MachineMoves DEF RecInv
  <2>4. machine'.table = machine.table
    BY <2>2, <2>3
  <2> QED BY <2>2, <2>4 DEF TableInv
<1>7. CASE Pump
  <2>1. UNCHANGED <<play, replaying>> /\ loop = "pump"
    BY <1>7 DEF Pump, playVars
  <2>2. machine.table = table => machine'.table = table'
    <3>1. CASE sent' = sent
      <4>1. machine' = machine /\ PumpStep /\ IsList(sent)
        BY <1>7, <3>1 DEF Pump, RecInv
      <4>2. table' = table
        BY <3>1, <4>1, PumpSends
      <4> QED BY <4>1, <4>2
    <3>2. CASE sent' # sent
      <4> DEFINE code == sent'[Len(sent')]
      <4>1. machine' = Delivered(machine, code) /\ PumpStep /\ IsList(sent)
        BY <1>7, <3>2 DEF Pump, LiveInput, RecInv
      <4>2. table' = Typed(table, code)
        BY <3>2, <4>1, PumpSends
      <4> HIDE DEF code
      <4>3. Delivered(machine, code).table = Typed(machine.table, code)
        BY MachineMoves DEF RecInv, Typed
      <4> QED BY <4>1, <4>2, <4>3, Zenon
    <3> QED BY <3>1, <3>2
  <2> QED BY <2>1, <2>2 DEF TableInv
<1>8. CASE PumpFails
  BY <1>8 DEF PumpFails, TableInv, playVars
<1>9. CASE SampleMouse
  <2>1. /\ UNCHANGED <<play, table, replaying>> /\ loop = "mouse"
        /\ machine' = machine \/ machine' = Pointed(machine, pointer)
    BY <1>9 DEF SampleMouse, playVars, keyVars
  <2>2. Pointed(machine, pointer).table = machine.table
    BY MachineMoves DEF RecInv
  <2>3. machine'.table = machine.table
    BY <2>1, <2>2
  <2> QED BY <2>1, <2>3 DEF TableInv
<1>10. CASE Frame
  <2>1. /\ UNCHANGED <<play, table, replaying>> /\ loop = "frame"
        /\ machine' = Ran(Ticked(machine), StepsPerFrame)
    BY <1>10 DEF Frame, K!Frame, playVars
  <2>2. machine'.table = machine.table
    BY <2>1, MachineMoves, RunKeeps DEF RecInv, SessionConstants
  <2> QED BY <2>1, <2>2 DEF TableInv
<1>11. CASE ApplyEvent \/ ReplayFrame
  <2>1. replaying /\ replaying' = replaying
    BY <1>11 DEF ApplyEvent, ReplayFrame, playVars, RecInv
  <2>2. play.open
    BY <2>1 DEF TableInv
  <2>3. play'.open = play.open /\ play' = [open |-> play'.open, cursor |-> play'.cursor, mouse |-> play'.mouse]
    <3>1. CASE ApplyEvent
      <4>1. PICK c, x : play' = [play EXCEPT !.cursor = c, !.mouse = x] \/ play' = [play EXCEPT !.cursor = c]
        BY <3>1, Zenon DEF ApplyEvent
      <4> QED BY <4>1 DEF TableInv
    <3>2. CASE ReplayFrame
      BY <3>2 DEF ReplayFrame, playVars, TableInv
    <3> QED BY <1>11, <3>1, <3>2
  <2> QED BY <2>2, <2>3 DEF TableInv
<1> QED BY <1>1, <1>2, <1>3, <1>4, <1>5, <1>6, <1>7, <1>8, <1>9, <1>10, <1>11 DEF ViewerNext

LEMMA NewDispatcher == KP!KeysInit' => (KP!Inv /\ KP!Queue)'
  BY DEF KP!KeysInit, KP!Inv, KP!Queue, KP!KeysTypeOK, KP!TablesAgree, KP!WantedQueued, KP!WantedApplied

(* Whenever all events have come through, the keys down in the game are    *)
(* those the player holds, in sessions that no recording was played in:    *)
(* recording or not, and however frames, posts, ticks and F11 interleave   *)
(* (run_view with KeyDispatcher and deliver_scancode).                     *)
THEOREM KeysReachTheGame == ASSUME SessionConstants PROVE ViewerSpec => []KeysFollow
<1>1. ViewerInit => KeysInv
  <2>1. ViewerInit => KP!KeysInit
    BY DEF ViewerInit, K!KeysInit, KP!KeysInit
  <2>2. ViewerInit => TableInv
    BY DEF ViewerInit, NoPlayback, TableInv
  <2> QED BY <2>1, <2>2, KP!InitInv DEF KeysInv
<1>2. RecInv /\ KeysInv /\ [ViewerNext]_sessionVars => KeysInv'
  <2> SUFFICES ASSUME RecInv, KeysInv, [ViewerNext]_sessionVars PROVE KeysInv'
    OBVIOUS
  <2>1. TableInv'
    BY TableStep DEF KeysInv
  <2>2. CASE KP!KeysInit'
    <3>1. (KP!Inv /\ KP!Queue)'
      BY <2>2, NewDispatcher
    <3> QED BY <2>1, <3>1 DEF KeysInv
  <2>3. CASE [KP!KeysNext]_KP!keyVars
    BY <2>1, <2>3, KP!NextInv, KP!NextQueue DEF KeysInv
  <2> QED BY <2>2, <2>3, DispatcherSteps
<1>3. KeysInv => KeysFollow
  <2> SUFFICES ASSUME KeysInv, loop = "events", ~play.open, K!AtRest
               PROVE  machine.table = wanted
    BY DEF KeysFollow
  <2>1. KP!AtRest
    BY DEF K!AtRest, KP!AtRest
  <2>2. table = wanted
    BY <2>1, KP!QueueRests DEF KP!RestingTable, KeysInv
  <2> QED BY <2>2 DEF KeysInv, TableInv
<1> QED BY <1>1, <1>2, <1>3, RecInit, RecStep, PTL DEF ViewerSpec
-----------------------------------------------------------------------------
(* The playback, where no device interrupts between frames.                *)

(* es are the events of a recording, ms and cs the machine and its         *)
(* coordinate at each of its points; w and q are the machine and the       *)
(* pointer after each event.                                               *)
From(es, ms, w, i, j) == IF j > 0 /\ es[j].ordinal = i THEN w[j] ELSE ms[i]

PointedBy(p, m) == IF p = NoPointer THEN m ELSE Pointed(m, p)

(* What an input makes of a machine and a pointer.                         *)
Makes(input, m, p, m1, p1) ==
    /\ input.kind = "mouse" => m1 = m /\ p1 = input.code
    /\ input.kind # "mouse" => m1 = Delivered(m, input) /\ p1 = p

(* An event acts on the machine that the ones before it in its frame, or   *)
(* the frame before, left.                                                 *)
Follows(es, ms, w, q, j) ==
    Makes(es[j].input, From(es, ms, w, es[j].ordinal, j - 1), q[j - 1], w[j], q[j])

(* The first j events are those of the frames up to i.                     *)
Upto(es, i, j) == j \in 0..Len(es) /\ \A k \in 1..Len(es) : k <= j <=> es[k].ordinal <= i

(* A frame that is run to its coordinate, after its events and the last    *)
(* sample of the mouse, ends at its point.                                 *)
Framed(m, p, next, count) == LET t == Ticked(PointedBy(p, m))
                             IN  t.count <= count /\ next = RanTo(t, count)

Replays(es, ms, cs, o, w, q) ==
    /\ q[0] = NoPointer
    /\ \A j \in 1..Len(es) : Follows(es, ms, w, q, j)
    /\ \A j \in 1..Len(es), k \in 1..Len(es) : j <= k => es[j].ordinal <= es[k].ordinal
    /\ \A i \in 0..o - 1 : \A j \in 0..Len(es) :
           Upto(es, i, j) => Framed(From(es, ms, w, i, j), q[j], ms[i + 1], cs[i + 1])

(* ... and m and p are the machine and the pointer after all events.       *)
Playable(es, ms, cs, o, m, p) ==
    \E w, q : Replays(es, ms, cs, o, w, q) /\ From(es, ms, w, o, Len(es)) = m /\ q[Len(es)] = p

(* What is recorded can be played.                                         *)
RecReplays ==
    rec # NoRec =>
        /\ pointer = NoPointer => rec.mouse = NoPointer
        /\ \E m : /\ Playable(rec.events, rec.truth, rec.coords, frame - rec.start, m, rec.mouse)
                  /\ loop \in {"top", "events", "pump", "mouse"} => machine = m
                  /\ loop = "frame" => machine = PointedBy(rec.mouse, m)

(* What is played is where the recording was.                              *)
Playing(w, q) ==
    replaying =>
        /\ loop \in {"top", "events"} =>
               /\ machine = saved.truth[frame]
               /\ play.cursor \in 0..Len(saved.events) /\ play.mouse = q[play.cursor]
               /\ \A k \in 1..Len(saved.events) : k <= play.cursor <=> saved.events[k].ordinal < frame
        /\ loop = "apply" =>
               /\ machine = From(saved.events, saved.truth, w, frame, play.cursor)
               /\ play.cursor \in 0..Len(saved.events) /\ play.mouse = q[play.cursor]
               /\ \A k \in 1..Len(saved.events) :
                     /\ k <= play.cursor => saved.events[k].ordinal <= frame
                     /\ k > play.cursor => saved.events[k].ordinal >= frame

SavedReplays ==
    saved # NoRecording =>
        /\ IsList(saved.events) /\ \A j \in 1..Len(saved.events) : saved.events[j].ordinal \in Nat
        /\ saved.truth[0] = saved.base
        /\ \E w, q : Replays(saved.events, saved.truth, saved.coords, saved.end, w, q) /\ Playing(w, q)

(* A new recording can be played, and one more event leaves it so.         *)
LEMMA NewReplays ==
    ASSUME NEW ms, NEW cs PROVE Playable(<<>>, ms, cs, 0, ms[0], NoPointer)
<1> DEFINE f == [j \in {0} |-> NoPointer]
<1>1. Len(<<>>) = 0 /\ f[0] = NoPointer
  OBVIOUS
<1>2. Replays(<<>>, ms, cs, 0, f, f)
  <2>1. \A j \in 1..Len(<<>>) : FALSE
    BY <1>1
  <2>2. \A i \in 0..0 - 1 : FALSE
    OBVIOUS
  <2> HIDE DEF f
  <2> QED BY <1>1, <2>1, <2>2 DEF Replays
<1>3. From(<<>>, ms, f, 0, 0) = ms[0]
  BY DEF From
<1> QED BY <1>1, <1>2, <1>3 DEF Playable

Within(es, o) == Len(es) \in Nat /\ \A j \in 1..Len(es) : es[j].ordinal \in 0..o

OneMore(es, es1, input, o) ==
    /\ Len(es1) = Len(es) + 1 /\ \A j \in 1..Len(es) : es1[j] = es[j]
    /\ es1[Len(es) + 1].ordinal = o /\ es1[Len(es) + 1].input = input

LEMMA EventReplays ==
    ASSUME NEW es, NEW es1, NEW ms, NEW cs, NEW o \in Nat, NEW input,
           NEW m0, NEW p0, NEW m, NEW p,
           Playable(es, ms, cs, o, m0, p0), Within(es, o), OneMore(es, es1, input, o),
           Makes(input, m0, p0, m, p)
    PROVE  Playable(es1, ms, cs, o, m, p)
<1>0. PICK w, q : Replays(es, ms, cs, o, w, q) /\ From(es, ms, w, o, Len(es)) = m0 /\ q[Len(es)] = p0
  BY DEF Playable
<1> USE <1>0
<1> DEFINE L == Len(es)
           w1 == [j \in 0..L + 1 |-> IF j = L + 1 THEN m ELSE w[j]]
           q1 == [j \in 0..L + 1 |-> IF j = L + 1 THEN p ELSE q[j]]
<1>1. /\ w1[L + 1] = m /\ q1[L + 1] = p
      /\ \A j \in 0..L : w1[j] = w[j] /\ q1[j] = q[j]
  OBVIOUS
<1> HIDE DEF w1, q1
<1> USE DEF Within, OneMore
<1>2. \A i : \A j \in 0..L : From(es1, ms, w1, i, j) = From(es, ms, w, i, j)
  <2> TAKE i
  <2> TAKE j \in 0..L
  <2>1. j > 0 => es1[j] = es[j]
    OBVIOUS
  <2>2. w1[j] = w[j]
    BY <1>1
  <2> QED BY <2>1, <2>2 DEF From
<1>3. From(es1, ms, w1, o, L + 1) = m
  BY <1>1 DEF From
<1>4. \A j \in 1..L + 1 : Follows(es1, ms, w1, q1, j)
  <2> TAKE j \in 1..L + 1
  <2>1. CASE j \in 1..L
    <3>1. Follows(es, ms, w, q, j) /\ es1[j] = es[j]
      BY <2>1 DEF Replays
    <3>2. j - 1 \in 0..L /\ j \in 0..L
      BY <2>1
    <3>3. w1[j] = w[j] /\ q1[j] = q[j] /\ q1[j - 1] = q[j - 1]
      BY <1>1, <3>2
    <3>4. From(es1, ms, w1, es[j].ordinal, j - 1) = From(es, ms, w, es[j].ordinal, j - 1)
      BY <1>2, <3>2
    <3> QED BY <3>1, <3>3, <3>4 DEF Follows
  <2>2. CASE j = L + 1
    <3>1. j - 1 = L /\ L \in 0..L
      BY <2>2
    <3>2. q1[L] = q[L] /\ From(es1, ms, w1, o, L) = From(es, ms, w, o, L)
      BY <1>1, <1>2, <3>1
    <3> QED BY <1>1, <2>2, <3>1, <3>2 DEF Follows
  <2> QED BY <2>1, <2>2
<1>5. ASSUME NEW j \in 1..L + 1, NEW k \in 1..L + 1, j <= k
      PROVE  es1[j].ordinal <= es1[k].ordinal
  <2>1. CASE k \in 1..L
    <3>1. j \in 1..L
      BY <1>5, <2>1
    <3>2. es[j].ordinal <= es[k].ordinal
      BY <1>5, <2>1, <3>1 DEF Replays
    <3> QED BY <2>1, <3>1, <3>2
  <2>2. CASE k = L + 1 /\ j \in 1..L
    <3>1. es[j].ordinal \in 0..o
      BY <2>2
    <3> QED BY <2>2, <3>1
  <2>3. CASE k = L + 1 /\ j = L + 1
    BY <2>3
  <2> QED BY <1>5, <2>1, <2>2, <2>3
<1>6. ASSUME NEW i \in 0..o - 1, NEW j \in 0..L + 1, Upto(es1, i, j)
      PROVE  Framed(From(es1, ms, w1, i, j), q1[j], ms[i + 1], cs[i + 1])
  <2>1. j \in 0..L
    BY <1>6 DEF Upto
  <2>2. Upto(es, i, j)
    <3>1. \A k \in 1..L : k <= j <=> es1[k].ordinal <= i
      BY <1>6 DEF Upto
    <3> QED BY <2>1, <3>1 DEF Upto
  <2>3. Framed(From(es, ms, w, i, j), q[j], ms[i + 1], cs[i + 1])
    BY <2>1, <2>2 DEF Replays
  <2> QED BY <1>1, <1>2, <2>1, <2>3
<1>7. Replays(es1, ms, cs, o, w1, q1)
  <2>1. q1[0] = NoPointer
    BY <1>1 DEF Replays
  <2> QED BY <1>4, <1>5, <1>6, <2>1 DEF Replays
<1> QED BY <1>1, <1>3, <1>7 DEF Playable

(* A frame that is run leaves it so.                                       *)
OnePoint(ms, cs, ms1, cs1, o, m) ==
    /\ \A i \in 0..o : ms1[i] = ms[i] /\ cs1[i] = cs[i]
    /\ ms1[o + 1] = m /\ cs1[o + 1] = m.count

LEMMA FrameReplays ==
    ASSUME IrqAt = {},
           NEW es, NEW ms, NEW cs, NEW ms1, NEW cs1, NEW o \in Nat,
           NEW m0, NEW p, NEW m, NEW k \in Nat, IsMachine(m),
           Playable(es, ms, cs, o, m0, p), Within(es, o), m = PointedBy(p, m0),
           OnePoint(ms, cs, ms1, cs1, o, Ran(Ticked(m), k))
    PROVE  Playable(es, ms1, cs1, o + 1, ms1[o + 1], p)
<1>0. PICK w, q : Replays(es, ms, cs, o, w, q) /\ From(es, ms, w, o, Len(es)) = m0 /\ q[Len(es)] = p
  BY DEF Playable
<1> USE <1>0
<1> DEFINE L == Len(es)
<1> USE DEF Within, OnePoint
<1>1. \A i \in 0..o : \A j : From(es, ms1, w, i, j) = From(es, ms, w, i, j)
  BY DEF From
<1>2. \A j \in 1..L : Follows(es, ms1, w, q, j)
  <2> TAKE j \in 1..L
  <2>1. Follows(es, ms, w, q, j) /\ es[j].ordinal \in 0..o
    BY DEF Replays
  <2>2. From(es, ms1, w, es[j].ordinal, j - 1) = From(es, ms, w, es[j].ordinal, j - 1)
    BY <1>1, <2>1
  <2> QED BY <2>1, <2>2 DEF Follows
<1>3. ASSUME NEW i \in 0..o, NEW j \in 0..L, Upto(es, i, j)
      PROVE  Framed(From(es, ms1, w, i, j), q[j], ms1[i + 1], cs1[i + 1])
  <2>1. CASE i < o
    <3>1. i \in 0..o - 1 /\ i + 1 \in 0..o
      BY <2>1
    <3>2. Framed(From(es, ms, w, i, j), q[j], ms[i + 1], cs[i + 1])
      BY <1>3, <3>1 DEF Replays
    <3>3. ms1[i + 1] = ms[i + 1] /\ cs1[i + 1] = cs[i + 1]
      BY <3>1
    <3> QED BY <1>1, <3>2, <3>3
  <2>2. CASE i = o
    <3>1. j = L
      <4>1. CASE L = 0
        BY <4>1
      <4>2. CASE L > 0
        <5>1. L \in 1..L
          BY <4>2
        <5>2. es[L].ordinal <= i
          BY <2>2, <5>1
        <5> QED BY <1>3, <5>1, <5>2 DEF Upto
      <4> QED BY <4>1, <4>2
    <3>2. PointedBy(q[j], From(es, ms1, w, i, j)) = m
      <4>1. o \in 0..o
        OBVIOUS
      <4> QED BY <1>1, <2>2, <3>1, <4>1
    <3>3. IsMachine(Ticked(m))
      BY MachineMoves
    <3>4. Ticked(m).count <= cs1[o + 1] /\ ms1[o + 1] = RanTo(Ticked(m), cs1[o + 1])
      BY <3>3, RunKeeps
    <3> QED BY <2>2, <3>2, <3>4 DEF Framed
  <2> QED BY <2>1, <2>2
<1>4. o + 1 - 1 = o
  OBVIOUS
<1>5. /\ q[0] = NoPointer
      /\ \A j \in 1..L, j2 \in 1..L : j <= j2 => es[j].ordinal <= es[j2].ordinal
  BY DEF Replays
<1>6. Replays(es, ms1, cs1, o + 1, w, q)
  BY <1>2, <1>3, <1>4, <1>5 DEF Replays
<1>7. From(es, ms1, w, o + 1, L) = ms1[o + 1]
  BY DEF From
<1> QED BY <1>6, <1>7 DEF Playable

(* What is recorded can be played: step by step.                           *)
LEMMA PumpReplays ==
    ASSUME RecInv, RecReplays, Pump, rec # NoRec PROVE RecReplays'
<1> DEFINE es == rec.events
           ms == rec.truth
           cs == rec.coords
           o == frame - rec.start
<1>1. Playable(es, ms, cs, o, machine, rec.mouse) /\ (pointer = NoPointer => rec.mouse = NoPointer)
  BY DEF RecReplays, Pump
<1>2. UNCHANGED <<frame, pointer>> /\ loop' \in {"pump", "mouse"}
  BY DEF Pump
<1>3. CASE sent' = sent
  <2>1. UNCHANGED <<machine, rec>>
    BY <1>3 DEF Pump
  <2> QED BY <1>1, <1>2, <2>1 DEF RecReplays
<1>4. CASE sent' # sent
  <2> DEFINE code == sent'[Len(sent')]
             es1 == rec'.events
  <2>1. machine' = Delivered(machine, code) /\ rec' = Added(code) /\ code.kind # "mouse"
    BY <1>4, ActiveRec, PumpSends DEF Pump, LiveInput, Scanned, RecInv
  <2> HIDE DEF code
  <2>2. /\ rec'.start = rec.start /\ rec'.mouse = rec.mouse /\ rec'.truth = ms /\ rec'.coords = cs
        /\ Len(es1) = Len(es) + 1 /\ es1[Len(es) + 1] = [ordinal |-> o, input |-> code]
        /\ \A i \in 1..Len(es) : es1[i] = es[i]
    BY <2>1, AddedRecorded
  <2>3. o \in Nat /\ Within(es, o)
    BY Grown DEF RecInv, Recorded, Within
  <2>4. OneMore(es, es1, code, o)
    BY <2>2 DEF OneMore
  <2>5. Makes(code, machine, rec.mouse, machine', rec.mouse)
    BY <2>1 DEF Makes
  <2>6. Playable(es1, ms, cs, o, machine', rec.mouse)
    <3> HIDE DEF es, es1, ms, cs, o
    <3> QED BY <1>1, <2>3, <2>4, <2>5, EventReplays
  <2> QED BY <1>1, <1>2, <2>2, <2>6 DEF RecReplays
<1> QED BY <1>3, <1>4

LEMMA SampleReplays ==
    ASSUME RecInv, RecReplays, SampleMouse, rec # NoRec PROVE RecReplays'
<1> DEFINE es == rec.events
           ms == rec.truth
           cs == rec.coords
           o == frame - rec.start
<1>1. Playable(es, ms, cs, o, machine, rec.mouse) /\ (pointer = NoPointer => rec.mouse = NoPointer)
  BY DEF RecReplays, SampleMouse
<1>2. UNCHANGED <<frame, pointer>> /\ loop' = "frame"
  BY DEF SampleMouse
<1>3. CASE pointer = NoPointer
  <2>1. UNCHANGED <<machine, rec>> /\ machine = PointedBy(rec.mouse, machine)
    BY <1>1, <1>3 DEF SampleMouse, PointedBy
  <2> QED BY <1>1, <1>2, <2>1 DEF RecReplays
<1>4. CASE pointer # NoPointer
  <2>1. rec' = Sampled(pointer) /\ machine' = PointedBy(pointer, machine)
    BY <1>4, ActiveRec DEF SampleMouse, PointedBy
  <2>2. CASE pointer = rec.mouse
    <3>1. rec' = rec
      BY <2>1, <2>2 DEF Sampled
    <3> QED BY <1>1, <1>2, <2>1, <2>2, <3>1 DEF RecReplays
  <2>3. CASE pointer # rec.mouse
    <3> DEFINE input == [kind |-> "mouse", code |-> pointer]
               es1 == rec'.events
    <3>1. /\ rec'.start = rec.start /\ rec'.mouse = pointer /\ rec'.truth = ms /\ rec'.coords = cs
          /\ Len(es1) = Len(es) + 1 /\ es1[Len(es) + 1] = [ordinal |-> o, input |-> input]
          /\ \A i \in 1..Len(es) : es1[i] = es[i]
      BY <2>1, <2>3, SampledRecorded
    <3>2. o \in Nat /\ Within(es, o)
      BY Grown DEF RecInv, Recorded, Within
    <3>3. OneMore(es, es1, input, o)
      BY <3>1 DEF OneMore
    <3>4. Makes(input, machine, rec.mouse, machine, pointer)
      BY DEF Makes
    <3>5. Playable(es1, ms, cs, o, machine, pointer)
      <4> HIDE DEF es, es1, ms, cs, o, input
      <4> QED BY <1>1, <3>2, <3>3, <3>4, EventReplays
    <3> QED BY <1>2, <1>4, <2>1, <3>1, <3>5 DEF RecReplays
  <2> QED BY <2>2, <2>3
<1> QED BY <1>3, <1>4

LEMMA RunReplays ==
    ASSUME RecInv, SessionConstants, IrqAt = {}, RecReplays, Frame, rec # NoRec PROVE RecReplays'
<1> DEFINE es == rec.events
           ms == rec.truth
           cs == rec.coords
           o == frame - rec.start
           ms1 == rec'.truth
           cs1 == rec'.coords
<1>1. /\ machine' = Ran(Ticked(machine), StepsPerFrame) /\ StepsPerFrame \in Nat
      /\ rec' = Marked(OrdinalOf(frame + 1), machine')
      /\ frame' = frame + 1 /\ loop' = "top" /\ pointer' = pointer
      /\ (pointer = NoPointer => rec.mouse = NoPointer)
  BY DEF Frame, SessionConstants, RecReplays
<1>2. PICK m : Playable(es, ms, cs, o, m, rec.mouse) /\ machine = PointedBy(rec.mouse, m)
  BY DEF RecReplays, Frame
<1>3. IsMachine(machine) /\ IsMachine(machine')
  BY <1>1, MachineMoves, RunKeeps DEF RecInv
<1>4. /\ rec'.start = rec.start /\ rec'.mouse = rec.mouse /\ rec'.events = es
      /\ ms1[o + 1] = machine' /\ cs1[o + 1] = machine'.count
      /\ \A i \in 0..o : ms1[i] = ms[i] /\ cs1[i] = cs[i]
  BY <1>1, <1>3, MarkedRecorded
<1>5. o \in Nat /\ frame' - rec'.start = o + 1 /\ Within(es, o)
  <2>1. o \in Nat /\ Within(es, o)
    BY Grown DEF RecInv, Recorded, Within
  <2>2. frame \in Nat /\ rec.start \in 0..frame
    BY DEF RecInv
  <2> QED BY <1>1, <1>4, <2>1, <2>2
<1>6. OnePoint(ms, cs, ms1, cs1, o, Ran(Ticked(machine), StepsPerFrame))
  BY <1>1, <1>4 DEF OnePoint
<1>7. Playable(es, ms1, cs1, o + 1, ms1[o + 1], rec.mouse)
  <2> HIDE DEF es, o, ms1, cs1, ms, cs
  <2> QED BY <1>1, <1>2, <1>3, <1>5, <1>6, FrameReplays
<1> QED BY <1>1, <1>4, <1>5, <1>7 DEF RecReplays

LEMMA NewRecReplays ==
    ASSUME RecInv, LaunchLive \/ LaunchReplay
                   \/ \E fresh \in {TRUE, ~(SameSecond /\ saved # NoRecording)} : StartRecording(fresh)
    PROVE  RecReplays'
<1>1. CASE rec' = NoRec
  BY <1>1 DEF RecReplays
<1>2. CASE rec' # NoRec
  <2>1. PICK fresh : rec' = NewRec(fresh, frame', machine')
    BY <1>2 DEF LaunchLive, LaunchReplay, Launch, StartRecording
  <2>2. IsMachine(machine') /\ frame' \in Nat
    <3>1. IsMachine(NewMachine) /\ 0 \in Nat
      BY DEF NewMachine, IsMachine
    <3> QED BY <1>2, <3>1 DEF LaunchLive, LaunchReplay, Launch, StartRecording, RecInv
  <2>3. /\ rec'.start = frame' /\ rec'.mouse = NoPointer /\ rec'.events = <<>> /\ rec'.truth[0] = machine'
    BY <2>1 DEF NewRec
  <2>4. Playable(rec'.events, rec'.truth, rec'.coords, frame' - rec'.start, machine', rec'.mouse)
    <3> DEFINE ms == rec'.truth
               cs == rec'.coords
    <3>1. frame' - rec'.start = 0
      <4>1. \A i \in Nat : i - i = 0
        OBVIOUS
      <4>2. frame' - frame' = 0
        BY <2>2, <4>1, Zenon
      <4> QED BY <2>3, <4>2
    <3>2. Playable(<<>>, ms, cs, 0, ms[0], NoPointer)
      BY NewReplays
    <3> QED BY <2>3, <3>1, <3>2
  <2>5. loop' # "frame"
    BY DEF LaunchLive, LaunchReplay, Launch, StartRecording, Listening
  <2> QED BY <2>3, <2>4, <2>5 DEF RecReplays
<1> QED BY <1>1, <1>2

LEMMA OtherReplays ==
    ASSUME RecInv, RecReplays,
           \/ Top \/ Quit \/ NoTick \/ TickLive \/ TickReplay \/ StopRecording \/ Close
           \/ PumpFails \/ ApplyEvent \/ ReplayFrame
           \/ \E k \in ScanCode : PressKey(k) \/ LiftKey(k)
           \/ UNCHANGED sessionVars
    PROVE  RecReplays'
<1>1. CASE rec' = NoRec \/ ApplyEvent \/ ReplayFrame
  <2>1. ApplyEvent \/ ReplayFrame => rec' = NoRec
    BY DEF ApplyEvent, ReplayFrame, RecInv
  <2> QED BY <1>1, <2>1 DEF RecReplays
<1>2. CASE rec' # NoRec /\ ~(ApplyEvent \/ ReplayFrame)
  <2>1. UNCHANGED <<rec, frame, pointer>>
    <3>1. CASE StopRecording
      BY <1>2, <3>1 DEF StopRecording
    <3>2. CASE Close
      BY <1>2, <3>2 DEF Close
    <3>3. CASE Top \/ Quit \/ NoTick \/ TickLive \/ TickReplay
      BY <3>3 DEF Top, Quit, NoTick, TickLive, TickReplay
    <3>4. CASE PumpFails \/ (\E k \in ScanCode : PressKey(k) \/ LiftKey(k)) \/ UNCHANGED sessionVars
      BY <3>4 DEF PumpFails, PressKey, LiftKey, sessionVars
    <3> QED BY <1>2, <3>1, <3>2, <3>3, <3>4
  <2>2. loop' \in {"top", "events", "pump", "mouse", "frame"} =>
            /\ machine' = machine
            /\ loop' = "frame" => loop = "frame"
            /\ loop' # "frame" => loop \in {"top", "events", "pump", "mouse"}
    <3>1. CASE StopRecording \/ Close
      BY <1>2, <3>1 DEF StopRecording, Close, Listening
    <3>2. CASE Top \/ Quit \/ NoTick \/ TickLive \/ TickReplay
      BY <3>2 DEF Top, Quit, NoTick, TickLive, TickReplay, Listening
    <3>3. CASE PumpFails \/ (\E k \in ScanCode : PressKey(k) \/ LiftKey(k)) \/ UNCHANGED sessionVars
      BY <3>3 DEF PumpFails, PressKey, LiftKey, Listening, sessionVars
    <3> QED BY <1>2, <3>1, <3>2, <3>3
  <2> QED BY <1>2, <2>1, <2>2 DEF RecReplays
<1> QED BY <1>1, <1>2

LEMMA MoveReplays ==
    ASSUME RecInv, SessionConstants, RecReplays, NEW p \in Pointer, MoveMouse(p)
    PROVE  RecReplays'
<1>1. /\ UNCHANGED <<rec, frame, loop>> /\ pointer' # NoPointer /\ loop = "events"
      /\ machine' = IF rec.active THEN machine ELSE Pointed(machine, p)
  BY DEF MoveMouse, Listening, SessionConstants
<1>2. rec # NoRec => machine' = machine
  BY <1>1, ActiveRec
<1> QED BY <1>1, <1>2 DEF RecReplays

LEMMA RecReplaysStep ==
    RecInv /\ SessionConstants /\ IrqAt = {} /\ RecReplays /\ [ViewerNext]_sessionVars => RecReplays'
<1> SUFFICES ASSUME RecInv, SessionConstants, IrqAt = {}, RecReplays, [ViewerNext]_sessionVars
             PROVE  RecReplays'
  OBVIOUS
<1>1. CASE (Pump \/ SampleMouse \/ Frame) /\ rec = NoRec
  <2>1. rec' = NoRec
    BY <1>1, ActiveRec DEF Pump, LiveInput, Scanned, SampleMouse, Frame, Marked
  <2> QED BY <2>1 DEF RecReplays
<1>2. CASE \E p \in Pointer : MoveMouse(p)
  BY <1>2, MoveReplays
<1> QED BY <1>1, <1>2, PumpReplays, SampleReplays, RunReplays, NewRecReplays, OtherReplays DEF ViewerNext

(* What is saved can be played, and is: step by step.                      *)
LEMMA SavedOnce == ASSUME RecInv, RecReplays, rec # NoRec, saved' = Finished, ~replaying'
                   PROVE  SavedReplays'
<1> DEFINE es == rec.events
           ms == rec.truth
           cs == rec.coords
           o == frame - rec.start
<1>1. /\ saved'.end = o /\ saved'.base = rec.base /\ saved'.events = es
      /\ saved'.coords = cs /\ saved'.truth = ms
  BY FinishedIs
<1>2. IsList(es) /\ (\A j \in 1..Len(es) : es[j].ordinal \in Nat) /\ ms[0] = rec.base
  BY DEF RecInv, Recorded
<1>3. PICK w, q : Replays(es, ms, cs, o, w, q)
  BY DEF RecReplays, Playable
<1>4. Replays(saved'.events, saved'.truth, saved'.coords, saved'.end, w, q)
  BY <1>1, <1>3
<1> QED BY <1>1, <1>2, <1>4 DEF SavedReplays, Playing

LEMMA LaunchPlays == ASSUME RecInv, SavedReplays, LaunchReplay PROVE SavedReplays'
<1> DEFINE es == saved.events
<1>1. /\ saved' = saved /\ saved # NoRecording /\ frame' = 0 /\ machine' = saved.base /\ loop' = "top"
      /\ play' = [open |-> TRUE, cursor |-> 0, mouse |-> NoPointer]
  BY DEF LaunchReplay, Launch, NoPlayback
<1>2. PICK w, q : Replays(es, saved.truth, saved.coords, saved.end, w, q)
  BY <1>1 DEF SavedReplays
<1>3. /\ IsList(es) /\ (\A j \in 1..Len(es) : es[j].ordinal \in Nat)
      /\ saved.truth[0] = saved.base
  BY <1>1 DEF SavedReplays
<1>4. /\ play'.cursor = 0 /\ play'.mouse = q[0] /\ 0 \in 0..Len(es)
      /\ \A k \in 1..Len(es) : k <= 0 <=> es[k].ordinal < 0
  <2>1. Len(es) \in Nat
    BY <1>3, Grown
  <2>2. play'.cursor = 0 /\ play'.mouse = NoPointer /\ q[0] = NoPointer
    BY <1>1, <1>2 DEF Replays
  <2> QED BY <1>3, <2>1, <2>2
<1>5. Playing(w, q)'
  BY <1>1, <1>3, <1>4 DEF Playing
<1> QED BY <1>1, <1>2, <1>3, <1>5 DEF SavedReplays

LEMMA ApplyPlays == ASSUME RecInv, SavedReplays, TableInv, ApplyEvent PROVE SavedReplays'
<1> DEFINE es == saved.events
           ms == saved.truth
           c == play.cursor
           input == es[c + 1].input
<1>1. /\ UNCHANGED <<saved, frame, loop, replaying>> /\ loop = "apply" /\ replaying
      /\ saved # NoRecording /\ c < Len(es) /\ es[c + 1].ordinal <= frame
  BY DEF ApplyEvent, Due, endVars, RecInv
<1>2. PICK w, q : Replays(es, ms, saved.coords, saved.end, w, q) /\ Playing(w, q)
  BY <1>1 DEF SavedReplays
<1>3. /\ IsList(es) /\ (\A j \in 1..Len(es) : es[j].ordinal \in Nat) /\ Len(es) \in Nat
      /\ saved.truth[0] = saved.base
  BY <1>1, Grown DEF SavedReplays
<1>4. /\ machine = From(es, ms, w, frame, c) /\ c \in 0..Len(es) /\ play.mouse = q[c]
      /\ \A k \in 1..Len(es) : /\ k <= c => es[k].ordinal <= frame
                               /\ k > c => es[k].ordinal >= frame
  BY <1>1, <1>2 DEF Playing
<1>5. c + 1 \in 1..Len(es) /\ c + 1 \in 0..Len(es) /\ c + 1 > 0 /\ c + 1 - 1 = c /\ frame \in Nat
  BY <1>1, <1>3, <1>4 DEF RecInv
<1>6. es[c + 1].ordinal = frame
  <2>1. c + 1 > c
    BY <1>3, <1>4
  <2> QED BY <1>1, <1>3, <1>4, <1>5, <2>1
<1>7. Makes(input, machine, play.mouse, w[c + 1], q[c + 1])
  <2>1. Follows(es, ms, w, q, c + 1)
    BY <1>2, <1>5 DEF Replays
  <2> QED BY <1>4, <1>5, <1>6, <2>1 DEF Follows
<1>8. machine' = w[c + 1] /\ play'.cursor = c + 1 /\ play'.mouse = q[c + 1]
  <2>1. CASE input.kind = "mouse"
    <3>1. machine' = machine /\ play' = [play EXCEPT !.cursor = c + 1, !.mouse = input.code]
      BY <2>1 DEF ApplyEvent
    <3>2. play'.cursor = c + 1 /\ play'.mouse = input.code
      BY <3>1 DEF TableInv
    <3> QED BY <1>7, <2>1, <3>1, <3>2 DEF Makes
  <2>2. CASE input.kind # "mouse"
    <3>1. machine' = Delivered(machine, input) /\ play' = [play EXCEPT !.cursor = c + 1]
      BY <2>2 DEF ApplyEvent
    <3>2. play'.cursor = c + 1 /\ play'.mouse = play.mouse
      BY <3>1 DEF TableInv
    <3> QED BY <1>7, <2>2, <3>1, <3>2 DEF Makes
  <2> QED BY <2>1, <2>2
<1>9. machine' = From(es, ms, w, frame, c + 1)
  BY <1>5, <1>6, <1>8 DEF From
<1>10. \A k \in 1..Len(es) : /\ k <= c + 1 => es[k].ordinal <= frame
                             /\ k > c + 1 => es[k].ordinal >= frame
  <2> TAKE k \in 1..Len(es)
  <2>1. (k <= c + 1 => k <= c \/ k = c + 1) /\ (k > c + 1 => k > c)
    BY <1>3, <1>4
  <2>2. frame <= frame
    BY <1>5
  <2> QED BY <1>4, <1>6, <2>1, <2>2
<1>11. Playing(w, q)'
  <2> HIDE DEF input
  <2> QED BY <1>1, <1>5, <1>8, <1>9, <1>10 DEF Playing
<1> QED BY <1>1, <1>2, <1>3, <1>11 DEF SavedReplays

LEMMA FramePlays == ASSUME RecInv, SavedReplays, ReplayFrame PROVE SavedReplays'
<1> DEFINE es == saved.events
           ms == saved.truth
           cs == saved.coords
           c == play.cursor
           ticked == Ticked(ReplayedPointer)
<1>1. /\ UNCHANGED <<saved, play, replaying>> /\ loop = "apply" /\ replaying /\ saved # NoRecording
      /\ ~(c < Len(es) /\ es[c + 1].ordinal <= frame) /\ frame' = frame + 1 /\ loop' = "top"
      /\ frame \in Nat /\ saved.end \in Nat /\ frame < saved.end
  BY DEF ReplayFrame, Due, playVars, RecInv
<1>2. PICK w, q : Replays(es, ms, cs, saved.end, w, q) /\ Playing(w, q)
  BY <1>1 DEF SavedReplays
<1>3. /\ IsList(es) /\ (\A j \in 1..Len(es) : es[j].ordinal \in Nat) /\ Len(es) \in Nat
      /\ saved.truth[0] = saved.base
  BY <1>1, Grown DEF SavedReplays
<1>4. /\ machine = From(es, ms, w, frame, c) /\ c \in 0..Len(es) /\ play.mouse = q[c]
      /\ \A k \in 1..Len(es) : k <= c => es[k].ordinal <= frame
  BY <1>1, <1>2 DEF Playing
<1>5. ASSUME NEW k \in 1..Len(es) PROVE k <= c <=> es[k].ordinal <= frame
  <2>1. CASE k <= c
    BY <1>4, <2>1
  <2>2. CASE ~(k <= c)
    <3>1. c + 1 \in 1..Len(es) /\ c + 1 <= k /\ c < Len(es)
      BY <1>3, <1>4, <2>2
    <3>2. es[c + 1].ordinal <= es[k].ordinal
      BY <1>2, <3>1 DEF Replays
    <3>3. es[c + 1].ordinal \in Nat /\ es[k].ordinal \in Nat /\ ~(es[c + 1].ordinal <= frame)
      BY <1>1, <1>3, <3>1
    <3> QED BY <1>1, <2>2, <3>2, <3>3
  <2> QED BY <2>1, <2>2
<1>6. Framed(machine, play.mouse, ms[frame + 1], cs[frame + 1])
  <2>1. Upto(es, frame, c) /\ frame \in 0..saved.end - 1
    BY <1>1, <1>4, <1>5 DEF Upto
  <2>2. Framed(From(es, ms, w, frame, c), q[c], ms[frame + 1], cs[frame + 1])
    BY <1>2, <1>4, <2>1 DEF Replays
  <2> QED BY <1>4, <2>2
<1>7. machine' = ms[frame + 1]
  <2>1. ticked = Ticked(PointedBy(play.mouse, machine))
    BY DEF ReplayedPointer, PointedBy
  <2>2. ticked.count <= cs[frame + 1] /\ ms[frame + 1] = RanTo(ticked, cs[frame + 1])
    BY <1>6, <2>1 DEF Framed
  <2>3. IsMachine(ticked) /\ cs[frame + 1] \in Nat
    <3>1. IsMachine(ReplayedPointer)
      BY MachineMoves DEF ReplayedPointer, RecInv
    <3>2. frame + 1 \in 0..saved.end
      BY <1>1
    <3> QED BY <1>1, <3>1, <3>2, MachineMoves DEF RecInv
  <2>4. ~(ticked.count > cs[frame + 1])
    BY <2>2, <2>3 DEF IsMachine
  <2>5. machine' = IF ticked.count > cs[frame + 1] THEN ticked ELSE RanTo(ticked, cs[frame + 1])
    BY DEF ReplayFrame
  <2> QED BY <2>2, <2>4, <2>5
<1>8. \A k \in 1..Len(es) : k <= c <=> es[k].ordinal < frame + 1
  <2> TAKE k \in 1..Len(es)
  <2>1. es[k].ordinal \in Nat
    BY <1>3
  <2> QED BY <1>1, <1>5, <2>1
<1>9. Playing(w, q)'
  <2> HIDE DEF ticked
  <2> QED BY <1>1, <1>4, <1>7, <1>8 DEF Playing
<1> QED BY <1>1, <1>2, <1>3, <1>9 DEF SavedReplays

LEMMA TickPlays == ASSUME RecInv, SavedReplays, TickReplay PROVE SavedReplays'
<1> DEFINE es == saved.events
           ms == saved.truth
           c == play.cursor
<1>1. /\ UNCHANGED <<saved, play, replaying, frame, machine>> /\ loop = "events" /\ loop' = "apply"
      /\ replaying /\ saved # NoRecording /\ frame \in Nat
  BY DEF TickReplay, playVars, endVars, RecInv
<1>2. PICK w, q : Replays(es, ms, saved.coords, saved.end, w, q) /\ Playing(w, q)
  BY <1>1 DEF SavedReplays
<1>3. /\ IsList(es) /\ (\A j \in 1..Len(es) : es[j].ordinal \in Nat) /\ Len(es) \in Nat
      /\ saved.truth[0] = saved.base
  BY <1>1, Grown DEF SavedReplays
<1>4. /\ machine = ms[frame] /\ c \in 0..Len(es) /\ play.mouse = q[c]
      /\ \A k \in 1..Len(es) : k <= c <=> es[k].ordinal < frame
  BY <1>1, <1>2 DEF Playing
<1>5. machine = From(es, ms, w, frame, c)
  <2>1. CASE c > 0
    <3>1. c \in 1..Len(es)
      BY <1>3, <1>4, <2>1
    <3>2. es[c].ordinal < frame /\ es[c].ordinal \in Nat
      BY <1>3, <1>4, <3>1
    <3> QED BY <1>1, <1>4, <3>2 DEF From
  <2>2. CASE ~(c > 0)
    BY <1>4, <2>2 DEF From
  <2> QED BY <2>1, <2>2
<1>6. \A k \in 1..Len(es) : /\ k <= c => es[k].ordinal <= frame
                            /\ k > c => es[k].ordinal >= frame
  <2> TAKE k \in 1..Len(es)
  <2>1. es[k].ordinal \in Nat /\ (k <= c <=> es[k].ordinal < frame)
    BY <1>3, <1>4
  <2> QED BY <1>1, <1>4, <2>1
<1>7. Playing(w, q)'
  BY <1>1, <1>4, <1>5, <1>6 DEF Playing
<1> QED BY <1>1, <1>2, <1>3, <1>7 DEF SavedReplays

(* Where a playback is at rest, or over, nothing moves.                    *)
LEMMA StillPlays ==
    ASSUME SavedReplays, saved' = saved,
           replaying' => /\ replaying /\ UNCHANGED <<frame, machine, play>>
                         /\ loop' = "apply" => loop = "apply"
                         /\ loop' \in {"top", "events"} => loop \in {"top", "events"}
    PROVE  SavedReplays'
<1>1. ASSUME NEW w, NEW q, Playing(w, q) PROVE Playing(w, q)'
  BY <1>1 DEF Playing
<1> QED BY <1>1 DEF SavedReplays

LEMMA SavedReplaysStep ==
    RecInv /\ TableInv /\ RecReplays /\ SavedReplays /\ [ViewerNext]_sessionVars => SavedReplays'
<1> SUFFICES ASSUME RecInv, TableInv, RecReplays, SavedReplays, [ViewerNext]_sessionVars
             PROVE  SavedReplays'
  OBVIOUS
<1>1. CASE UNCHANGED sessionVars
  BY <1>1, StillPlays DEF sessionVars, playVars, endVars
<1>2. CASE LaunchLive
  BY <1>2, StillPlays DEF LaunchLive, Launch
<1>3. CASE Top
  <2>1. replaying' => replaying
    BY <1>3, Zenon DEF Top
  <2>2. UNCHANGED <<saved, frame, machine, play>> /\ loop = "top" /\ loop' \in {"closing", "events"}
    BY <1>3 DEF Top, endVars
  <2> QED BY <2>1, <2>2, StillPlays
<1>4. CASE Quit \/ NoTick
  <2>1. UNCHANGED <<saved, replaying, frame, machine, play>> /\ loop = "events" /\ loop' \in {"top", "events"}
    BY <1>4 DEF Quit, NoTick, playVars, endVars
  <2> QED BY <2>1, StillPlays
<1>5. CASE StopRecording \/ Close
  <2>1. UNCHANGED <<replaying, frame, machine, play>> /\ (replaying => loop' = "off") /\ (rec # NoRec => ~replaying)
    BY <1>5 DEF StopRecording, Close, Listening, playVars, RecInv
  <2>2. CASE saved' = saved
    BY <2>1, <2>2, StillPlays
  <2>3. CASE saved' # saved
    <3>1. saved' = Finished /\ rec # NoRec
      BY <1>5, <2>3, ActiveRec DEF StopRecording, Close
    <3> QED BY <2>1, <3>1, SavedOnce
  <2> QED BY <2>2, <2>3
<1>6. CASE TickLive \/ Pump \/ PumpFails \/ SampleMouse \/ Frame
  <2>1. UNCHANGED <<saved, replaying>> /\ ~replaying
    BY <1>6 DEF TickLive, Pump, PumpFails, SampleMouse, Frame, Listening, playVars, endVars, RecInv
  <2> QED BY <2>1, StillPlays
<1>7. CASE \/ \E k \in ScanCode : PressKey(k) \/ LiftKey(k)
           \/ \E p \in Pointer : MoveMouse(p)
           \/ \E fresh \in {TRUE, ~(SameSecond /\ saved # NoRecording)} : StartRecording(fresh)
  <2>1. UNCHANGED <<saved, replaying>> /\ ~replaying
    BY <1>7 DEF PressKey, LiftKey, MoveMouse, StartRecording, Listening, playVars, endVars
  <2> QED BY <2>1, StillPlays
<1> QED BY <1>1, <1>2, <1>3, <1>4, <1>5, <1>6, <1>7, LaunchPlays, TickPlays, ApplyPlays, FramePlays DEF ViewerNext

(* A playback is at each frame in the state the recorded session was in,   *)
(* wherever that was begun and whatever was done in it, where no device    *)
(* raises an interrupt between frames (ReplayRecording, apply_to_runtimes  *)
(* and advance_replay_frame).                                              *)
THEOREM PlaybackFaithful ==
    ASSUME SessionConstants, IrqAt = {} PROVE ViewerSpec => []ReplayFaithful
<1>1. ViewerInit => TableInv /\ RecReplays /\ SavedReplays
  BY DEF ViewerInit, NoPlayback, TableInv, RecReplays, SavedReplays
<1>2. RecInv /\ SavedReplays => ReplayFaithful
  BY DEF RecInv, SavedReplays, Playing, ReplayFaithful
<1> QED BY <1>1, <1>2, RecInit, RecStep, TableStep, RecReplaysStep, SavedReplaysStep, PTL DEF ViewerSpec
=============================================================================
