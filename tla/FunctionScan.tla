---------------------------- MODULE FunctionScan ----------------------------
(***************************************************************************)
(* What the lifter makes of a function before it emits it                  *)
(* (scan_function of src/dos_re/lift/cfg.py): the instructions reachable   *)
(* from its entry, the blocks they form, and the reasons to refuse it.     *)
(*                                                                         *)
(* Code is a sequence of instructions, one at each address, of which only  *)
(* the control flow, the stack and one register matter: "step" stands for  *)
(* an instruction with a native form, "odd" for one without, "read" for    *)
(* one that reads a device, "load", "push", "save" and "drop" for          *)
(* mov r,imm, push imm, push r and pop r, "patch" for a store to a code    *)
(* address that can be seen in the instruction and "poke" for one that     *)
(* cannot, "calli" and "jmpi" for a call and a jump through the register.  *)
(***************************************************************************)
EXTENDS Integers, Sequences, FiniteSets

Inst(op, to, n) == [op |-> op, to |-> to, n |-> n]

Sequential == {"step", "odd", "read", "poll", "load", "push", "save", "drop", "patch", "poke"}
Jumps == {"jz", "loop"}
Calls == {"call", "calli"}
Exits == {"ret", "jmpi"}

(* Addresses outside the code hold what the decoder does not know.         *)
At(code, a) == IF a \in DOMAIN code THEN code[a] ELSE Inst("bad", 0, 0)

Successors(code, a) ==
    LET i == At(code, a)
    IN  CASE i.op \in Sequential \cup Calls \cup {"int"} -> {a + 1}
          [] i.op \in Jumps -> {a + 1, i.to}
          [] i.op = "jmp" -> {i.to}
          [] OTHER -> {}

(* The walk from a set of addresses, until it settles.                     *)
Walk(code, from) ==
    LET Grown[k \in 0..Len(code) + 1] ==
            IF k = 0 THEN from
            ELSE LET r == Grown[k - 1] IN r \cup UNION {Successors(code, a) : a \in r}
    IN  Grown[Len(code) + 1]

BlockLeaders(code, entry, insts, returns) ==
    (({entry} \cup returns
        \cup {code[a].to : a \in {b \in insts \cap DOMAIN code : code[b].op \in Jumps \cup {"jmp"}}}
        \cup {a + 1 : a \in {b \in insts \cap DOMAIN code : code[b].op \in Jumps}}) \cap insts)

(* Where the block of an address begins, as the scan sees it: an INT ends  *)
(* a block.  Nothing is said of code that only an INT leads to.            *)
LeaderOf(code, insts, leaders, a) ==
    {l \in leaders : /\ l <= a
                     /\ \A b \in l..a - 1 : At(code, b).op \in Sequential \cup Calls
                     /\ \A b \in l..a : b \in insts
                     /\ \A b \in l + 1..a : b \notin leaders}

(* push <address>; jmp <indirect>: the block that ends in the jump has one *)
(* instruction that touches the stack, which pushes a known value.         *)
(* A call leaves the stack as it was, and a call of a known function is    *)
(* taken to leave the register alone too.                                  *)
StackOps == {"push", "save", "drop"}
Writers == {"step", "odd", "poll", "load", "drop", "calli"}
Known(code, l, a) ==
    LET writes == {b \in l..a - 1 : code[b].op \in Writers}
        last == CHOOSE b \in writes : \A c \in writes : c <= b
    IN  IF writes # {} /\ code[last].op = "load" THEN {code[last].n} ELSE {}

ManufacturedReturn(code, insts, leaders, jump) ==
    UNION {LET ops == {b \in l..jump - 1 : code[b].op \in StackOps}
               b == CHOOSE b \in ops : TRUE
           IN  IF Cardinality(ops) # 1 THEN {}
               ELSE CASE code[b].op = "push" -> {code[b].n}
                      [] code[b].op = "save" -> Known(code, l, b)
                      [] OTHER -> {}
           : l \in LeaderOf(code, insts, leaders, jump)}

(* One round of the outer fixpoint, and all of it.                         *)
ReturnsIn(code, entry, insts, returns) ==
    UNION {ManufacturedReturn(code, insts, BlockLeaders(code, entry, insts, returns), a) :
              a \in {b \in insts \cap DOMAIN code : code[b].op = "jmpi"}}

Reached(code, entry) ==
    LET Round[k \in 0..Len(code)] ==
            IF k = 0 THEN [insts |-> Walk(code, {entry}), returns |-> {}]
            ELSE LET r == Round[k - 1]
                     found == r.returns \cup ReturnsIn(code, entry, r.insts, r.returns)
                 IN  IF found = r.returns THEN r
                     ELSE [insts |-> Walk(code, r.insts \cup found), returns |-> found]
    IN  Round[Len(code)]

StoreTargets(code, insts) == {code[a].to : a \in {b \in insts \cap DOMAIN code : code[b].op = "patch"}}

(* Faulty, to break properties: stores into the function's own code are    *)
(* not looked for.                                                         *)
RefusedBlindly(code, insts, heads) ==
    \/ \E a \in insts : At(code, a).op \in {"bad", "hlt"}
    \/ (\A a \in insts : At(code, a).op \notin Exits) /\ heads \cap insts = {}
Refused(code, insts, heads) ==
    \/ \E a \in insts : At(code, a).op \in {"bad", "hlt"}
    \/ (\A a \in insts : At(code, a).op \notin Exits) /\ heads \cap insts = {}
    \/ StoreTargets(code, insts) \cap insts # {}

ScanFunction(code, entry, heads) ==
    LET r == Reached(code, entry)
    IN  [entry |-> entry, insts |-> r.insts, returns |-> r.returns,
         leaders |-> BlockLeaders(code, entry, r.insts, r.returns),
         stores |-> StoreTargets(code, r.insts),
         onlyReturns |-> \A a \in r.insts : At(code, a).op # "jmpi",
         liftable |-> ~Refused(code, r.insts, heads)]

(* The document of a program: a function another one stores into is not    *)
(* lifted either.                                                          *)
Document(code, entries, heads) ==
    LET scans == {ScanFunction(code, e, heads) : e \in entries}
    IN  {s \in scans : s.liftable /\ \A t \in scans \ {s} : t.stores \cap s.insts = {}}
=============================================================================
