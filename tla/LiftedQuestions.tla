-------------------------- MODULE LiftedQuestions --------------------------
(* Programs for the lifter's model checking: eight of up to nine             *)
(* instructions, each with any one of them replaced, every subset of their *)
(* functions lifted, with and without a head at which they park, an INT    *)
(* that has to wait, and links.                                            *)
EXTENDS LiftedRun

Step == Inst("step", 0, 1)
Odd == Inst("odd", 0, 2)
Read == Inst("read", 0, 0)
Poll == Inst("poll", 0, 0)
Ret == Inst("ret", 0, 0)
To(op, a) == Inst(op, a, 0)
With(op, n) == Inst(op, 0, n)

(* code, entries and a head of each                                        *)
Program(code, entries, head) == [code |-> code, entries |-> entries, head |-> head]
Waits == Program(<<Step, To("call", 6), Poll, To("jz", 3), Ret, Odd, To("loop", 6), Step, Ret>>, {1, 6}, 3)
Manufactures == Program(
    <<To("int", 0), To("call", 5), Poll, Ret, With("push", 8), With("load", 3), To("jmpi", 0), Step, Ret>>, {1, 5}, 3)
Vectored == Program(<<To("int", 5), Step, To("jz", 1), Ret, Poll, Step, Ret>>, {1, 5}, 5)
Cleans == Program(<<With("push", 3), To("call", 5), Step, Ret, Read, To("loop", 5), With("ret", 1)>>, {1, 5}, 3)
Unwinds == Program(<<To("call", 3), Ret, To("call", 6), Step, Ret, With("drop", 0), Step, Ret>>, {1, 3, 6}, 7)
Nested == Program(<<To("call", 4), Poll, Ret, To("call", 7), Step, Ret, To("int", 0), Step, Ret>>, {1, 4, 7}, 8)
Patches == Program(<<Step, To("patch", 3), Step, To("loop", 1), Ret>>, {1}, 1)
Pokes == Program(<<To("call", 4), To("poke", 4), To("jmp", 1), Read, To("loop", 4), Ret>>, {1, 4}, 5)

Replacements == {Odd, Poll, With("save", 0), With("drop", 0), To("patch", 6), To("jz", 1), To("jmp", 4),
                 With("load", 5), To("calli", 0), To("jmpi", 0), To("hlt", 0), To("int", 0)}
Variants(p) == {p} \cup {[p EXCEPT !.code[a] = i] : a \in DOMAIN p.code, i \in Replacements}

(* Links need callees that leave the stack as a call has it.               *)
Tidy(code) == \A a \in DOMAIN code : code[a].op \notin {"save", "drop", "push"} /\ (code[a].op = "ret" => code[a].n = 0)

QuestionsOf(p) ==
    LET hasInt == \E a \in DOMAIN p.code : p.code[a].op = "int"
        Heads == {[heads |-> {}, parks |-> {}], [heads |-> {p.head}, parks |-> {1}],
                  [heads |-> {p.head}, parks |-> {2}]}
        Scans == [heads \in {{}, {p.head}} |-> Document(p.code, p.entries, heads)]
    IN  UNION {{[code |-> p.code, lifted |-> lifted, linking |-> linking, heads |-> h.heads,
                 parks |-> h.parks, blocked |-> blocked] :
                    lifted \in SUBSET Scans[h.heads] \ {{}}, linking \in {FALSE, Tidy(p.code)},
                    blocked \in IF hasInt THEN {{}, {1}} ELSE {{}}} : h \in Heads}

LiftedPrograms == UNION {UNION {QuestionsOf(v) : v \in Variants(p)} :
                            p \in {Waits, Manufactures, Vectored, Cleans, Unwinds, Nested, Patches, Pokes}}

(* A program that reads the time in the middle of a block.                 *)
ReadsTime == UNION {QuestionsOf(v) : v \in Variants(Program(<<Step, Read, To("jz", 1), Ret>>, {1}, 1))}
=============================================================================
