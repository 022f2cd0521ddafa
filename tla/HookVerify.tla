----------------------------- MODULE HookVerify -----------------------------
(***************************************************************************)
(* Replacement hooks verified while the program runs: HookVerifier of      *)
(* src/dos_re/verification.py, with continuation metadata or without, the  *)
(* protected-mode one of pm_verification.py, and the calls by which one    *)
(* hook runs another (hooks.py).                                           *)
(*                                                                         *)
(* A machine is a location, a value that stands for its registers and      *)
(* data, and a stack whose popped words stay where they were.  A hook's    *)
(* Python is a sequence of steps; the frames of the host's stack are a     *)
(* variable, and any of them may be left by an exception.                  *)
(***************************************************************************)
EXTENDS Integers, Sequences, FiniteSets

CONSTANTS
    Listing,     \* the original program: an instruction per location
    Handlers,    \* the steps of each handler, by name
    Configs,     \* what verification is asked to do, and of which hooks
    StackSize,   \* words of stack
    Dead,        \* words below the stack pointer that are not compared
    MaxSteps,    \* the oracle's budget of instructions
    MaxCalls     \* bound: hooks entered

VARIABLES
    cfg,         \* the configuration
    live,        \* the running machine
    hookTable,   \* cpu.replacement_hooks: a handler's name for each location
    passing,     \* cpu.hook_verifier_passthrough
    frames,      \* handlers being run, the innermost last
    active,      \* the re-entrancy guard
    tx,          \* the transaction of the hook being verified
    told,        \* telemetry: how many calls had each verdict
    total,       \* verified transactions
    counts,      \* calls of each hook put to the test
    hookCalls,   \* counts hooks entered
    ended,       \* the exception that stopped the program
    passed,      \* the last transaction that compared equal
    entry        \* the machine as the outermost verified call found it

verifyVars == <<cfg, live, hookTable, passing, frames, active, tx, told, total, counts, hookCalls,
                ended, passed, entry>>

Absent == [none |-> TRUE]
Location == DOMAIN Listing

ASSUME HooksAssumption ==
    /\ MaxSteps \in Nat
    /\ \A c \in Configs : /\ c.kind \in {"auto", "stops", "pm"} /\ c.nested \in BOOLEAN
                           /\ DOMAIN c.table = Location /\ c.table = [k \in Location |-> c.table[k]]

NoHooks == [k \in Location |-> "none"]
Verdicts == {"verified", "unverified", "skipped"}
Hooked(t, at) == at \in Location /\ t[at] # "none"
With(t, keys, u) == [k \in Location |-> IF k \in keys THEN u[k] ELSE t[k]]

-----------------------------------------------------------------------------
(* The original program.                                                   *)

Push(m, w) == [m EXCEPT !.sp = @ - 1, !.cells = [@ EXCEPT ![m.sp - 1] = w]]
PopReturn(m) == [m EXCEPT !.at = m.cells[m.sp], !.sp = @ + 1]
CountUp(m, n) == [m EXCEPT !.v = (@ + n) % 8]
Execute(m) ==
    LET i == Listing[m.at]
    IN  CASE i.op = "add" -> [CountUp(m, i.n) EXCEPT !.at = @ + 1]
          [] i.op = "call" -> [Push(m, m.at + 1) EXCEPT !.at = i.to]
          [] i.op = "jmp" -> [m EXCEPT !.at = i.to]
          [] OTHER -> PopReturn(m)                                  \* ret

(* One step of a handler that runs no other.                               *)
Does(m, s) ==
    CASE s.do = "add" -> CountUp(m, s.n)
      [] s.do = "goto" -> [m EXCEPT !.at = s.at]
      [] s.do = "ret" -> PopReturn(m)
      [] s.do = "interp" -> Execute(m)
      [] s.do = "call" -> [Push(m, s.ret) EXCEPT !.at = s.key]
      [] s.do = "jump" -> [m EXCEPT !.at = s.key]
      [] OTHER -> [m EXCEPT !.at = s.at]                         \* raise

(* On the oracle's side a hook that was left in place runs unverified, and *)
(* so do those it calls.                                                   *)
RunLeaf(m, steps) ==
    LET After[n \in 0..Len(steps)] == IF n = 0 THEN m ELSE Does(After[n - 1], steps[n])
    IN  After[Len(steps)]
RunHook(m, t, name) ==
    LET steps == Handlers[name]
        Inner(s) == IF s.do \in {"call", "jump"} THEN Handlers[IF Hooked(t, s.key) THEN t[s.key] ELSE s.default] ELSE <<>>
        After[n \in 0..Len(steps)] ==
            IF n = 0 THEN m ELSE RunLeaf(Does(After[n - 1], steps[n]), Inner(steps[n]))
    IN  After[Len(steps)]
OracleExecutes(m, t) == IF Hooked(t, m.at) THEN RunHook(m, t, t[m.at]) ELSE Execute(m)

-----------------------------------------------------------------------------
(* The comparison.                                                         *)

DeadCells(m) == {m.sp - k : k \in 1..Dead}
RangeDiff(asm, hook, ignored) ==
    LET differ == {a \in DOMAIN asm \cap DOMAIN hook : asm[a] # hook[a] /\ a \notin ignored}
    IN  IF differ = {} THEN Absent
        ELSE [first |-> CHOOSE a \in differ : \A b \in differ : a <= b, of |-> differ]
Differ(asm, hook) ==
    \/ asm.at # hook.at \/ asm.v # hook.v \/ asm.sp # hook.sp
    \/ RangeDiff(asm.cells, hook.cells, IF cfg.kind = "pm" THEN {} ELSE DeadCells(asm)) # Absent

(* The continuations hand-written metadata allows.                         *)
Targets(stop, m) ==
    (IF stop.kind \in {"near_ret", "near_ret_or_fixed_ips"} THEN {m.cells[m.sp]} ELSE {})
    \cup (IF stop.kind \in {"fixed_ips", "near_ret_or_fixed_ips"} THEN stop.ips ELSE {})

-----------------------------------------------------------------------------
(* Exceptions.  They leave every frame, and what the frames have in a      *)
(* finally is done: telemetry of unverified hooks, the passthrough table,  *)
(* the guard.                                                              *)

Reported(f) ==
    CASE f.how \in {"plain", "unasked"} -> "unverified"
      [] f.how = "nested" /\ cfg.kind # "pm" -> "unverified"
      [] f.how = "skipped" -> "skipped"
      [] OTHER -> "nothing"
Tell(tally, verdict) == [v \in Verdicts |-> IF v = verdict THEN tally[v] + 1 ELSE tally[v]]
Unwound(tally) ==
    [v \in Verdicts |-> tally[v] + Cardinality({i \in DOMAIN frames : Reported(frames[i]) = v})]
(* Faulty, to break properties: the passthrough hooks are put back only    *)
(* after a handler that returned.                                          *)
TableLeft == hookTable
TableRestored ==
    IF tx = Absent THEN hookTable
    ELSE IF tx.stage # "handler" THEN hookTable ELSE With(hookTable, DOMAIN tx.saved, tx.saved)
Escape(why, repro) ==
    /\ ended' = [why |-> why, repro |-> repro, from |-> entry]
    /\ told' = Unwound(told)
    /\ hookTable' = TableRestored
    /\ frames' = <<>> /\ tx' = Absent /\ active' = FALSE

-----------------------------------------------------------------------------
(* A hook is entered: by the interpreter's step, or by another hook.       *)

HostFrame(key, name, how) == [key |-> key, steps |-> Handlers[name], pc |-> 1, how |-> how]
Asked(key) == (cfg.max = 0 \/ total < cfg.max) /\ (cfg.kind = "pm" \/ key \in cfg.hooks)
Based(t, keys) == With(t, keys, cfg.installed)
(* The oracle: the machine before the handler, with the hooks it keeps.    *)
OracleTable(key) ==
    CASE cfg.kind = "stops" -> [Based(hookTable, passing) EXCEPT ![key] = "none"]
      [] cfg.kind = "auto" -> IF cfg.keeps THEN With(NoHooks, passing \ {key}, Based(hookTable, passing)) ELSE NoHooks
      [] cfg.kind = "pm" -> NoHooks
(* Faulty: a loop's own address is where the oracle starts.                *)
LeastStepsNone(key) == 0
LeastSteps(key) == IF cfg.kind = "stops" THEN cfg.stops[key].min ELSE 1
LiveTable ==
    IF cfg.kind = "pm" THEN hookTable
    ELSE With(Based(hookTable, passing), DOMAIN cfg.overrides \cap passing, cfg.overrides)
Saved == IF cfg.kind = "pm" THEN <<>> ELSE [k \in passing |-> hookTable[k]]

Transaction(key, name, m, stage) ==
    [key |-> key, name |-> name, stage |-> stage, before |-> m, asm |-> m, hooks |-> OracleTable(key),
     least |-> LeastSteps(key), targets |-> IF stage = "oracle" THEN Targets(cfg.stops[key], m) ELSE {},
     steps |-> 0, saved |-> Saved]
Begin(key, name, m, rest) ==
    IF cfg.kind # "stops"
    THEN /\ tx' = Transaction(key, name, m, "handler")
         /\ frames' = Append(rest, HostFrame(key, name, "judged"))
         /\ hookTable' = LiveTable
    ELSE /\ tx' = Transaction(key, name, m, "oracle")
         /\ frames' = rest
         /\ UNCHANGED hookTable
(* The guard, once set, is cleared when the call it was set for is over.   *)
Verify(key, name, m, rest) ==
    LET runs(how) == /\ frames' = Append(rest, HostFrame(key, name, how))
                     /\ UNCHANGED <<tx, hookTable, counts, entry>>
        judged == ~active /\ Asked(key)
        known == cfg.kind # "stops" \/ key \in DOMAIN cfg.stops
    IN  /\ live' = m
        /\ CASE active -> runs("nested") [] ~active /\ ~Asked(key) -> runs("unasked")
             [] judged /\ known -> /\ Begin(key, name, m, rest) /\ entry' = m
                                   /\ counts' = IF cfg.kind = "pm" THEN counts ELSE [counts EXCEPT ![key] = @ + 1]
             [] judged /\ ~known -> /\ frames' = Append(rest, HostFrame(key, name, "skipped"))
                                    /\ counts' = [counts EXCEPT ![key] = @ + 1]
                                    /\ UNCHANGED <<tx, hookTable, entry>>
        /\ active' = TRUE
        /\ UNCHANGED <<told, ended>>
EnterHook(key, name, m, rest, how, checks) ==
    /\ hookCalls' = hookCalls + 1
    /\ IF checks /\ key \notin passing THEN Verify(key, name, m, rest)
       ELSE /\ live' = m
            /\ frames' = Append(rest, HostFrame(key, name, how))
            /\ UNCHANGED <<active, tx, hookTable, told, counts, entry, ended>>
    /\ UNCHANGED <<cfg, passing, total, passed>>

Idle == frames = <<>> /\ tx = Absent /\ ended = Absent
Interpret ==
    /\ Idle /\ ~Hooked(hookTable, live.at) /\ hookCalls < MaxCalls
    /\ live' = Execute(live)
    /\ UNCHANGED <<cfg, hookTable, passing, frames, active, tx, told, total, counts, hookCalls, ended, passed, entry>>
Dispatch ==
    /\ Idle /\ Hooked(hookTable, live.at) /\ hookCalls < MaxCalls
    /\ EnterHook(live.at, hookTable[live.at], live, <<>>, "plain", TRUE)

-----------------------------------------------------------------------------
(* The handler.                                                            *)

Running == frames # <<>> /\ (IF tx = Absent THEN TRUE ELSE tx.stage = "handler")
Inner == frames[Len(frames)]
Next1 == Inner.steps[Inner.pc]
Advanced ==
    [frames EXCEPT ![Len(frames)] =
        [key |-> Inner.key, steps |-> Inner.steps, pc |-> Inner.pc + 1, how |-> Inner.how]]
HandlerStep ==
    /\ Running /\ Inner.pc <= Len(Inner.steps) /\ Next1.do \notin {"call", "jump", "raise"}
    /\ live' = Does(live, Next1)
    /\ frames' = Advanced
    /\ UNCHANGED <<cfg, hookTable, passing, active, tx, told, total, counts, hookCalls, ended, passed, entry>>
(* A hook calls another, or jumps to it, at its own address.               *)
HandlerEnters ==
    /\ Running /\ Inner.pc <= Len(Inner.steps) /\ Next1.do \in {"call", "jump"}
    /\ LET name == IF Hooked(hookTable, Next1.key) THEN hookTable[Next1.key] ELSE Next1.default
       IN  EnterHook(Next1.key, name, Does(live, Next1), Advanced, "bare", cfg.nested)
(* The front end unwinds the host to wait for its frame.                   *)
HandlerRaises ==
    /\ Running /\ Inner.pc <= Len(Inner.steps) /\ Next1.do = "raise"
    /\ Escape("parked", Absent)
    /\ live' = Does(live, Next1)
    /\ UNCHANGED <<cfg, passing, total, counts, hookCalls, passed, entry>>
(* A verified handler's end: where it left the machine is where the        *)
(* oracle has to come.                                                     *)
HandlerEnds ==
    /\ Running /\ Inner.pc > Len(Inner.steps)
    /\ frames' = SubSeq(frames, 1, Len(frames) - 1)
    /\ active' = (active /\ Inner.how \notin {"unasked", "skipped"})
    /\ IF Inner.how = "judged"
       THEN /\ tx' = [tx EXCEPT !.stage = IF cfg.kind = "stops" THEN "diff" ELSE "oracle",
                                !.targets = IF cfg.kind = "stops" THEN @ ELSE {live.at}]
            /\ hookTable' = TableRestored
            /\ told' = IF cfg.kind = "pm" THEN Tell(told, "unverified") ELSE told
       ELSE /\ told' = Tell(told, IF Inner.how = "nested" THEN "unverified" ELSE Reported(Inner))
            /\ UNCHANGED <<tx, hookTable>>
    /\ UNCHANGED <<cfg, live, passing, total, counts, hookCalls, ended, passed, entry>>
(* The host runs the program on from where it was parked.                  *)
Resume ==
    /\ ended # Absent /\ ended.why = "parked" /\ ended' = Absent
    /\ UNCHANGED <<cfg, live, hookTable, passing, frames, active, tx, told, total, counts, hookCalls, passed, entry>>

-----------------------------------------------------------------------------
(* The oracle, and the verdict.                                            *)

Arrived == tx.steps >= tx.least /\ tx.asm.at \in tx.targets
OracleStep ==
    /\ tx # Absent /\ tx.stage = "oracle" /\ ~Arrived /\ tx.steps <= MaxSteps
    /\ tx' = [tx EXCEPT !.asm = OracleExecutes(@, tx.hooks), !.steps = @ + 1]
    /\ UNCHANGED <<cfg, live, hookTable, passing, frames, active, told, total, counts, hookCalls, ended, passed, entry>>
OracleArrives ==
    /\ tx # Absent /\ tx.stage = "oracle" /\ Arrived /\ tx.steps <= MaxSteps
    /\ IF cfg.kind = "stops"
       THEN /\ tx' = [tx EXCEPT !.stage = "handler"]
            /\ frames' = Append(frames, HostFrame(tx.key, tx.name, "judged"))
            /\ hookTable' = LiveTable
       ELSE /\ tx' = [tx EXCEPT !.stage = "diff"]
            /\ UNCHANGED <<frames, hookTable>>
    /\ UNCHANGED <<cfg, live, passing, active, told, total, counts, hookCalls, ended, passed, entry>>
OracleGivesUp ==
    /\ tx # Absent /\ tx.stage = "oracle" /\ tx.steps > MaxSteps
    /\ Escape("inconclusive", IF cfg.kind = "pm" THEN tx.before ELSE Absent)
    /\ UNCHANGED <<cfg, live, passing, total, counts, hookCalls, passed, entry>>

(* The strict verifiers stop at a difference, others go on.  The limit is  *)
(* an exception too, after the last verdict.                               *)
Diverged == Differ(tx.asm, live)
Judged == [key |-> tx.key, before |-> tx.before, after |-> live, steps |-> tx.steps]
SampledOut == cfg.samples # 0 /\ counts[tx.key] + 1 >= cfg.samples
Finish ==
    /\ tx # Absent /\ tx.stage = "diff"
    /\ total' = IF cfg.kind = "pm" /\ Diverged /\ cfg.halts THEN total ELSE total + 1
    /\ counts' = IF cfg.kind = "pm" /\ ~(Diverged /\ cfg.halts) THEN [counts EXCEPT ![tx.key] = @ + 1] ELSE counts
    /\ passed' = IF Diverged THEN passed ELSE Judged
    /\ passing' = IF cfg.kind = "pm" /\ SampledOut /\ ~(Diverged /\ cfg.halts) THEN passing \cup {tx.key} ELSE passing
    /\ LET verdict == IF cfg.kind = "pm" /\ Diverged /\ cfg.halts THEN told ELSE Tell(told, "verified")
           limit == cfg.max # 0 /\ total + 1 >= cfg.max
       IN  IF (Diverged /\ cfg.halts) \/ limit
           THEN /\ ended' = [why |-> IF Diverged /\ cfg.halts THEN "diverged" ELSE "limit", from |-> entry,
                             repro |-> IF Diverged /\ cfg.halts THEN tx.before ELSE Absent]
                /\ told' = Unwound(verdict)
                /\ frames' = <<>>
           ELSE /\ told' = verdict
                /\ UNCHANGED <<frames, ended>>
    /\ tx' = Absent /\ active' = FALSE
    /\ UNCHANGED <<cfg, live, hookTable, hookCalls, entry>>

HooksInit ==
    /\ cfg \in Configs
    /\ live = [at |-> 1, v |-> 0, sp |-> StackSize, cells |-> [c \in 0..StackSize - 1 |-> 0]]
    /\ hookTable = cfg.table /\ passing = cfg.passing
    /\ frames = <<>> /\ active = FALSE /\ tx = Absent /\ told = [v \in Verdicts |-> 0] /\ total = 0
    /\ counts = [k \in Location |-> 0]
    /\ hookCalls = 0 /\ ended = Absent /\ passed = Absent /\ entry = Absent
HooksNext ==
    \/ Interpret \/ Dispatch \/ HandlerStep \/ HandlerEnters \/ HandlerRaises \/ HandlerEnds \/ Resume
    \/ OracleStep \/ OracleArrives \/ OracleGivesUp \/ Finish
HooksSpec == HooksInit /\ [][HooksNext]_verifyVars

-----------------------------------------------------------------------------
(* Properties.                                                             *)

(* The original program alone, from a machine.                             *)
Original(m, n) == LET Run[i \in 0..n] == IF i = 0 THEN m ELSE Execute(Run[i - 1]) IN Run
Alike(a, b, exact) ==
    /\ a.at = b.at /\ a.v = b.v /\ a.sp = b.sp
    /\ \A c \in DOMAIN a.cells : a.cells[c] = b.cells[c] \/ (~exact /\ c \in DeadCells(a))

(* The oracle keeps no hooks.                                              *)
PlainOracle == cfg.kind = "pm" \/ (cfg.kind = "auto" /\ ~cfg.keeps)

(* A hook that was found equal left the machine where the original program *)
(* comes from the same start, after at least an instruction, the first     *)
(* time it comes by: nested hooks are covered by it, wrong ones included.  *)
VerifiedReached ==
    passed # Absent /\ PlainOracle =>
        LET run == Original(passed.before, MaxSteps + 1)
        IN  \E n \in 1..MaxSteps + 1 :
                /\ Alike(run[n], passed.after, cfg.kind = "pm")
                /\ \A i \in 1..n - 1 : run[i].at # passed.after.at

(* A difference is reported with the machine as it was before the hook,    *)
(* which the live one no longer is.                                        *)
ReproBefore == ended # Absent /\ ended.why = "diverged" => ended.repro = entry

(* Outside a verified call the hooks are those that were installed, the    *)
(* guard is off, and no transaction is left behind, however calls ended.   *)
TableKept ==
    frames = <<>> /\ tx = Absent => hookTable = cfg.table /\ ~active
(* Telemetry counts a hook as verified when it was compared, and once.     *)
(* (In protected mode a verified call is told as an unverified one, too.)  *)
ToldTruly == told["verified"] = total
VerifierHonest == VerifiedReached /\ ReproBefore /\ TableKept /\ ToldTruly
=============================================================================
