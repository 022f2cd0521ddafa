---------------------------- MODULE FrameVerify ----------------------------
(***************************************************************************)
(* The frame verifier (src/dos_re/frame_verify.py): the original program   *)
(* and the one with replacement hooks run side by side, from one semantic  *)
(* frame boundary to the next, and what they show there is compared.       *)
(*                                                                         *)
(* A boundary is a routine of the program whose hook is wrapped so that it *)
(* raises when it is over.  The program polls a key, draws with it, and    *)
(* calls the routine that presents the frame.                              *)
(***************************************************************************)
EXTENDS Integers, Sequences, FiniteSets

CONSTANTS
    Program,     \* the original program: an instruction per location
    Hooks,       \* what each hook does, by name: the steps of a handler
    Configs,     \* the hooks of each side, the boundaries, what is compared
    Keys,        \* keys a player may press
    Budget,      \* steps a side may take to a boundary
    MaxFrames,
    MaxTyped     \* bound: keys pressed

VARIABLES
    cfg,
    sides,       \* the runtimes "ref" and "cand": machine, hooks, and the calls of the host in them
    phase,       \* "pump", "ref", "cand", "compare", or "over"
    frame,
    typed,       \* keys waiting for the pair's boundary
    pressed,     \* keys pressed
    samples,     \* what each side showed at its boundary
    repro,       \* the runtimes as the pair began
    report,      \* the divergence, and when
    result       \* what the verifier returned, or the exception it raised

frameVars == <<cfg, sides, phase, frame, typed, pressed, samples, repro, report, result>>
None == [none |-> TRUE]
Sides == {"ref", "cand"}

-----------------------------------------------------------------------------
(* The program.                                                            *)

Blank == [at |-> 1, key |-> 0, cells |-> <<0, 0>>, dac |-> 1, start |-> 0, stack |-> <<>>, n |-> 0]
Returned(m) == [m EXCEPT !.at = Head(m.stack), !.stack = Tail(@)]
Operate(m, i) ==
    CASE i.op = "draw" -> [m EXCEPT !.cells[i.cell] = (@ + m.key + 1) % 4, !.at = @ + 1]
      [] i.op = "dac" -> [m EXCEPT !.dac = (@ + 1) % 3, !.at = @ + 1]
      [] i.op = "flip" -> [m EXCEPT !.start = 1 - @, !.at = @ + 1]
      [] i.op = "poll" -> IF m.key = 0 THEN [m EXCEPT !.at = i.to] ELSE [m EXCEPT !.at = @ + 1]
      [] i.op = "drop" -> [m EXCEPT !.key = 0, !.at = @ + 1]
      [] i.op = "call" -> [m EXCEPT !.at = i.to, !.stack = <<m.at + 1>> \o @]
      [] i.op = "jmp" -> [m EXCEPT !.at = i.to]
      [] i.op = "ret" -> Returned(m)
Counted(m) == [m EXCEPT !.n = @ + 1]
Execute(m) == Counted(Operate(m, Program[m.at]))
Handled(m, name) ==
    LET After[k \in 0..Len(Hooks[name])] == IF k = 0 THEN m ELSE Operate(After[k - 1], Hooks[name][k])
    IN  After[Len(Hooks[name])]

-----------------------------------------------------------------------------
(* One side.  Its hooks are "none", a handler's name, or "boundary".       *)

Boundary(key) == \E b \in cfg.boundaries : b.at = key
Kind(key) == (CHOOSE b \in cfg.boundaries : b.at = key).kind
(* The reference keeps the hooks that stand for the environment only.      *)
Kept(side, hooks) ==
    [l \in DOMAIN Program |->
        IF l \in cfg.disabled \/ (side = "ref" /\ l \notin cfg.env) THEN "none" ELSE hooks[l]]
Wrapped(hooks) == [l \in DOMAIN Program |-> IF Boundary(l) THEN "boundary" ELSE hooks[l]]
Runtime(side) ==
    [m |-> Blank, base |-> Kept(side, cfg.hooks), table |-> Wrapped(Kept(side, cfg.hooks)),
     inner |-> <<>>, steps |-> 0, start |-> 0, hooks |-> <<>>]

(* Whether the original routine runs behind a boundary's wrapper.          *)
RunsOriginal(side, r, key) == (side = "ref" /\ key \notin cfg.env) \/ r.base[key] = "none"
(* The routine's hook is out of the way while its original runs.           *)
Outer(r) == r.inner[Len(r.inner)]
Aside(r, key) ==
    [r EXCEPT !.table[key] = "none", !.inner = Append(@, [key |-> key, to |-> Head(r.m.stack), steps |-> 0, from |-> r.m.n])]
(* Every wrapper that was out of the way is put back when its frame is     *)
(* left, by the boundary within it too, or for want of time.               *)
Back(r) == [r EXCEPT !.table = [l \in DOMAIN @ |-> IF \E i \in DOMAIN r.inner : r.inner[i].key = l THEN "boundary" ELSE @[l]],
                     !.inner = <<>>]

(* The hooks seen last.                                                    *)
LogLength == 2
Logged(r, key) ==
    LET all == Append(r.hooks, key)
    IN  [r EXCEPT !.hooks = IF Len(all) > LogLength THEN SubSeq(all, 2, Len(all)) ELSE all]

(* cpu.step: <<runtime, the boundary that was reached or None>>.           *)
Step(side, r) ==
    LET key == r.m.at
        seen == Logged(r, key)
    IN  CASE r.table[key] = "none" -> <<[r EXCEPT !.m = Execute(@)], None>>
          [] r.table[key] \notin {"none", "boundary"} ->
                <<[seen EXCEPT !.m = Counted(Handled(@, r.table[key]))], None>>
          [] r.table[key] = "boundary" /\ RunsOriginal(side, r, key) -> <<Aside(seen, key), None>>
          [] r.table[key] = "boundary" /\ ~RunsOriginal(side, r, key) ->
                <<Back([seen EXCEPT !.m = Handled(@, r.base[key])]), [key |-> key, steps |-> 0]>>
Arrived(r) == r.inner # <<>> /\ r.m.at = Outer(r).to
(* An arrival after exactly Budget steps is not looked for.                *)
TimedOut(r) == IF r.inner # <<>> THEN Outer(r).steps >= Budget ELSE r.steps >= Budget
(* A step of the loop that is innermost: the runner's, or that of a        *)
(* boundary's original.                                                    *)
Ran(side, r) ==
    LET counted == IF r.inner # <<>> THEN [r EXCEPT !.inner[Len(r.inner)].steps = @ + 1]
                   ELSE [r EXCEPT !.steps = @ + 1]
    IN  IF Arrived(r)
        THEN <<Back(r), [key |-> Outer(r).key, steps |-> r.m.n - Outer(r).from]>>
        ELSE Step(side, counted)
(* The poll of a key that no boundary is in is one by itself.              *)
Waits(before, after) ==
    before.inner = <<>> /\ after.inner = <<>> /\ after.m.at \in cfg.waits /\ after.m.key = 0

Rgb(m) == <<m.cells[1], m.dac, m.cells[2], m.dac>>
Sample(r, kind, key, steps) ==
    [kind |-> kind, hook |-> key, raw |-> r.m.cells, rgb |-> Rgb(r.m), display |-> r.m.start, steps |-> steps,
     sinceStart |-> r.m.n - r.start, hooks |-> r.hooks]

-----------------------------------------------------------------------------
(* The pair.                                                               *)

Type ==
    /\ pressed < MaxTyped /\ phase # "over"
    /\ \E k \in Keys : typed' = Append(typed, k)
    /\ pressed' = pressed + 1
    /\ UNCHANGED <<cfg, sides, phase, frame, samples, repro, report, result>>
(* Both sides get the same keys, between two frames, before the runtimes   *)
(* are kept for a divergence.                                              *)
Pumped(r) == IF typed = <<>> \/ r.m.key # 0 THEN r ELSE [r EXCEPT !.m.key = Head(typed)]
Begin(r) == [r EXCEPT !.steps = 0, !.start = r.m.n]
Pump ==
    /\ phase = "pump" /\ frame <= MaxFrames
    /\ sides' = [s \in Sides |-> Begin(Pumped(sides[s]))]
    /\ typed' = IF typed # <<>> /\ \A s \in Sides : sides[s].m.key = 0 THEN Tail(typed) ELSE typed
    /\ repro' = sides'
    /\ phase' = "ref" /\ samples' = [s \in Sides |-> None]
    /\ UNCHANGED <<cfg, frame, pressed, report, result>>
(* A runtime that is asked to stop does, between two frames.               *)
Stop ==
    /\ phase = "pump"
    /\ frame > MaxFrames \/ cfg.stops
    /\ phase' = "over" /\ result' = [code |-> 0]
    /\ UNCHANGED <<cfg, sides, frame, typed, pressed, samples, repro, report>>

Advance(side) ==
    LET ran == Ran(side, sides[side])
        reached == IF ran[2] # None THEN Sample(ran[1], Kind(ran[2].key), ran[2].key, ran[2].steps)
                   ELSE IF Waits(sides[side], ran[1])
                   THEN Sample(ran[1], "wait", ran[1].m.at, ran[1].m.n - ran[1].start)
                   ELSE None
    IN  /\ phase = side /\ ~TimedOut(sides[side])
        /\ sides' = [sides EXCEPT ![side] = ran[1]]
        /\ samples' = [samples EXCEPT ![side] = reached]
        /\ phase' = IF reached = None THEN side ELSE IF side = "ref" THEN "cand" ELSE "compare"
        /\ UNCHANGED <<cfg, frame, typed, pressed, repro, report, result>>
GiveUp(side) ==
    /\ phase = side /\ TimedOut(sides[side])
    /\ sides' = [sides EXCEPT ![side] = Back(@)]
    /\ phase' = "over" /\ result' = [raised |-> "timeout"]
    /\ UNCHANGED <<cfg, frame, typed, pressed, samples, repro, report>>

Differences(ref, cand) ==
    (IF ref.kind # cand.kind \/ ref.hook # cand.hook THEN {"boundary"} ELSE {})
    \cup (IF ref.display # cand.display THEN {"display"} ELSE {})
    \cup (IF cfg.source \in {"vram", "both"} /\ ref.raw # cand.raw THEN {"raw"} ELSE {})
    \cup (IF cfg.source \in {"rgb", "both"} /\ ref.rgb # cand.rgb THEN {"rgb"} ELSE {})
Compare ==
    /\ phase = "compare"
    /\ LET differ == Differences(samples["ref"], samples["cand"])
       IN  IF differ = {}
           THEN /\ frame' = frame + 1 /\ phase' = "pump"
                /\ UNCHANGED <<report, result>>
           ELSE /\ report' = [in |-> differ, frame |-> frame]
                /\ result' = [code |-> IF cfg.halts THEN 1 ELSE 0]
                /\ phase' = "over"
                /\ UNCHANGED frame
    /\ UNCHANGED <<cfg, sides, typed, pressed, samples, repro>>

(* What is written of a divergence: where, how much, and a picture.        *)
FirstDiff(a, b) ==
    LET n == IF Len(a) < Len(b) THEN Len(a) ELSE Len(b)
        differ == {i \in 1..n : a[i] # b[i]}
    IN  IF differ # {} THEN (CHOOSE i \in differ : \A j \in differ : i <= j) - 1
        ELSE IF Len(a) # Len(b) THEN n ELSE -1
ByteDiffCount(a, b) ==
    LET n == IF Len(a) < Len(b) THEN Len(a) ELSE Len(b)
    IN  Cardinality({i \in 1..n : a[i] # b[i]}) + (IF Len(a) > Len(b) THEN Len(a) - Len(b) ELSE Len(b) - Len(a))
(* A pixel is Channels bytes; 1 is white.                                  *)
Channels == 2
DiffFrame(a, b) ==
    LET whole == (IF Len(a) < Len(b) THEN Len(a) ELSE Len(b)) \div Channels
        pixel(i) == (i - 1) \div Channels
        bytes(s, p) == SubSeq(s, (p * Channels) + 1, (p + 1) * Channels)
    IN  [i \in 1..Len(a) |->
            IF pixel(i) < whole THEN IF bytes(a, pixel(i)) # bytes(b, pixel(i)) THEN 1 ELSE 0
            ELSE IF Len(a) # Len(b) THEN 1 ELSE 0]

Init ==
    /\ cfg \in Configs
    /\ sides = [s \in Sides |-> Runtime(s)]
    /\ phase = "pump" /\ frame = 1 /\ typed = <<>> /\ pressed = 0
    /\ samples = [s \in Sides |-> None] /\ repro = [s \in Sides |-> None]
    /\ report = None /\ result = None
Next ==
    \/ Type \/ Pump \/ Stop \/ Compare
    \/ \E side \in Sides : Advance(side) \/ GiveUp(side)
Spec == Init /\ [][Next]_frameVars

-----------------------------------------------------------------------------
(* Properties.                                                             *)

(* Hooks that do what the original does are never reported, whatever the   *)
(* player types and when: both sides are given the same input at the same  *)
(* point, and neither keeps a wrapper that is out of the way.              *)
NoFalseAlarm == cfg.faithful => report = None
(* A divergence can be reproduced: from the runtimes kept of the pair's    *)
(* beginning the same two samples come out.                                *)
Replay(side, r) ==
    LET From[k \in 0..2 * Budget] ==
            IF k = 0 THEN [r |-> r, s |-> None]
            ELSE LET p == From[k - 1]
                     ran == Ran(side, p.r)
                 IN  IF p.s # None THEN p
                     ELSE [r |-> ran[1],
                           s |-> IF ran[2] # None THEN Sample(ran[1], Kind(ran[2].key), ran[2].key, ran[2].steps)
                                 ELSE IF Waits(p.r, ran[1])
                                 THEN Sample(ran[1], "wait", ran[1].m.at, ran[1].m.n - ran[1].start) ELSE None]
    IN  From[2 * Budget].s
Reproduced == report # None => \A s \in Sides : Replay(s, repro[s]) = samples[s]
(* Between two frames, and after the last, every boundary has its wrapper  *)
(* and every other location its hook.                                      *)
WrappersKept ==
    phase \in {"pump", "compare", "over"} => \A s \in Sides : sides[s].table = Wrapped(sides[s].base) /\ sides[s].inner = <<>>
(* The report's numbers and picture tell of the bytes that differ.         *)
PictureShows ==
    report # None =>
        LET a == samples["ref"].rgb
            b == samples["cand"].rgb
            picture == DiffFrame(a, b)
        IN  /\ (FirstDiff(a, b) = -1) = (a = b) /\ (ByteDiffCount(a, b) = 0) = (a = b)
            /\ FirstDiff(a, b) >= 0 => picture[FirstDiff(a, b) + 1] = 1
            /\ ByteDiffCount(a, b) <= Cardinality({i \in DOMAIN picture : picture[i] = 1})
FramesHonest == NoFalseAlarm /\ Reproduced /\ WrappersKept /\ PictureShows
=============================================================================
