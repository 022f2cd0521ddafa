------------------------------ MODULE Snapshots ------------------------------
(***************************************************************************)
(* The ways a real-mode machine is saved and made again: a replay's        *)
(* continuation, a snapshot on disk and a clone (src/dos_re/snapshot.py,   *)
(* snapshot_headless.py, snapshot_runtime.py), and the shells they are put *)
(* onto (runtime_core.py).                                                 *)
(*                                                                         *)
(* A machine m is one record.  State that every way treats alike is one    *)
(* group of m.of; what is treated in a way of its own has a field.  What a *)
(* device does in between is in the modules of the devices: a call here    *)
(* does just enough to tell two machines apart.  Each call is an           *)
(* instruction, and answers in "says".                                     *)
(***************************************************************************)
EXTENDS Integers, Sequences, SequencesExt, FiniteSetsExt

CONSTANTS LogCapacity,   \* entries of the port log; 4096 in the code
          TailLength,    \* of the log a snapshot keeps, 128 in the code, and of the text, 4096
          GameFiles      \* the game's directory: contents by name

(* Registers, memory, planes, palette, speaker, console's keys, heap ...   *)
Everywhere == {"registers", "memory", "planes", "palette", "console", "heap"}
(* ... and what clone_runtime_state makes anew: the registers read back    *)
(* from the display, its read mode and panning, timer 0, the keyboard's    *)
(* controller and shifts, the mouse, the port policy.                      *)
NotCloned == {"latched", "panning", "timer", "keyboard", "mouse", "policy"}
Groups == Everywhere \cup NotCloned
BiosHooks == {"int 9", "iret"}
Nothing == [x \in {} |-> 0]
Leave(m, says) == [m |-> m, says |-> says]

-----------------------------------------------------------------------------
(* Shells.  A machine made from an image keeps the vectors the image has;  *)
(* one made from a program gets a stub for each that is empty.             *)

Shell ==
    [of |-> [g \in Groups |-> 0], speaker |-> 0, count |-> 0, anchor |-> 0, halted |-> FALSE, depth |-> 0,
     files |-> Nothing, overlay |-> Nothing, saving |-> FALSE, sink |-> Nothing, log |-> <<>>, printed |-> <<>>,
     timed |-> FALSE, hooks |-> {}, vectors |-> [v \in {8, 9} |-> "none"], pic |-> <<>>, card |-> <<>>, stash |-> <<>>]
InstallBiosHooks(m) == [m EXCEPT !.hooks = @ \cup BiosHooks]
InitBios(m) ==
    [m EXCEPT !.vectors = [v \in DOMAIN @ |-> IF @[v] # "none" THEN @[v] ELSE IF v = 9 THEN "int 9" ELSE "iret"]]
FromProgram == InstallBiosHooks(InitBios(Shell))
FromImage(memory, registers, vectors) ==
    InstallBiosHooks([Shell EXCEPT !.of["memory"] = memory, !.of["registers"] = registers, !.vectors = vectors])

FreshPic == [masked |-> FALSE, requested |-> FALSE, served |-> FALSE]
FreshCard(stub) == [stub |-> stub, active |-> FALSE, line |-> FALSE, pending |-> FALSE, due |-> 0]
Fire(m) == [m EXCEPT !.card = <<[@[1] EXCEPT !.line = TRUE]>>, !.pic = <<[@[1] EXCEPT !.requested = TRUE]>>]
Stalled(card) == card # <<>> /\ card[1].active /\ ~card[1].line /\ ~card[1].pending
(* (A faulty one, to break properties, as the code once had it: a block    *)
(* that is pending is ended at once.)                                      *)
RearmAlways(m) == IF m.card # <<>> /\ m.card[1].active THEN Fire(m) ELSE m
Rearm(m) == IF Stalled(m.card) THEN Fire(m) ELSE m
(* The card and a fresh controller are attached, and get what a snapshot   *)
(* that was loaded had of a card.                                          *)
EnableSoundBlaster(m, stub) ==
    LET attached == [m EXCEPT !.pic = <<FreshPic>>, !.card = <<FreshCard(stub)>>]
    IN  IF m.stash = <<>> THEN Leave(attached, "attached")
        ELSE IF m.stash[1].stub # stub THEN Leave(attached, "raises")
        ELSE Leave(Rearm([attached EXCEPT !.card = m.stash, !.stash = <<>>]), "attached")

-----------------------------------------------------------------------------
(* What a program does with its machine.                                   *)

Set(m, g, v) == Leave([m EXCEPT !.of[g] = v], <<>>)
Get(m, g) == Leave(m, <<m.of[g]>>)
StartTimer(m) == Leave([m EXCEPT !.anchor = m.count], <<>>)
ReadTimer(m) == Leave(m, <<m.count - m.anchor>>)
SetVector(m, v) == Leave([m EXCEPT !.vectors[v] = "own"], <<>>)
Chain(m, v) == Leave(m, <<IF m.vectors[v] \in BiosHooks \ m.hooks THEN "interpreted" ELSE m.vectors[v]>>)
CallSub(m) == Leave([m EXCEPT !.depth = @ + 1], <<m.depth>>)
Halt(m) == Leave([m EXCEPT !.halted = TRUE], <<>>)
PrintText(m, c) == Leave([m EXCEPT !.printed = Append(@, c)], <<>>)

PortWrite(m, port, v) ==
    Leave([m EXCEPT !.log = IF Len(@) < LogCapacity THEN Append(@, <<port, v>>) ELSE @,
                    !.speaker = IF port = "speaker" THEN v ELSE @], <<>>)
ReadSpeaker(m) == Leave(m, <<m.speaker>>)

FreeHandle(m) == Min((5..(5 + Cardinality(DOMAIN m.files))) \ DOMAIN m.files)
Opened(m, path, data, writable) ==
    LET h == FreeHandle(m)
    IN  Leave([m EXCEPT !.files = (h :> [path |-> path, data |-> data, pos |-> 0, writable |-> writable, shared |-> writable /\ m.saving]) @@ @],
              <<h>>)
CreateFile(m, path) ==
    LET alone == [m EXCEPT !.files = [h \in DOMAIN @ |-> [@[h] EXCEPT !.shared = @ /\ m.files[h].path # path]]]
    IN  Opened(IF m.saving THEN [alone EXCEPT !.overlay = (path :> <<>>) @@ @] ELSE m, path, <<>>, TRUE)
Exists(m, path) == (m.saving /\ path \in DOMAIN m.overlay \cup DOMAIN m.sink) \/ path \in DOMAIN GameFiles
Loaded(m, path) ==
    CASE m.saving /\ path \in DOMAIN m.overlay -> m.overlay[path]
      [] m.saving /\ path \in DOMAIN m.sink -> m.sink[path]
      [] OTHER -> GameFiles[path]
OpenFile(m, path) == IF Exists(m, path) THEN Opened(m, path, Loaded(m, path), FALSE) ELSE Leave(m, <<"refused">>)
WriteFile(m, h, v) ==
    IF h \notin DOMAIN m.files THEN Leave(m, <<"refused">>)
    ELSE LET f == m.files[h]
             data == [i \in 1..(IF f.pos = Len(f.data) THEN Len(f.data) + 1 ELSE Len(f.data)) |-> IF i = f.pos + 1 THEN v ELSE f.data[i]]
         IN  Leave([m EXCEPT !.files[h] = [@ EXCEPT !.data = data, !.pos = @ + 1],
                             !.overlay = IF f.shared THEN (f.path :> data) @@ @ ELSE @], <<>>)
ReadFile(m, h) ==
    IF h \notin DOMAIN m.files THEN Leave(m, <<"refused">>)
    ELSE Leave([m EXCEPT !.files[h].pos = Len(m.files[h].data)], SubSeq(m.files[h].data, m.files[h].pos + 1, Len(m.files[h].data)))
Rewound(m, h) == IF h \in DOMAIN m.files THEN Leave([m EXCEPT !.files[h].pos = 0], <<>>) ELSE Leave(m, <<"refused">>)
CloseFile(m, h) ==
    IF h \notin DOMAIN m.files THEN Leave(m, <<>>)
    ELSE LET path == m.files[h].path
         IN  Leave([m EXCEPT !.files = [k \in DOMAIN @ \ {h} |-> @[k]],
                             !.sink = IF m.saving /\ m.files[h].writable /\ path \in DOMAIN m.overlay
                                      THEN (path :> m.overlay[path]) @@ @ ELSE @], <<>>)

(* Sound: a block is asked for, plays for two ticks and then interrupts.   *)
Play(m) == Leave([m EXCEPT !.card = <<[@[1] EXCEPT !.active = TRUE, !.pending = TRUE, !.due = 2]>>], <<>>)
Tick(m) ==
    LET c == m.card[1]
        passed == [m EXCEPT !.card = <<[c EXCEPT !.due = IF @ = 0 THEN 0 ELSE @ - 1, !.pending = @ /\ c.due > 1]>>]
    IN  Leave(IF c.pending /\ c.due <= 1 THEN Fire(passed) ELSE passed, <<>>)
ReadStatus(m) == Leave([m EXCEPT !.card = <<[@[1] EXCEPT !.line = FALSE]>>], <<>>)
Mask(m, masked) == Leave([m EXCEPT !.pic = <<[@[1] EXCEPT !.masked = masked]>>], <<>>)
Acknowledge(m) ==
    IF m.pic[1].requested /\ ~m.pic[1].served /\ ~m.pic[1].masked
    THEN Leave([m EXCEPT !.pic = <<[@[1] EXCEPT !.requested = FALSE, !.served = TRUE]>>], <<"irq">>) ELSE Leave(m, <<"none">>)
EndOfInterrupt(m) == Leave([m EXCEPT !.pic = <<[@[1] EXCEPT !.served = FALSE]>>], <<>>)

Does(m, c) ==
    CASE c[1] = "set" -> Set(m, c[2], c[3]) [] c[1] = "get" -> Get(m, c[2]) [] c[1] = "start" -> StartTimer(m)
      [] c[1] = "timer" -> ReadTimer(m) [] c[1] = "vector" -> SetVector(m, c[2]) [] c[1] = "chain" -> Chain(m, c[2])
      [] c[1] = "call" -> CallSub(m) [] c[1] = "halt" -> Halt(m) [] c[1] = "print" -> PrintText(m, c[2])
      [] c[1] = "out" -> PortWrite(m, c[2], c[3]) [] c[1] = "speaker" -> ReadSpeaker(m)
      [] c[1] = "create" -> CreateFile(m, c[2]) [] c[1] = "open" -> OpenFile(m, c[2]) [] c[1] = "write" -> WriteFile(m, c[2], c[3])
      [] c[1] = "read" -> ReadFile(m, c[2]) [] c[1] = "seek" -> Rewound(m, c[2]) [] c[1] = "close" -> CloseFile(m, c[2])
      [] c[1] = "play" -> Play(m) [] c[1] = "tick" -> Tick(m) [] c[1] = "status" -> ReadStatus(m) [] c[1] = "mask" -> Mask(m, c[2])
      [] c[1] = "irq" -> Acknowledge(m) [] c[1] = "eoi" -> EndOfInterrupt(m)
Serve(m, c) ==
    IF m.halted THEN Leave(m, <<"halted">>)
    ELSE LET now == Does(m, c) IN Leave([now.m EXCEPT !.count = @ + 1], now.says)
Trail(m, calls) == FoldLeft(LAMBDA trail, c : Append(trail, Serve(trail[Len(trail)].m, c)), <<Leave(m, <<>>)>>, calls)
Says(trail) == [n \in 2..Len(trail) |-> trail[n].says]
From(n, calls) == SubSeq(calls, n, Len(calls))
Final(trail) == trail[Len(trail)].m

-----------------------------------------------------------------------------
(* What is serialised of DOS and the devices, and put back.  A handle's    *)
(* contents are not: they are read from the path again, which must be      *)
(* there.  A snapshot from before a group was saved lacks it: most are     *)
(* then left as the shell has them, the indexed registers are emptied.     *)

End(s, n) == IF Len(s) > n THEN SubSeq(s, Len(s) - n + 1, Len(s)) ELSE s
OnHost == {"registers", "memory"}
CaptureDos(m) ==
    [of |-> [g \in Groups \ OnHost |-> m.of[g]], speaker |-> <<m.speaker>>, anchor |-> m.anchor, saving |-> m.saving,
     files |-> [h \in DOMAIN m.files |-> [path |-> m.files[h].path, pos |-> m.files[h].pos, writable |-> m.files[h].writable]],
     overlay |-> m.overlay, printed |-> End(m.printed, TailLength), tail |-> End(m.log, TailLength), length |-> Len(m.log), card |-> <<>>]

(* Older snapshots: the speaker's writes among the last of the log are     *)
(* done again.                                                             *)
SpeakerFromTail(speaker, tail) ==
    FoldLeft(LAMBDA was, entry : IF entry[1] = "speaker" THEN entry[2] ELSE was, speaker, tail)
History == <<"history", 0>>
Restorable(s) == \A h \in DOMAIN s.files : s.files[h].path \in DOMAIN GameFiles
RestoreDos(m, s) ==
    [m EXCEPT !.of = [g \in Groups |-> IF g \in DOMAIN s.of THEN s.of[g] ELSE IF g = "latched" THEN 0 ELSE @[g]],
              !.speaker = IF s.speaker = <<>> THEN SpeakerFromTail(@, s.tail) ELSE s.speaker[1],
              !.anchor = s.anchor, !.overlay = s.overlay, !.saving = s.saving, !.printed = s.printed,
              !.log = [i \in 1..(s.length - Len(s.tail)) |-> History] \o s.tail,
              !.files = [h \in DOMAIN s.files |-> s.files[h] @@ [data |-> GameFiles[s.files[h].path], shared |-> FALSE]],
              !.stash = s.card]

(* A continuation has the machine whole, but for the save directory; none  *)
(* is taken while the host's clock is looked at.                           *)
Memory(m) == [memory |-> m.of["memory"], registers |-> m.of["registers"], vectors |-> m.vectors]
CaptureContinuation(m) ==
    IF m.timed THEN <<>>
    ELSE << [dos |-> [CaptureDos(m) EXCEPT !.saving = FALSE, !.card = m.card], pic |-> m.pic, memory |-> Memory(m),
             count |-> m.count, halted |-> m.halted, depth |-> m.depth, data |-> [h \in DOMAIN m.files |-> m.files[h].data]] >>
(* The digest of a live machine is that of its continuation.               *)
Projection(m) == CaptureContinuation(m)

Put(m, memory) == [m EXCEPT !.of["memory"] = memory.memory, !.of["registers"] = memory.registers, !.vectors = memory.vectors]
(* Which devices there are must agree before anything is touched.  (A card *)
(* of another kind, or a file that is not there, is found half way: the    *)
(* machine is lost.)                                                       *)
SameDevices(shell, c) == (shell.pic = <<>>) = (c.pic = <<>>) /\ (shell.card = <<>>) = (c.dos.card = <<>>)
SameKind(shell, c) == shell.card # <<>> => shell.card[1].stub = c.dos.card[1].stub
ApplyContinuation(shell, c) ==
    IF ~SameDevices(shell, c) THEN Leave(shell, "refused")
    ELSE IF ~(Restorable(c.dos) /\ SameKind(shell, c)) THEN Leave(shell, "lost")
    ELSE LET dos == RestoreDos([Put(shell, c.memory) EXCEPT !.count = c.count, !.halted = c.halted, !.depth = c.depth], c.dos)
         IN  Leave(Rearm([dos EXCEPT !.saving = FALSE, !.pic = c.pic, !.card = c.dos.card,
                                     !.files = [h \in DOMAIN @ |-> [@[h] EXCEPT !.data = c.data[h]]]]), "applied")

(* A snapshot on disk, and the machine made of it; "steps" is its virtual  *)
(* time.                                                                   *)
WriteSnapshot(m, steps) == [dos |-> [CaptureDos(m) EXCEPT !.card = m.card], memory |-> Memory(m), steps |-> steps]
LoadSnapshot(s, sink) ==
    IF ~Restorable(s.dos) THEN Leave(Shell, "raises")
    ELSE Leave([RestoreDos(Put([FromProgram EXCEPT !.sink = sink], s.memory), s.dos) EXCEPT !.count = s.steps], "loaded")
LoadHeadless(s, sink) ==
    IF ~Restorable(s.dos) THEN Leave(Shell, "raises")
    ELSE Leave([RestoreDos([FromImage(s.memory.memory, s.memory.registers, s.memory.vectors) EXCEPT !.sink = sink], s.dos) EXCEPT !.count = s.steps], "loaded")

(* A clone has no sound, no clock and no save directory.                   *)
CloneRuntime(m) ==
    [Shell EXCEPT !.of = [g \in Groups |-> IF g \in NotCloned THEN 0 ELSE m.of[g]], !.speaker = m.speaker,
                  !.count = m.count, !.halted = m.halted, !.depth = m.depth, !.log = m.log, !.printed = m.printed,
                  !.hooks = m.hooks, !.vectors = m.vectors,
                  !.files = [h \in DOMAIN m.files |-> [m.files[h] EXCEPT !.shared = FALSE]]]

-----------------------------------------------------------------------------
(* run_until: an instruction ends well, or raises what ends the run.       *)

RunUntil(max, stop, program, keep) ==
    LET Arrives(n) == n \in stop
        Raises(n) == program[n] # "ok"
        ends == {n \in 1..max : Arrives(n) \/ Raises(n)}
        first == Min(ends)
        Traced(n) == End([i \in 1..n |-> i], keep)
    IN  IF ends = {} THEN [why |-> "max", steps |-> max, tail |-> Traced(max)]
        ELSE IF Arrives(first) THEN [why |-> "reached", steps |-> first - 1, tail |-> Traced(first - 1)]
        ELSE [why |-> program[first], steps |-> first, tail |-> Traced(first - 1)]

-----------------------------------------------------------------------------
(* Properties.                                                             *)

(* A continuation put onto a fresh shell with the same devices, or onto    *)
(* the machine it was taken of after that has run on, has the digest it    *)
(* was taken with, tells the program the same, and ends with the digest    *)
(* the machine ends with.  Not so when the program has a file open that it *)
(* created itself (the path is not there, and the restore raises), when    *)
(* the card is kicked on, and when saving was on; then at least nothing is *)
(* saved any more.                                                         *)
Kicked(card) == card # <<>> /\ card[1].active /\ ~(card[1].line \/ card[1].pending)
Resumable(m) == ~m.timed /\ ~Kicked(m.card) /\ Restorable(CaptureDos(m))
Equipped(m) ==
    IF m.card = <<>> THEN FromProgram ELSE EnableSoundBlaster(FromProgram, m.card[1].stub).m
ResumedAlike(calls, trail) ==
    \A n \in DOMAIN trail : Resumable(trail[n].m) =>
        \A shell \in {Equipped(trail[n].m), Final(trail)} :
            \A again \in {ApplyContinuation(shell, CaptureContinuation(trail[n].m)[1])} :
                /\ again.says = "applied"
                /\ Projection(again.m) = Projection(trail[n].m)
                /\ \A on \in {Trail(again.m, From(n, calls))} :
                      IF trail[n].m.saving THEN Final(on).sink = shell.sink
                      ELSE /\ Says(on) = Says(SubSeq(trail, n, Len(trail)))
                           /\ Projection(Final(on)) = Projection(Final(trail))

(* A continuation that needs other devices is refused with nothing touched.*)
RefusedWhole(trail) ==
    \A n \in DOMAIN trail : ~trail[n].m.timed =>
        LET m == trail[n].m
            other == IF m.card = <<>> THEN EnableSoundBlaster(FromProgram, FALSE).m ELSE FromProgram
        IN  ApplyContinuation(other, CaptureContinuation(m)[1]) = Leave(other, "refused")

(* A snapshot that is loaded and given its card tells the program the same *)
(* as the machine it was written of, with either loader - if no handle was *)
(* written to, the machine runs, and its interrupt controller is idle.     *)
Written(m) ==
    /\ ~m.timed /\ ~m.halted /\ m.depth = 0 /\ ~Kicked(m.card) /\ m.pic \in {<<>>, <<FreshPic>>}
    /\ Restorable(CaptureDos(m))
    /\ \A h \in DOMAIN m.files : ~m.files[h].shared /\ m.files[h].data = GameFiles[m.files[h].path]
LoadedAlike(calls, trail) ==
    \A n \in DOMAIN trail : Written(trail[n].m) =>
        LET m == trail[n].m
            s == WriteSnapshot(m, m.count)
        IN  \A loaded \in {LoadSnapshot(s, m.sink), LoadHeadless(s, m.sink)} :
                LET whole == IF m.card = <<>> THEN loaded.m ELSE EnableSoundBlaster(loaded.m, m.card[1].stub).m
                IN  Says(Trail(whole, From(n, calls))) = Says(SubSeq(trail, n, Len(trail)))

(* A clone tells the program the same, if it uses none of what is not      *)
(* cloned.                                                                 *)
Clonable(m) ==
    ~m.timed /\ ~m.saving /\ m.card = <<>> /\ m.anchor = 0 /\ \A g \in NotCloned : m.of[g] = 0
ClonedAlike(calls, trail) ==
    \A n \in DOMAIN trail : Clonable(trail[n].m) =>
        \A on \in {Trail(CloneRuntime(trail[n].m), From(n, calls))} :
            Says(on) = Says(SubSeq(trail, n, Len(trail))) /\ Projection(Final(on)) = Projection(Final(trail))

(* However a machine was made, an interrupt the program passes on to the   *)
(* BIOS meets a native handler.                                            *)
ChainsEnd(trail) ==
    \A n \in DOMAIN trail : ~trail[n].m.timed /\ Restorable(CaptureDos(trail[n].m)) =>
        LET m == trail[n].m
            s == WriteSnapshot(m, m.count)
        IN  \A made \in {m, CloneRuntime(m), LoadSnapshot(s, m.sink).m, LoadHeadless(s, m.sink).m,
                         ApplyContinuation(Equipped(m), CaptureContinuation(m)[1]).m} :
                \A v \in {8, 9} : Chain(made, v).says \in {<<"int 9">>, <<"iret">>, <<"own">>}

(* A snapshot from before the speaker was saved gets its tone from the     *)
(* log, if the log had room and the tone is among its last entries.        *)
ToneRecovered(trail) ==
    \A n \in DOMAIN trail :
        LET m == trail[n].m
            s == CaptureDos(m)
        IN  Restorable(s) /\ Len(m.log) < LogCapacity /\ (\E i \in DOMAIN s.tail : s.tail[i][1] = "speaker")
            => RestoreDos(FromProgram, [s EXCEPT !.speaker = <<>>]).speaker = m.speaker

SnapshotsKept(start, calls) ==
    \A trail \in {Trail(start, calls)} :
        /\ ResumedAlike(calls, trail) /\ RefusedWhole(trail) /\ LoadedAlike(calls, trail)
        /\ ClonedAlike(calls, trail) /\ ChainsEnd(trail) /\ ToneRecovered(trail)

(* The steps a run tells are the instructions it began, and the trace ends *)
(* with those that were ended.                                             *)
RunTold(max, stop, program, keep) ==
    LET r == RunUntil(max, stop, program, keep)
        done == IF r.why \in {"max", "reached"} THEN r.steps ELSE r.steps - 1
    IN  /\ r.steps <= max
        /\ \A i \in 1..done : program[i] = "ok" /\ i \notin stop
        /\ r.why = "reached" => done + 1 \in stop
        /\ r.why \notin {"max", "reached"} => program[done + 1] = r.why
        /\ Len(r.tail) = (IF done < keep THEN done ELSE keep)
        /\ r.tail # <<>> => r.tail[Len(r.tail)] = done
=============================================================================
