---------------------------- MODULE MCComponents ----------------------------
(* The components that do not interact, side by side in one run: in each   *)
(* behaviour one of them runs, and its variables are the ones that move.   *)
(* The components that are operators are applied to a sample.              *)
EXTENDS Integers, Sequences, FiniteSets, ReplayStore, PlanRuntime, FeatureControl, ViewerSession, HookVerify

VARIABLES part, sample,
    pmMachine, pmviewerFrame, stopAt, pmviewerRec, pmviewerPending, host,
    stalled, waiting, pmviewerRunning, exited, sound, named, pmviewerSaved,
    hostActs,
    q, oracle, g, liftedFrames, stopped, interpreted,
    allocations, next, held, blocksAnswer,
    persist, buffers, files, overlay, sink, filesSaved, peak,
    words, second, modifiers, port, vector, heard, physical, typed, got,
    strokes,
    real, pm, answers, calls,
    colours, dacIndex, statusRun, dacGroup, journal, clock, runWas, beam,
    adrift, paused, writes,
    framesCfg, sides, phase, frameNo, framesTyped, pressed, framesShown,
    repro, report, result

Off == [off |-> TRUE]

(* Questions for the planner: a program of three functions, implemented by *)
(* the interpreter, by generated code, and in part by authored functions,  *)
(* a region and attachments.                                               *)

Bare == [origin |-> "interpreted", category |-> "baseline", targets |-> {1, 2, 3},
         carrier |-> "cpu", region |-> TRUE, contract |-> NoContract,
         caps |-> {}, services |-> {}, platforms |-> {}, evidence |-> 1,
         adapters |-> {}, regionAdapters |-> {}]
Authored == [Bare EXCEPT !.origin = "authored", !.category = "faithful",
             !.carrier = NoCarrier, !.region = FALSE]

SomeCatalog == <<
    [Bare EXCEPT !.caps = {"exe", "code", "interpreter"}],
    [Bare EXCEPT !.origin = "generated", !.carrier = "gen"],
    [Authored EXCEPT !.targets = {3}, !.adapters = {"cpu", "gen"}, !.services = {1}],
    [Authored EXCEPT !.targets = {2}, !.region = TRUE, !.carrier = "gen",
        !.contract = [entries |-> {2}, exits |-> {2}, covered |-> {2, 3}, boundaries |-> {"frame"}],
        !.regionAdapters = {"gen"}],
    [Authored EXCEPT !.category = "enhancement", !.targets = {3}, !.adapters = {"gen"}],
    [Authored EXCEPT !.category = "instrumentation", !.targets = {1, 3},
        !.caps = {"instrumentation"}, !.adapters = {"cpu"}],
    [Authored EXCEPT !.category = "behavioral", !.targets = {3}, !.adapters = {"cpu"},
        !.platforms = {"other"}] >>

SomeFeatures == [
    cheat |-> [category |-> "behavioral", authoritative |-> TRUE, channel |-> TRUE,
               boundaries |-> {"frame"}, caps |-> {}, services |-> {}, platforms |-> {}],
    smooth |-> [category |-> "presentation", authoritative |-> FALSE, channel |-> FALSE,
                boundaries |-> {}, caps |-> {"experimental"}, services |-> {2}, platforms |-> {}]]

SomeServices == <<
    [dependencies |-> {2}, caps |-> {}, safe |-> TRUE, platforms |-> {}],
    [dependencies |-> {3}, caps |-> {}, safe |-> TRUE, platforms |-> {}],
    [dependencies |-> {}, caps |-> {"oracle"}, safe |-> FALSE, platforms |-> {}] >>

Edges == {[source |-> 1, target |-> 2, dynamic |-> FALSE],
          [source |-> 2, target |-> 3, dynamic |-> FALSE]}

Plain == [profile |-> "play", policy |-> Policy("play"), overrides |-> <<>>, preference |-> <<>>,
          catalog |-> SomeCatalog, roots |-> {1}, reachable |-> {1, 2, 3}, edges |-> Edges,
          features |-> {}, featureCatalog |-> SomeFeatures, services |-> {},
          serviceCatalog |-> SomeServices, requested |-> {}, platform |-> "here",
          bootstrap |-> [services |-> {}, caps |-> {}, artifacts |-> {},
                         profiles |-> {"play", "verification", "detached", "release"}]]

(* One thing out of the ordinary at a time.                                *)
Variations == {
    Plain,
    [Plain EXCEPT !.edges = Edges \cup {[source |-> 3, target |-> 3, dynamic |-> TRUE]}],
    [Plain EXCEPT !.edges = Edges \cup {[source |-> 3, target |-> 4, dynamic |-> FALSE]}],
    [Plain EXCEPT !.features = {"cheat"}],
    [Plain EXCEPT !.features = {"smooth"}],
    [Plain EXCEPT !.services = {2}],
    [Plain EXCEPT !.serviceCatalog[3] = [@ EXCEPT !.caps = {}, !.safe = TRUE]],
    [Plain EXCEPT !.platform = "none"],
    [Plain EXCEPT !.requested = {"profiling"}],
    [Plain EXCEPT !.catalog[2] = [@ EXCEPT !.targets = {1, 2}]],
    [Plain EXCEPT !.catalog[4] = [@ EXCEPT !.targets = {2, 3}, !.contract.exits = {3}]],
    [Plain EXCEPT !.bootstrap.artifacts =
        {[mode |-> "include", present |-> TRUE, matches |-> FALSE, materializer |-> FALSE]}] }

SomeQuestions ==
    {[v EXCEPT !.profile = profile, !.policy = Policy(profile),
               !.overrides = overrides, !.preference = preference] :
        v \in Variations, profile \in {"play", "verification", "detached", "release"},
        overrides \in {<<>>, <<3>>, <<4>>, <<5>>, <<3, 4>>, <<3, 6>>, <<4, 5>>, <<7>>},
        preference \in {<<1>>, <<2>>}}

(* The features are ones a port may write.                                 *)
ASSUME WellFormedFeatures == \A f \in DOMAIN SomeFeatures : WellFormedFeature(SomeFeatures[f])

(* Features that are recorded, and one that is not; safe at some boundaries,*)
(* at all, and, declaring none, anywhere.                                  *)
SomeChannels == [f \in Planned |-> f # "smooth"]
SomeSafe == [cheat |-> {"frame"}, fast |-> {"frame", "tick"}, smooth |-> {}]

(* A program that calls a routine, which calls another, for ever; its      *)
(* hooks, right and wrong; and ways of verifying them.                     *)
Do(what) == [do |-> what]
AddOne == [do |-> "add", n |-> 1]
CallsLeaf == [do |-> "call", key |-> 8, ret |-> 6, default |-> "leaf"]
HookedCode ==
    LET add == [op |-> "add", n |-> 1]
        to(o, l) == [op |-> o, to |-> l]
    IN  <<to("call", 4), to("jmp", 1), to("jmp", 3), add, to("call", 8), add, [op |-> "ret"], add, [op |-> "ret"]>>
HookHandlers ==
    [whole |-> <<AddOne, CallsLeaf, AddOne, Do("ret")>>,
     inlined |-> <<[do |-> "add", n |-> 3], Do("ret")>>,
     tails |-> <<AddOne, CallsLeaf, [do |-> "jump", key |-> 6, default |-> "end"]>>,
     half |-> <<AddOne, [do |-> "goto", at |-> 5]>>,
     once |-> <<Do("interp")>>,
     wrong |-> <<AddOne, Do("ret")>>,
     idle |-> <<[do |-> "goto", at |-> 4]>>,
     lost |-> <<[do |-> "goto", at |-> 3]>>,
     turn |-> <<[do |-> "call", key |-> 4, ret |-> 2, default |-> "whole"], [do |-> "goto", at |-> 1]>>,
     leaf |-> <<AddOne, Do("ret")>>,
     end |-> <<AddOne, Do("ret")>>,
     paced |-> <<AddOne, Do("ret"), [do |-> "raise", at |-> 6]>>]
HookTable(at4) == [[l \in 1..9 |-> "none"] EXCEPT ![4] = at4]
Verified(kind, at4) ==
    [kind |-> kind, hooks |-> {4}, max |-> 0, halts |-> TRUE, keeps |-> FALSE, nested |-> TRUE, stops |-> <<>>,
     installed |-> HookTable(at4), overrides |-> <<>>, samples |-> 0, table |-> HookTable(at4), passing |-> {}]
Near == [kind |-> "near_ret", ips |-> {}, min |-> 0]
HookConfigs ==
    (* Alone, with and without metadata, and in protected mode.            *)
    {Verified(kind, h) : kind \in {"auto", "pm"}, h \in {"whole", "inlined", "half", "once", "wrong", "idle", "lost"}}
    \cup {[Verified("stops", h) EXCEPT !.stops = [k \in {4} |-> Near]] : h \in {"whole", "inlined", "wrong", "lost"}}
    \cup {[Verified("stops", "half") EXCEPT !.stops = [k \in {4} |-> [kind |-> "near_ret_or_fixed_ips", ips |-> {5}, min |-> 0]]]}
    (* Limits, samples, and differences that do not stop the run.          *)
    \cup {[Verified(kind, h) EXCEPT !.max = max, !.samples = samples, !.halts = FALSE] :
            kind \in {"auto"}, h \in {"whole", "wrong"}, max \in {0, 2}, samples \in {0}}
    \cup {[Verified("pm", h) EXCEPT !.samples = 2, !.halts = halts] : h \in {"whole", "wrong"}, halts \in BOOLEAN}
    (* Hooks within hooks, verified at their own addresses or not.         *)
    \cup {[Verified(kind, h) EXCEPT !.table[8] = child, !.table[6] = "end", !.installed[8] = child, !.hooks = hooks, !.nested = nested] :
            kind \in {"auto", "pm"}, h \in {"whole", "tails"}, child \in {"leaf", "idle"}, hooks \in {{4}, {4, 6, 8}},
            nested \in BOOLEAN}
    \cup {[Verified("stops", "whole") EXCEPT !.table[1] = "turn", !.table[8] = "leaf", !.installed[8] = "leaf", !.hooks = {1, 8},
            !.stops = [k \in keys |-> IF k = 1 THEN [kind |-> "fixed_ips", ips |-> {1}, min |-> 1] ELSE Near]] :
            keys \in {{1}, {1, 8}}}
    (* A front end that paces the leaf and unwinds at its end.             *)
    \cup {[Verified(kind, "whole") EXCEPT !.table[8] = "paced", !.passing = {8}, !.installed[8] = leaf, !.keeps = keeps,
            !.overrides = overrides, !.stops = [k \in {4} |-> Near], !.hooks = hooks] :
            kind \in {"auto", "stops"}, leaf \in {"leaf", "none"}, keeps \in BOOLEAN, hooks \in {{}, {4}},
            overrides \in {<<>>, [k \in {8} |-> "leaf"], [k \in {8} |-> "paced"]}}

LQ == INSTANCE LiftedQuestions WITH Questions <- {}, MaxOracle <- 0
(* A program that waits for a key, draws with it and presents the frame;  *)
(* the retrace it waits for may be a boundary too.                         *)
FrameOp(o) == [op |-> o]
FrameTo(o, l) == [op |-> o, to |-> l]
Draw(cell) == [op |-> "draw", cell |-> cell]
FrameProgram ==
    <<FrameTo("poll", 3), FrameTo("jmp", 4), FrameTo("jmp", 1), Draw(1), FrameOp("drop"), FrameTo("call", 9),
      FrameOp("dac"), FrameTo("jmp", 1), FrameOp("flip"), FrameTo("call", 12), FrameOp("ret"), Draw(2), FrameOp("ret")>>
FrameHooks ==
    [draws |-> <<Draw(1)>>,
     twice |-> <<Draw(1), Draw(1), FrameTo("jmp", 5)>>,
     tints |-> <<FrameOp("dac"), FrameOp("dac"), FrameTo("jmp", 8)>>,
     presents |-> <<FrameOp("flip"), FrameTo("call", 12), Draw(2), FrameOp("ret"), FrameOp("ret")>>,
     stuck |-> <<FrameTo("jmp", 4)>>]
NoFrameHooks == [l \in 1..13 |-> "none"]
Present == [at |-> 9, kind |-> "present"]
Retrace == [at |-> 12, kind |-> "retrace"]
Framed(hooks, faithful) ==
    [hooks |-> hooks, faithful |-> faithful, boundaries |-> {Present}, env |-> {}, disabled |-> {}, waits |-> {1},
     source |-> "both", halts |-> TRUE, stops |-> FALSE]
FrameConfigs ==
    {[Framed([NoFrameHooks EXCEPT ![4] = at4], at4 # "twice") EXCEPT !.boundaries = b, !.waits = w, !.source = source] :
        at4 \in {"none", "draws", "twice"}, b \in {{Present}, {Present, Retrace}}, w \in {{}, {1}}, source \in {"vram", "both"}}
    \cup {[Framed([NoFrameHooks EXCEPT ![4] = "draws", ![9] = "presents"], Cardinality(b) = 1) EXCEPT !.boundaries = b, !.env = env] :
            b \in {{Present}, {Present, Retrace}}, env \in {{}, {9}}}
    \cup {[Framed([NoFrameHooks EXCEPT ![7] = "tints"], FALSE) EXCEPT !.source = source, !.halts = FALSE, !.disabled = off] :
            source \in {"vram", "rgb"}, off \in {{}, {7}}}
    \cup {[Framed([NoFrameHooks EXCEPT ![4] = "stuck"], TRUE) EXCEPT !.stops = TRUE]}

SomeValue(rm, v) == v
SomeConstant(rm) == [n |-> rm, d |-> 1]
PV == INSTANCE PMViewer WITH Steps <- 2, Positions <- {3}, MaxCatchup <- 2, MaxFrames <- 3,
    MaxActs <- 3, m <- pmMachine, frame <- pmviewerFrame, rec <- pmviewerRec,
    pending <- pmviewerPending, running <- pmviewerRunning,
    saved <- pmviewerSaved, acts <- hostActs
LR == INSTANCE LiftedRun WITH Questions <- LQ!LiftedPrograms, MaxOracle <- 40, frames <- liftedFrames
B == INSTANCE DosMemory WITH Psp <- 1, Limit <- 8, Sizes <- {0, 1, 2, 3, 5}, ZeroSizes <- FALSE,
    answer <- blocksAnswer
D == INSTANCE DosFiles WITH Path <- {"a", "b"}, SinkName <- [a |-> "a", b |-> "b"],
    Pristine <- [a |-> <<0>>], Values <- {1}, SharedCreates <- FALSE,
    MaxLength <- 2, MaxOpens <- 2, saved <- filesSaved
C == INSTANCE DosConsole WITH Letter <- {"q"}, Digit <- {"2"}, Extended <- {"up"}, Capacity <- 2,
    MaxTyped <- 5, queue <- words, made <- strokes
N == INSTANCE MouseDriver WITH Width <- 6, Height <- 2, Parts <- 3, Coordinates <- {0, 1, 5},
    MaxCalls <- 3
E == INSTANCE PaletteEvidence WITH Colours <- 2, SyncMaxReads <- 3, LateGap <- 3, Lines <- {2},
    MaxLine <- 3, MaxReads <- 3, MaxWrites <- 4, MaxPauses <- 2,
    palette <- colours, index <- dacIndex, reads <- statusRun,
    group <- dacGroup, now <- clock, run <- runWas, log <- writes
Y == INSTANCE FrameVerify WITH Program <- FrameProgram, Hooks <- FrameHooks, Configs <- FrameConfigs,
    Keys <- {1, 2}, Budget <- 14, MaxFrames <- 4, MaxTyped <- 3,
    cfg <- framesCfg, frame <- frameNo, typed <- framesTyped,
    samples <- framesShown
A == INSTANCE X86Arithmetic
M == INSTANCE MachineMemory WITH Space <- 16, Window <- 8, Paragraph <- 2, Aperture <- 6,
    PlaneWindow <- 3, Rom <- 13, Bits <- 2, Planes <- {0, 1}
J == INSTANCE FlatMemory WITH Space <- 12, Aperture <- 4, Window <- 4, Planes <- {0, 1},
    Default <- [width |-> 2, height |-> 2, offset |-> 1]
I == INSTANCE PMHost WITH PoolBase <- 4, PoolEnd <- 9, Entries <- 2,
    Disk <- [a |-> <<1, 2>>, b |-> <<3, 4, 5>>]
Z == INSTANCE Snapshots WITH LogCapacity <- 3, TailLength <- 2, GameFiles <- [a |-> <<1, 2>>]
O == INSTANCE DevicePorts WITH Base <- 4, Indices <- 0..3
X == INSTANCE CpulessLift
H == INSTANCE X87Stack WITH Math <- SomeValue, Constant <- SomeConstant
F32 == INSTANCE FlatLift
G == INSTANCE Promotion

pmviewerVars == <<pmMachine, pmviewerFrame, stopAt, pmviewerRec, pmviewerPending, host,
      stalled, waiting, pmviewerRunning, exited, sound, named, pmviewerSaved,
      hostActs>>
liftedVars == <<q, oracle, g, liftedFrames, stopped, interpreted>>
blocksVars == <<allocations, next, held, blocksAnswer>>
filesVars == <<persist, buffers, files, overlay, sink, filesSaved, peak>>
consoleVars == <<words, second, modifiers, port, vector, heard, physical, typed, got,
      strokes>>
mouseVars == <<real, pm, answers, calls>>
paletteVars == <<colours, dacIndex, statusRun, dacGroup, journal, clock, runWas, beam,
      adrift, paused, writes>>
framesVars == <<framesCfg, sides, phase, frameNo, framesTyped, pressed, framesShown,
      repro, report, result>>
storeOff == Init
planOff == question = [Plain EXCEPT !.preference = <<1>>] /\ PlanInit
featuresOff == FeaturesInit
viewerOff == ViewerInit
hooksOff == cfg = Verified("auto", "whole") /\ HooksInit
pmviewerOff == pmMachine = FALSE /\ pmviewerFrame = FALSE /\ stopAt = FALSE /\
    pmviewerRec = FALSE /\ pmviewerPending = FALSE /\ host = FALSE /\
    stalled = FALSE /\ waiting = FALSE /\ pmviewerRunning = FALSE /\
    exited = FALSE /\ sound = FALSE /\ named = FALSE /\ pmviewerSaved = FALSE /\
    hostActs = FALSE
liftedOff == q = FALSE /\ oracle = FALSE /\ g = FALSE /\ liftedFrames = FALSE /\
    stopped = FALSE /\ interpreted = FALSE
blocksOff == allocations = FALSE /\ next = FALSE /\ held = FALSE /\ blocksAnswer = FALSE
filesOff == persist = FALSE /\ buffers = FALSE /\ files = FALSE /\ overlay = FALSE /\
    sink = FALSE /\ filesSaved = FALSE /\ peak = FALSE
consoleOff == words = FALSE /\ second = FALSE /\ modifiers = FALSE /\ port = FALSE /\
    vector = FALSE /\ heard = FALSE /\ physical = FALSE /\ typed = FALSE /\
    got = FALSE /\ strokes = FALSE
mouseOff == real = FALSE /\ pm = FALSE /\ answers = FALSE /\ calls = FALSE
paletteOff == colours = FALSE /\ dacIndex = FALSE /\ statusRun = FALSE /\ dacGroup = FALSE /\
    journal = FALSE /\ clock = FALSE /\ runWas = FALSE /\ beam = FALSE /\
    adrift = FALSE /\ paused = FALSE /\ writes = FALSE
framesOff == framesCfg = FALSE /\ sides = FALSE /\ phase = FALSE /\ frameNo = FALSE /\
    framesTyped = FALSE /\ pressed = FALSE /\ framesShown = FALSE /\ repro = FALSE /\
    report = FALSE /\ result = FALSE

-----------------------------------------------------------------------------
(* Words of four bits, with a carry; decimals are bytes.                   *)
Operands == [a : 0..15, b : 0..15, cf : BOOLEAN]

(* A memory of sixteen bytes of two bits, the planes' window in its middle *)
(* and a ROM at its end; two planes, rotation and ALU set or not.          *)
Memories ==
    {[M!Blank EXCEPT !.data = [a \in 0..15 |-> ((a * 3) + (a \div 4)) % 4],
        !.planes = [p \in {0, 1} |-> [o \in 0..2 |-> (o + p + 1) % 4]],
        !.planar = planar, !.watched = watched, !.ega.rotate = rotate, !.ega.op = alu] :
        planar \in BOOLEAN, watched \in BOOLEAN, rotate \in {0, 1}, alu \in {0, 1}}

(* Flat memories whose every byte is another, and ways to program the CRTC.*)
FlatMemories ==
    {[data |-> [a \in 0..11 |-> a], planes |-> [p \in {0, 1} |-> [o \in 0..3 |-> 50 + (10 * p) + o]],
      latches |-> [p \in {0, 1} |-> 80 + p], attached |-> attached, chained |-> ~attached,
      mapMask |-> mask, readMap |-> map, mode |-> way, fullMask |-> full, ok |-> TRUE, grown |-> FALSE] :
        attached \in BOOLEAN, mask \in {{}, {1}, {0, 1}}, map \in {0, 1}, way \in 0..2, full \in BOOLEAN}
Crtcs == {[hde |-> 1, vdeLow |-> 1, overflow |-> 0, maxScan |-> 1, offset |-> 1],
          [hde |-> 0, vdeLow |-> 1, overflow |-> 0, maxScan |-> 0, offset |-> 0]}

(* Programs of a few calls, each about one thing.                          *)
Out(to, word, bits) == <<"out", to, word, bits>>
DisplayCalls ==
    {Out(964, 4, 8), Out(965, 0, 8), Out(965, 8, 8), Out(964, 1026, 16), Out(974, 261, 16), Out(980, 780, 16), Out(980, 269, 16),
     Out(964, 2, 8), <<"in", 965>>, <<"in", 981>>, <<"mode", 19>>, <<"mode", 147>>, <<"draw", "p">>, <<"getmode">>, <<"in", 986>>}
ColourCalls == {Out(968, 1, 8), Out(969, 5, 8), <<"mode", 19>>}
MemoryCalls ==
    {<<"alloc", 0>>, <<"alloc", 2>>, <<"dpmi", 1>>, <<"dpmi", 3>>, <<"free", 128>>, <<"base", 129>>, <<"vector", 8, "isr">>, <<"handler", 8>>, <<"resize">>}
FileCalls ==
    {<<"open", "a", 0>>, <<"open", "b", 2>>, <<"read", 5, 1>>, <<"write", 5, <<7>> >>, <<"seek", 5, 2, 0>>, <<"seek", 5, 0, 2>>,
     <<"close", 5>>, <<"read", 6, 2>>, <<"open", "b", 1>>, <<"open", "none", 0>>}
ConsoleCalls == {<<"type", 1>>, <<"type", 2>>, <<"key">>, <<"status">>, <<"dta", 3>>, <<"range", <<1, 2, 3, 4>> >>, <<"exit", 1>>, <<"ask", "heap">>, <<"info", 1>>}
OpenOnce(c) ==
    \A i, j \in DOMAIN c : i < j /\ c[i][1] = "open" /\ c[j][1] = "open" /\ c[i][2] = c[j][2] => \E k \in i..j : c[k][1] = "close"
PMPrograms ==
    [1..3 -> DisplayCalls] \cup [1..4 -> ColourCalls] \cup [1..4 -> MemoryCalls] \cup {c \in [1..4 -> FileCalls] : OpenOnce(c)}
    \cup [1..3 -> ConsoleCalls]

(* Programs of a few calls on a machine without and with a save directory, *)
(* with a sound card, and with the host's clock; and short runs.           *)
SavedFiles == {<<"create", "a">>, <<"create", "b">>, <<"open", "a">>, <<"write", 5, 7>>, <<"read", 5>>, <<"seek", 5>>, <<"close", 5>>}
SavedSound == {<<"play">>, <<"tick">>, <<"status">>, <<"irq">>, <<"eoi">>, <<"mask", TRUE>>, <<"mask", FALSE>>}
SavedPorts == {Out("speaker", 1, 8), Out("speaker", 2, 8), Out("other", 0, 8), <<"speaker">>, <<"print", "x">>}
SavedState ==
    {<<"start">>, <<"timer">>, <<"call">>, <<"halt">>, <<"vector", 9>>, <<"chain", 8>>, <<"chain", 9>>, <<"get", "mouse">>, <<"get", "memory">>}
    \cup {<<"set", group, 1>> : group \in {"registers", "memory", "planes", "latched", "mouse"}}
Carded == Z!EnableSoundBlaster(Z!FromProgram, FALSE).m
SavedPrograms ==
    [start : {Z!FromProgram, [Z!FromProgram EXCEPT !.saving = TRUE]}, calls : [1..4 -> SavedFiles]]
    \cup [start : {Carded}, calls : [1..4 -> SavedSound]]
    \cup [start : {Z!FromProgram, [Z!FromProgram EXCEPT !.timed = TRUE]}, calls : [1..4 -> SavedPorts] \cup [1..3 -> SavedState]]
ShortRuns == [max : 0..3, stop : SUBSET (1..2), program : [1..3 -> {"ok", "halted", "error"}], keep : 0..2]

(* Devices left anywhere in the middle of what a program was doing.       *)
Devices ==
    {[O!Fresh EXCEPT !.index = [sequencer |-> i, graphics |-> 1, crtc |-> 3 - i], !.start = 6,
        !.flipflop = half, !.attrIndex = i, !.linear = half, !.planar = ~half,
        !.timer = [c \in {0, 2} |-> [access |-> access, low |-> half, latch |-> i, reload |-> 5]],
        !.anchor = 1, !.now = 3, !.readLatch = latched, !.speaker = i, !.adlib = i] :
        i \in 0..3, half \in BOOLEAN, access \in 1..3, latched \in {<<>>, <<2>>, <<1, 3>>}}

(* Every opcode behind the prefixes compilers use.                         *)
Prefixed == {<<>>, <<\h2E>>, <<\h36, \hF3>>, <<\hF2>>, <<\h66>>}

(* Stacks that are empty, short and full, of values and of a NaN.          *)
Reals == {[n |-> n, d |-> d] : n \in {-3, 0, 1, 5}, d \in {1, 2}} \cup {[n |-> 0, d |-> 0]}
Stacks == {<<>>, [i \in 1..8 |-> [n |-> i, d |-> 1]]} \cup {<<a>> : a \in Reals} \cup {<<a, b>> : a \in Reals, b \in Reals}

FlatPrefixed == {<<>>, <<\h66>>, <<\h67>>, <<\h65, \hF3>>, <<\h2E, \h66>>}

(* Functions of two instructions within a frame, and every way to end.     *)
Promotable == UNION {[shell : {s}, first : G!Inner(Len(s[1]) + 1)] : s \in G!Shells}

ComponentsInit ==
    \/ /\ part = "store" /\ Init /\ sample = Off
       /\ planOff /\ featuresOff /\ viewerOff /\ hooksOff /\ pmviewerOff /\ liftedOff /\ blocksOff /\ filesOff /\ consoleOff /\ mouseOff /\ paletteOff /\ framesOff
    \/ /\ part = "plan" /\ PlanInit /\ sample = Off
       /\ storeOff /\ featuresOff /\ viewerOff /\ hooksOff /\ pmviewerOff /\ liftedOff /\ blocksOff /\ filesOff /\ consoleOff /\ mouseOff /\ paletteOff /\ framesOff
    \/ /\ part = "features" /\ FeaturesInit /\ sample = Off
       /\ storeOff /\ planOff /\ viewerOff /\ hooksOff /\ pmviewerOff /\ liftedOff /\ blocksOff /\ filesOff /\ consoleOff /\ mouseOff /\ paletteOff /\ framesOff
    \/ /\ part = "viewer" /\ ViewerInit /\ sample = Off
       /\ storeOff /\ planOff /\ featuresOff /\ hooksOff /\ pmviewerOff /\ liftedOff /\ blocksOff /\ filesOff /\ consoleOff /\ mouseOff /\ paletteOff /\ framesOff
    \/ /\ part = "hooks" /\ HooksInit /\ sample = Off
       /\ storeOff /\ planOff /\ featuresOff /\ viewerOff /\ pmviewerOff /\ liftedOff /\ blocksOff /\ filesOff /\ consoleOff /\ mouseOff /\ paletteOff /\ framesOff
    \/ /\ part = "pmviewer" /\ PV!PMViewerInit /\ sample = Off
       /\ storeOff /\ planOff /\ featuresOff /\ viewerOff /\ hooksOff /\ liftedOff /\ blocksOff /\ filesOff /\ consoleOff /\ mouseOff /\ paletteOff /\ framesOff
    \/ /\ part = "lifted" /\ LR!Init /\ sample = Off
       /\ storeOff /\ planOff /\ featuresOff /\ viewerOff /\ hooksOff /\ pmviewerOff /\ blocksOff /\ filesOff /\ consoleOff /\ mouseOff /\ paletteOff /\ framesOff
    \/ /\ part = "blocks" /\ B!Init /\ sample = Off
       /\ storeOff /\ planOff /\ featuresOff /\ viewerOff /\ hooksOff /\ pmviewerOff /\ liftedOff /\ filesOff /\ consoleOff /\ mouseOff /\ paletteOff /\ framesOff
    \/ /\ part = "files" /\ D!Init /\ sample = Off
       /\ storeOff /\ planOff /\ featuresOff /\ viewerOff /\ hooksOff /\ pmviewerOff /\ liftedOff /\ blocksOff /\ consoleOff /\ mouseOff /\ paletteOff /\ framesOff
    \/ /\ part = "console" /\ C!Init /\ sample = Off
       /\ storeOff /\ planOff /\ featuresOff /\ viewerOff /\ hooksOff /\ pmviewerOff /\ liftedOff /\ blocksOff /\ filesOff /\ mouseOff /\ paletteOff /\ framesOff
    \/ /\ part = "mouse" /\ N!Init /\ sample = Off
       /\ storeOff /\ planOff /\ featuresOff /\ viewerOff /\ hooksOff /\ pmviewerOff /\ liftedOff /\ blocksOff /\ filesOff /\ consoleOff /\ paletteOff /\ framesOff
    \/ /\ part = "palette" /\ E!Init /\ sample = Off
       /\ storeOff /\ planOff /\ featuresOff /\ viewerOff /\ hooksOff /\ pmviewerOff /\ liftedOff /\ blocksOff /\ filesOff /\ consoleOff /\ mouseOff /\ framesOff
    \/ /\ part = "frames" /\ Y!Init /\ sample = Off
       /\ storeOff /\ planOff /\ featuresOff /\ viewerOff /\ hooksOff /\ pmviewerOff /\ liftedOff /\ blocksOff /\ filesOff /\ consoleOff /\ mouseOff /\ paletteOff
    \/ /\ part \in {"arithmetic", "memory", "flatmem", "pmhost", "snapshots", "ports", "opcodes", "x87", "flat", "promotion"} /\ sample = Off
       /\ storeOff /\ planOff /\ featuresOff /\ viewerOff /\ hooksOff /\ pmviewerOff /\ liftedOff /\ blocksOff /\ filesOff /\ consoleOff /\ mouseOff /\ paletteOff /\ framesOff

storeStep ==
    /\ part = "store" /\ Next
    /\ UNCHANGED <<part, sample, planRunVars, featureVars, sessionVars,
                   verifyVars, pmviewerVars, liftedVars, blocksVars,
                   filesVars, consoleVars, mouseVars, paletteVars, framesVars>>
planStep ==
    /\ part = "plan" /\ PlanNext
    /\ UNCHANGED <<part, sample, storeVars, featureVars, sessionVars,
                   verifyVars, pmviewerVars, liftedVars, blocksVars,
                   filesVars, consoleVars, mouseVars, paletteVars, framesVars>>
featuresStep ==
    /\ part = "features" /\ FeaturesNext
    /\ UNCHANGED <<part, sample, storeVars, planRunVars, sessionVars,
                   verifyVars, pmviewerVars, liftedVars, blocksVars,
                   filesVars, consoleVars, mouseVars, paletteVars, framesVars>>
viewerStep ==
    /\ part = "viewer" /\ ViewerNext
    /\ UNCHANGED <<part, sample, storeVars, planRunVars, featureVars,
                   verifyVars, pmviewerVars, liftedVars, blocksVars,
                   filesVars, consoleVars, mouseVars, paletteVars, framesVars>>
hooksStep ==
    /\ part = "hooks" /\ HooksNext
    /\ UNCHANGED <<part, sample, storeVars, planRunVars, featureVars,
                   sessionVars, pmviewerVars, liftedVars, blocksVars,
                   filesVars, consoleVars, mouseVars, paletteVars, framesVars>>
pmviewerStep ==
    /\ part = "pmviewer" /\ PV!PMViewerNext
    /\ UNCHANGED <<part, sample, storeVars, planRunVars, featureVars,
                   sessionVars, verifyVars, liftedVars, blocksVars,
                   filesVars, consoleVars, mouseVars, paletteVars, framesVars>>
liftedStep ==
    /\ part = "lifted" /\ LR!Next
    /\ UNCHANGED <<part, sample, storeVars, planRunVars, featureVars,
                   sessionVars, verifyVars, pmviewerVars, blocksVars,
                   filesVars, consoleVars, mouseVars, paletteVars, framesVars>>
blocksStep ==
    /\ part = "blocks" /\ B!Next
    /\ UNCHANGED <<part, sample, storeVars, planRunVars, featureVars,
                   sessionVars, verifyVars, pmviewerVars, liftedVars,
                   filesVars, consoleVars, mouseVars, paletteVars, framesVars>>
filesStep ==
    /\ part = "files" /\ D!Next
    /\ UNCHANGED <<part, sample, storeVars, planRunVars, featureVars,
                   sessionVars, verifyVars, pmviewerVars, liftedVars,
                   blocksVars, consoleVars, mouseVars, paletteVars, framesVars>>
consoleStep ==
    /\ part = "console" /\ C!Next
    /\ UNCHANGED <<part, sample, storeVars, planRunVars, featureVars,
                   sessionVars, verifyVars, pmviewerVars, liftedVars,
                   blocksVars, filesVars, mouseVars, paletteVars, framesVars>>
mouseStep ==
    /\ part = "mouse" /\ N!Next
    /\ UNCHANGED <<part, sample, storeVars, planRunVars, featureVars,
                   sessionVars, verifyVars, pmviewerVars, liftedVars,
                   blocksVars, filesVars, consoleVars, paletteVars, framesVars>>
paletteStep ==
    /\ part = "palette" /\ E!Next
    /\ UNCHANGED <<part, sample, storeVars, planRunVars, featureVars,
                   sessionVars, verifyVars, pmviewerVars, liftedVars,
                   blocksVars, filesVars, consoleVars, mouseVars, framesVars>>
framesStep ==
    /\ part = "frames" /\ Y!Next
    /\ UNCHANGED <<part, sample, storeVars, planRunVars, featureVars,
                   sessionVars, verifyVars, pmviewerVars, liftedVars,
                   blocksVars, filesVars, consoleVars, mouseVars, paletteVars>>
arithmeticSample ==
    /\ part = "arithmetic" /\ sample = Off /\ sample' \in Operands
    /\ UNCHANGED <<part, storeVars, planRunVars, featureVars, sessionVars,
                   verifyVars, pmviewerVars, liftedVars, blocksVars,
                   filesVars, consoleVars, mouseVars, paletteVars, framesVars>>
memorySample ==
    /\ part = "memory" /\ sample = Off /\ sample' \in [m : Memories, seg : {0, 3, 6}, off : 0..7]
    /\ UNCHANGED <<part, storeVars, planRunVars, featureVars, sessionVars,
                   verifyVars, pmviewerVars, liftedVars, blocksVars,
                   filesVars, consoleVars, mouseVars, paletteVars, framesVars>>
flatmemSample ==
    /\ part = "flatmem" /\ sample = Off /\ sample' \in [m : FlatMemories, src : 0..11, crtc : Crtcs, start : {0, 3}]
    /\ UNCHANGED <<part, storeVars, planRunVars, featureVars, sessionVars,
                   verifyVars, pmviewerVars, liftedVars, blocksVars,
                   filesVars, consoleVars, mouseVars, paletteVars, framesVars>>
pmhostSample ==
    /\ part = "pmhost" /\ sample = Off /\ sample' \in [calls : PMPrograms]
    /\ UNCHANGED <<part, storeVars, planRunVars, featureVars, sessionVars,
                   verifyVars, pmviewerVars, liftedVars, blocksVars,
                   filesVars, consoleVars, mouseVars, paletteVars, framesVars>>
snapshotsSample ==
    /\ part = "snapshots" /\ sample = Off /\ sample' \in SavedPrograms \cup ShortRuns
    /\ UNCHANGED <<part, storeVars, planRunVars, featureVars, sessionVars,
                   verifyVars, pmviewerVars, liftedVars, blocksVars,
                   filesVars, consoleVars, mouseVars, paletteVars, framesVars>>
portsSample ==
    /\ part = "ports" /\ sample = Off /\ sample' \in [m : Devices, w : 0..15, i : 0..3, v : 0..3]
    /\ UNCHANGED <<part, storeVars, planRunVars, featureVars, sessionVars,
                   verifyVars, pmviewerVars, liftedVars, blocksVars,
                   filesVars, consoleVars, mouseVars, paletteVars, framesVars>>
opcodesSample ==
    /\ part = "opcodes" /\ sample = Off /\ sample' \in [pre : Prefixed, op : 0..255]
    /\ UNCHANGED <<part, storeVars, planRunVars, featureVars, sessionVars,
                   verifyVars, pmviewerVars, liftedVars, blocksVars,
                   filesVars, consoleVars, mouseVars, paletteVars, framesVars>>
x87Sample ==
    /\ part = "x87" /\ sample = Off /\ sample' \in [st : Stacks, rc : 0..3, v : Reals]
    /\ UNCHANGED <<part, storeVars, planRunVars, featureVars, sessionVars,
                   verifyVars, pmviewerVars, liftedVars, blocksVars,
                   filesVars, consoleVars, mouseVars, paletteVars, framesVars>>
flatSample ==
    /\ part = "flat" /\ sample = Off /\ sample' \in [pre : FlatPrefixed, op : 0..255 \cup \h0F00..\h0FFF]
    /\ UNCHANGED <<part, storeVars, planRunVars, featureVars, sessionVars,
                   verifyVars, pmviewerVars, liftedVars, blocksVars,
                   filesVars, consoleVars, mouseVars, paletteVars, framesVars>>
promotionSample ==
    /\ part = "promotion" /\ sample = Off /\ sample' \in Promotable
    /\ UNCHANGED <<part, storeVars, planRunVars, featureVars, sessionVars,
                   verifyVars, pmviewerVars, liftedVars, blocksVars,
                   filesVars, consoleVars, mouseVars, paletteVars, framesVars>>

ComponentsNext ==
    \/ storeStep
    \/ planStep
    \/ featuresStep
    \/ viewerStep
    \/ hooksStep
    \/ pmviewerStep
    \/ liftedStep
    \/ blocksStep
    \/ filesStep
    \/ consoleStep
    \/ mouseStep
    \/ paletteStep
    \/ framesStep
    \/ arithmeticSample
    \/ memorySample
    \/ flatmemSample
    \/ pmhostSample
    \/ snapshotsSample
    \/ portsSample
    \/ opcodesSample
    \/ x87Sample
    \/ flatSample
    \/ promotionSample

ComponentsSpec == ComponentsInit /\ [][ComponentsNext]_<<part, sample, storeVars, planRunVars, featureVars, sessionVars, verifyVars, pmviewerVars, liftedVars, blocksVars, filesVars, consoleVars, mouseVars, paletteVars, framesVars>>

-----------------------------------------------------------------------------

(* Every recording the protected-mode viewer finishes is replayed, frame   *)
(* by frame, from its base and from a state kept at any frame; and the     *)
(* frame verifier's verdict on two runs of a program is true.              *)
FramesAlike ==
    /\ part = "pmviewer" => PV!RecordingReplays
    /\ part = "frames" => Y!FramesHonest

(* A partly lifted program ends as the interpreted one does, never leaves  *)
(* the code it was lifted from, and is never interpreted when all of it is *)
(* lifted.                                                                 *)
LiftedAlike ==
    part = "lifted" => LR!LiftedAlike /\ LR!InScan /\ LR!WallKept

(* DOS and the BIOS keep what they promise a program: memory blocks are    *)
(* never shared, refused with the truth and never lost; what is closed is  *)
(* what is read again; every key typed is read once, as it was typed; and  *)
(* the mouse of real mode answers as that of protected mode does.          *)
ServicesKept ==
    /\ part = "blocks" => B!MemoryKept
    /\ part = "files" => D!FilesKept
    /\ part = "console" => C!TypedIsRead
    /\ part = "mouse" => N!MouseAlike

(* Block transfers, on flat memory too, are the loops they stand for, and  *)
(* words their two bytes, but in the cases the parts of this property      *)
(* name; the ROM is kept, but for one byte of a word at its edge; and the  *)
(* planes' write and read modes draw, copy and find the pixels they are    *)
(* for.                                                                    *)
MemoryAlike ==
    [][/\ part = "memory" =>
           /\ \A pattern \in {<<1>>, <<2, 1>>}, count \in 0..3 :
                 M!FillsAlike(sample'.m, sample'.seg, sample'.off, pattern, count)
           /\ \A seg \in {0, 3, 6}, off \in 0..7, n \in 0..3 :
                 /\ M!CopiesAlike(sample'.m, sample'.seg, sample'.off, seg, off, n)
                 /\ M!HelpersCopyAlike(sample'.m, sample'.seg, sample'.off, seg, off, n)
           /\ M!WordsAlike(sample'.m, sample'.seg, sample'.off, 1, 2)
           /\ M!RomKept(sample'.m, sample'.seg, sample'.off, 1, 2)
           /\ \A colour \in SUBSET {0, 1}, mask \in 0..3, care \in SUBSET {0, 1} :
                 /\ M!PixelsDrawn(sample'.m, sample'.seg, sample'.off, colour, mask, 1)
                 /\ M!PixelsFound(sample'.m, sample'.seg, sample'.off, colour, care)
           /\ \A to \in 0..7 : M!PixelsCopied(sample'.m, sample'.seg, sample'.off, to, 1)
       /\ part = "flatmem" =>
           /\ \A dst \in 0..11, v \in {<<90>>, <<90, 91>>}, count \in 0..3 :
                 J!BulkAlike(sample'.m, sample'.src, dst, v, count)
           /\ \A x \in 0..4, y \in 0..1 : J!PixelShown(sample'.m, sample'.crtc, sample'.start, x, y, 95)]_sample

(* A machine that is saved and made again - from a replay's continuation,  *)
(* a snapshot on disk or as a clone, in real or in protected mode - goes   *)
(* on as if it had never stopped, as far as each of them carries it; and   *)
(* the host of protected mode serves what it says it serves.               *)
SnapshotsKept ==
    [][/\ part = "pmhost" => I!HostKept(sample'.calls)
       /\ part = "snapshots" =>
             IF "max" \in DOMAIN sample' THEN Z!RunTold(sample'.max, sample'.stop, sample'.program, sample'.keep)
             ELSE Z!SnapshotsKept(sample'.start, sample'.calls)]_sample

(* The port-programmed devices take what a program writes, whatever state  *)
(* the last writes left them in; and a palette changed while the beam runs *)
(* is journalled so that the plan made of it shows what the beam showed.   *)
DevicesExact ==
    /\ part = "palette" => E!EvidenceShows
    /\ part = "ports" /\ sample # Off => O!PortsExact(sample.m, sample.w, sample.i, sample.v)

(* An instruction is decoded, declared to the analyses and emitted as the  *)
(* interpreter executes it, on a machine and on registers alone; the forms *)
(* of the x87 agree on what they leave on its stack, in its status word    *)
(* and in memory; a function promoted to run without a CPU keeps the       *)
(* contract it was promoted under, whichever way it runs; and the closed   *)
(* forms the interpreters compute with are what the manual says.           *)
InstructionsAgree ==
    [][/\ part = "promotion" => \A f \in {sample'} : G!Faithful(f.shell, f.first)
       /\ part = "opcodes" =>
             \A f \in X!Forms(sample'.pre, sample'.op) : X!Agree(f)
       /\ part = "flat" =>
             \A f \in F32!FlatForms(sample'.pre, sample'.op) : F32!FlatAgree(f)
       /\ part = "x87" =>
             LET m == [st |-> sample'.st, sw |-> H!Clear, rc |-> sample'.rc]
                 v == sample'.v
             IN  /\ \A reg \in 0..7, rm \in 0..2 : H!PopsAlike(m, reg, rm)
                 /\ \A esc \in {\hD8, \hDA, \hDC, \hDE}, reg \in 0..7 : H!LoadsAlike(m, esc, reg, v)
                 /\ \A esc \in \hD8..\hDF, reg \in 0..7, rm \in {0, 1, 2, 5} : H!StackKept(m, esc, reg, rm, v)
                 /\ H!ComparesTold(m, v) /\ H!RoundsAlike(m) /\ H!ExtendedExact(v, 6)
       /\ part = "arithmetic" =>
             /\ A!ShiftsExact(sample'.a, sample'.cf, 4)
             /\ A!ShiftsExact(sample'.a * 16 + sample'.b, sample'.cf, 8)
             /\ A!SumsExact(sample'.a, sample'.b, sample'.cf, 4)
             /\ A!JumpsExact(sample'.a, sample'.b, 4) /\ A!ProductsExact(sample'.a, sample'.b, 4)
             /\ \A high \in 0..15 : A!DivisionsExact(high * 16 + sample'.a, sample'.b, 4)
             /\ sample'.a < 10 /\ sample'.b < 10 =>
                   \A n \in 0..99 : A!DecimalsExact(sample'.a * 10 + sample'.b, n)]_sample
=============================================================================
