------------------------------ MODULE PMViewer ------------------------------
(***************************************************************************)
(* The protected-mode viewer's recordings and their replay: run_viewer and *)
(* run_replay of src/dos_re/pm_backend.py, the input adapter and the frame *)
(* clock of pm_replay_input.py, the replay driver of                       *)
(* pm_replay_evidence.py.                                                  *)
(*                                                                         *)
(* A frame begins at the program's frame tick, where the clock stops the   *)
(* machine.  While it records, the viewer holds input back until the tick, *)
(* unless the clock does not advance (stalled): then the program is taken  *)
(* to be in its pause loop, and a key reaches it at once.                  *)
(*                                                                         *)
(* The program is external: Steps steps from a tick to the next, reading   *)
(* one keyboard event in each; "p" makes it wait in a step for a key to go *)
(* down.  At the end of a frame it looks at the mouse, which it may move.  *)
(* Presentation is left out, and so is the instruction at which a          *)
(* deterministic clock's interrupt arrives.                                *)
(***************************************************************************)
EXTENDS Integers, Sequences, SequencesExt

CONSTANTS
    Steps,        \* steps of a frame
    Positions,    \* where the host's pointer may be; an odd one is rounded
    MaxCatchup,   \* frames a present may advance; 2 in the code
    MaxFrames,    \* bounds: frames of a session, ...
    MaxActs       \* ... and things the host does beside running it

VARIABLES
    m,          \* the machine
    frame,      \* clock.frame
    stopAt,     \* clock.stop_at
    rec,        \* the recording, or None
    pending,    \* keys held back
    host,       \* the host's pointer and buttons
    stalled, waiting, running, exited,
    sound,      \* the card's clock, "wall" or "count"
    named,      \* --record-replay: one directory for every recording
    saved,      \* the finished recordings
    acts        \* what the host has done

pmViewerVars == <<m, frame, stopAt, rec, pending, host, stalled, waiting, running, exited, sound, named, saved,
                  acts>>

None == [none |-> TRUE]
Recording == rec # None

(***************************************************************************)
(* The program.  It asks for a character in its second frame, or never.    *)
(***************************************************************************)
Booted(asks, homes) ==
    [n |-> 0, step |-> 0, paused |-> FALSE, keys |-> <<>>, typed |-> <<>>, asks |-> asks, homes |-> homes,
     mouse |-> [pos |-> 1, buttons |-> 0], seen |-> <<>>]

AtTick(v) == v.step = 0
Asking(v) == v.asks /\ v.n = 1 /\ v.step = Steps /\ v.typed = <<>> /\ ~v.paused
Spinning(v) == v.paused /\ v.keys = <<>>

(* A key is seen where it is read; one that goes down ends the pause.      *)
Instr(v) ==
    LET reads == v.keys # <<>>
        presses == reads /\ Head(v.keys).make
        paused == IF presses THEN ~v.paused /\ Head(v.keys).name = "p" ELSE v.paused
        ends == ~paused /\ v.step = Steps
        key == IF reads THEN <<<<v.n, v.step, Head(v.keys)>>>> ELSE <<>>
        look == IF ends THEN <<<<v.n, v.mouse>>>> ELSE <<>>
    IN  [v EXCEPT !.keys = IF reads THEN Tail(@) ELSE @, !.paused = paused,
                  !.seen = @ \o key \o look,
                  !.mouse = IF ends /\ v.homes THEN [@ EXCEPT !.pos = 0] ELSE @,
                  !.typed = IF ends /\ v.asks /\ v.n = 1 THEN Tail(@) ELSE @,
                  !.step = IF paused THEN @ ELSE (@ + 1) % (Steps + 1),
                  !.n = IF ends THEN @ + 1 ELSE @]

(***************************************************************************)
(* Input, normalized.                                                      *)
(***************************************************************************)
Rounded(pos) == pos - (pos % 2)
Sample(h) == [pos |-> Rounded(h.pos), buttons |-> h.buttons]
Event(f, channel, payload) == [f |-> f, channel |-> channel, payload |-> payload]

(* Faulty, to break properties: the sample is rounded only to be recorded. *)
OnFrameUnrounded(x) ==
    IF x.rec = None THEN x
    ELSE LET f == x.frame - x.rec.start
             sample == Sample(host)
             moved == IF sample = x.rec.last THEN <<>> ELSE <<Event(f, "mouse", sample)>>
             keys == [i \in DOMAIN x.pending |-> Event(f, "key", x.pending[i])]
         IN  [x EXCEPT !.m.mouse = host, !.m.keys = @ \o x.pending, !.pending = <<>>,
                       !.rec.events = @ \o moved \o keys, !.rec.last = sample, !.rec.truth = Append(@, x.m)]

(* Once a frame, before the program goes on: what is recorded is what is   *)
(* applied.  x has the machine, the recording and the keys held back.      *)
OnFrame(x) ==
    IF x.rec = None THEN x
    ELSE LET f == x.frame - x.rec.start
             sample == Sample(host)
             moved == IF sample = x.rec.last THEN <<>> ELSE <<Event(f, "mouse", sample)>>
             keys == [i \in DOMAIN x.pending |-> Event(f, "key", x.pending[i])]
         IN  [x EXCEPT !.m.mouse = sample, !.m.keys = @ \o x.pending, !.pending = <<>>,
                       !.rec.events = @ \o moved \o keys, !.rec.last = sample, !.rec.truth = Append(@, x.m)]

(***************************************************************************)
(* Replay: the adapter, and a machine that is stopped at a tick.           *)
(***************************************************************************)
(* Faulty, to break properties: the last sample is not looked for.         *)
AdapterAnew(events, cursor) == [cursor |-> cursor, last |-> None]

Adapter(events, cursor) ==
    LET samples == SelectSeq(SubSeq(events, 1, cursor), LAMBDA e : e.channel = "mouse")
    IN  [cursor |-> cursor, last |-> IF samples = <<>> THEN None ELSE Last(samples).payload]

(* Faulty, to break properties: only where it was recorded to move.        *)
ApplyOnMove(a, v, events, f) ==
    LET upTo == CHOOSE c \in a.cursor..Len(events) :
                    /\ \A i \in a.cursor + 1..c : events[i].f <= f
                    /\ c < Len(events) => events[c + 1].f > f
        taken == SubSeq(events, a.cursor + 1, upTo)
        keys == SelectSeq(taken, LAMBDA e : e.channel = "key")
        samples == SelectSeq(taken, LAMBDA e : e.channel = "mouse")
        last == IF samples = <<>> THEN a.last ELSE Last(samples).payload
    IN  [a |-> [cursor |-> upTo, last |-> last],
         m |-> [v EXCEPT !.keys = @ \o [i \in DOMAIN keys |-> keys[i].payload],
                         !.mouse = IF samples = <<>> THEN @ ELSE last]]

(* Every event up to a frame; the pointer is put back in every frame.      *)
Apply(a, v, events, f) ==
    LET upTo == CHOOSE c \in a.cursor..Len(events) :
                    /\ \A i \in a.cursor + 1..c : events[i].f <= f
                    /\ c < Len(events) => events[c + 1].f > f
        taken == SubSeq(events, a.cursor + 1, upTo)
        keys == SelectSeq(taken, LAMBDA e : e.channel = "key")
        samples == SelectSeq(taken, LAMBDA e : e.channel = "mouse")
        last == IF samples = <<>> THEN a.last ELSE Last(samples).payload
    IN  [a |-> [cursor |-> upTo, last |-> last],
         m |-> [v EXCEPT !.keys = @ \o [i \in DOMAIN keys |-> keys[i].payload],
                         !.mouse = IF last = None THEN @ ELSE last]]

(* Frames and steps enough to finish what can be finished.                 *)
Enough == (Steps + 2) * (MaxFrames + 1) + MaxActs

(* PMReplayDriver: restore a state with its cursor at a frame, and replay  *)
(* to another.  It stays behind if the machine waits for ever.             *)
ReplayTo(events, state, from, to) ==
    LET start == [m |-> state.m, frame |-> from, a |-> Adapter(events, state.cursor), paced |-> FALSE]
        turn(x, i) ==
            IF x.paced \/ Asking(x.m) \/ Spinning(x.m) THEN x
            ELSE IF ~AtTick(x.m) THEN [x EXCEPT !.m = Instr(@)]
            ELSE IF x.frame >= to THEN [x EXCEPT !.paced = TRUE]
            ELSE LET done == Apply(x.a, x.m, events, x.frame)
                 IN  [x EXCEPT !.m = [done.m EXCEPT !.step = 1], !.a = done.a, !.frame = @ + 1]
        end == IF from = to THEN start ELSE FoldLeft(turn, start, [i \in 1..Enough |-> i])
    IN  [m |-> end.m, cursor |-> end.a.cursor, frame |-> end.frame]

(***************************************************************************)
(* The viewer runs the machine: until the clock stops it, for "fuel"       *)
(* steps at most, or until the program asks for what is not there.         *)
(***************************************************************************)
Emulated == [m |-> m, frame |-> frame, rec |-> rec, pending |-> pending, paced |-> FALSE, asked |-> FALSE]

RunUntil(x, stop, fuel) ==
    LET turn(y, i) ==
            IF y.paced \/ y.asked \/ Spinning(y.m) THEN y
            ELSE IF Asking(y.m) THEN [y EXCEPT !.asked = TRUE]
            ELSE IF ~AtTick(y.m) THEN [y EXCEPT !.m = Instr(@)]
            ELSE IF y.frame >= stop THEN [y EXCEPT !.paced = TRUE]
            ELSE [OnFrame(y) EXCEPT !.frame = @ + 1, !.m.step = 1]
    IN  FoldLeft(turn, [x EXCEPT !.paced = FALSE], [i \in 1..fuel |-> i])

Emulate(x) == m' = x.m /\ frame' = x.frame /\ rec' = x.rec /\ pending' = x.pending

(* A card on the wall's clock interrupts wherever it likes.                *)
EmulateMaybeInterrupted(x, cost) ==
    /\ \/ Emulate(x) /\ acts' = acts + cost
       \/ sound = "wall" /\ <<"irq">> \notin Range(x.m.seen) /\ Emulate([x EXCEPT !.m.seen = Append(@, <<"irq">>)]) /\ acts' = acts + cost + 1
    /\ acts' <= MaxActs

(* One present: the frames that are due, each until the clock stops it or  *)
(* the present has taken too long.  (An instruction that raises ends the   *)
(* loop: a slow present, and Quit.)                                        *)
Advance ==
    /\ ~exited /\ running /\ ~waiting /\ frame < MaxFrames
    /\ \E due \in 1..MaxCatchup, fuel \in {2, Enough} :
        LET first == RunUntil(Emulated, frame + 1, IF due = 1 THEN fuel ELSE Enough)
            more == due = 2 /\ first.paced
            last == IF more THEN RunUntil(first, first.frame + 1, fuel) ELSE first
        IN  /\ EmulateMaybeInterrupted(last, IF fuel < Enough THEN 1 ELSE 0)
            /\ stopAt' = IF more THEN first.frame + 1 ELSE frame + 1
            /\ waiting' = last.asked
            /\ stalled' = IF last.asked THEN stalled ELSE ~first.paced
    /\ UNCHANGED <<host, running, exited, sound, named, saved>>

(* Between presents the card's interrupt is served; a machine that is not  *)
(* at its tick runs on meanwhile.                                          *)
ServiceAudio ==
    /\ ~exited /\ running /\ ~waiting /\ stopAt > 0
    /\ sound = "wall" \/ ~AtTick(m)
    /\ \E fuel \in {1, Enough} :
        LET x == RunUntil(Emulated, stopAt, fuel)
        IN  EmulateMaybeInterrupted(x, 0) /\ waiting' = x.asked
    /\ UNCHANGED <<stopAt, host, stalled, running, exited, sound, named, saved>>

(***************************************************************************)
(* Recordings.  "exact" is a history variable: false once something was    *)
(* done to the machine in the middle of a frame, its pause loop excepted.  *)
(***************************************************************************)
HostActs == ~exited /\ acts < MaxActs /\ acts' = acts + 1

StartRecording(v) ==
    [start |-> frame, base |-> v, events |-> <<>>, last |-> None, truth |-> <<>>, exact |-> AtTick(v)]

(* ReplayRecording.finish makes the directory, which must not exist.       *)
FinishRecording ==
    LET total == frame - rec.start
        done == [rec EXCEPT !.exact = @ /\ AtTick(m)]
    IN  IF named /\ saved # <<>> THEN saved' = saved /\ exited' = TRUE
        ELSE saved' = Append(saved, [of |-> done, total |-> total, end |-> m]) /\ exited' = exited

(* Faulty, to break properties: the sound stays on the wall's clock.       *)
ToggleOnTheWall ==
    /\ HostActs
    /\ \/ /\ ~Recording /\ rec' = StartRecording(m) /\ sound' = sound
          /\ UNCHANGED <<saved, exited>>
       \/ /\ Recording /\ rec' = None /\ sound' = "wall"
          /\ FinishRecording
    /\ UNCHANGED <<m, frame, stopAt, pending, host, stalled, waiting, running, named>>

Toggle ==
    /\ HostActs
    /\ \/ /\ ~Recording /\ rec' = StartRecording(m) /\ sound' = "count"
          /\ UNCHANGED <<saved, exited>>
       \/ /\ Recording /\ rec' = None /\ sound' = "wall"
          /\ FinishRecording
    /\ UNCHANGED <<m, frame, stopAt, pending, host, stalled, waiting, running, named>>

(***************************************************************************)
(* The window's events.                                                    *)
(***************************************************************************)
Presses == {[make |-> TRUE, name |-> "p"], [make |-> FALSE, name |-> "p"]}

(* Faulty, to break properties: at the frame that is still to come.        *)
RecordedNext == frame - rec.start
RecordedNow == IF frame - 1 - rec.start > 0 THEN frame - 1 - rec.start ELSE 0

Key ==
    /\ HostActs
    /\ \E key \in Presses :
        LET types == key.make /\ waiting
            told == IF Recording /\ ~stalled THEN m ELSE [m EXCEPT !.keys = Append(@, key)]
        IN  /\ m' = IF types THEN [told EXCEPT !.typed = Append(@, key.name)] ELSE told
            /\ waiting' = (waiting /\ ~types)
            /\ pending' = IF Recording /\ ~stalled THEN Append(pending, key) ELSE pending
            /\ rec' = IF ~Recording THEN rec
                      ELSE [rec EXCEPT !.exact = @ /\ ~types /\ (stalled => m.paused),
                                       !.events = IF stalled THEN Append(@, Event(RecordedNow, "key", key)) ELSE @]
    /\ UNCHANGED <<frame, stopAt, host, stalled, running, exited, sound, named, saved>>

(* Motion and buttons; while recording, the tick samples them.             *)
Move ==
    /\ HostActs
    /\ \/ \E pos \in Positions :
            /\ host' = [host EXCEPT !.pos = pos]
            /\ m' = IF Recording THEN m ELSE [m EXCEPT !.mouse = host']
       \/ /\ host' = [host EXCEPT !.buttons = 1 - @]
          /\ m' = IF Recording THEN m ELSE [m EXCEPT !.mouse.buttons = host'.buttons]
    /\ UNCHANGED <<frame, stopAt, rec, pending, stalled, waiting, running, exited, sound, named, saved>>

Quit ==
    /\ ~exited /\ running /\ running' = FALSE
    /\ UNCHANGED <<m, frame, stopAt, rec, pending, host, stalled, waiting, exited, sound, named, saved, acts>>

(* Leaving the loop saves what is being recorded.                          *)
Exit ==
    /\ ~exited /\ ~running /\ exited' = TRUE
    /\ saved' = IF Recording /\ ~(named /\ saved # <<>>)
                THEN Append(saved, [of |-> [rec EXCEPT !.exact = @ /\ AtTick(m)], total |-> frame - rec.start, end |-> m])
                ELSE saved
    /\ UNCHANGED <<m, frame, stopAt, rec, pending, host, stalled, waiting, running, sound, named, acts>>

PMViewerInit ==
    /\ \E asks \in BOOLEAN : m = Booted(asks, ~asks)
    /\ frame = 0 /\ stopAt = 0 /\ pending = <<>> /\ host = [pos |-> 1, buttons |-> 0]
    /\ stalled = FALSE /\ waiting = FALSE /\ running = TRUE /\ exited = FALSE
    /\ named \in BOOLEAN /\ saved = <<>>
    /\ rec = (IF named THEN StartRecording(m) ELSE None)
    /\ sound = IF named THEN "count" ELSE "wall"
    /\ acts = 0

PMViewerNext == Advance \/ ServiceAudio \/ Toggle \/ Key \/ Move \/ Quit \/ Exit

PMViewerSpec == PMViewerInit /\ [][PMViewerNext]_pmViewerVars

(***************************************************************************)
(* Properties.                                                             *)
(***************************************************************************)
(* A recording nothing reached in the middle of a frame, pauses excepted,  *)
(* is replayed through the machines it was made of, whether from its base  *)
(* or from a state kept at any frame, and ends with every event applied    *)
(* (pm_backend.py:388-394, 402-406; pm_replay_evidence.py:122-125).        *)
RecordingReplays ==
    saved # <<>> /\ Last(saved).of.exact =>
        LET r == Last(saved)
            base == [m |-> r.of.base, cursor |-> 0]
            wanted == [k \in 0..r.total |-> IF k = r.total THEN r.end ELSE r.of.truth[k + 1]]
        IN  \A k \in 0..r.total :
              \A kept \in {ReplayTo(r.of.events, base, 0, k)} :
                /\ kept.frame = k /\ kept.m = wanted[k]
                /\ k = r.total => kept.cursor = Len(r.of.events)
                /\ ReplayTo(r.of.events, kept, k, r.total).m = r.end
=============================================================================
