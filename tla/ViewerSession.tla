---------------------------- MODULE ViewerSession ----------------------------
(***************************************************************************)
(* run_view of src/dos_re/player.py: the loop of the real-mode viewer, its *)
(* recorder and its playback.                                              *)
(*                                                                         *)
(* A live session feeds host input to the game, one frame at a time, and   *)
(* may record it; a playback session feeds a recording to the game.  The   *)
(* machine that runs the game is deterministic: its state is its input and *)
(* where in its execution it got each.                                     *)
(***************************************************************************)
EXTENDS Integers, Sequences, FiniteSets

CONSTANTS
    ScanCode,
    Pointer,        \* where the host's mouse can be
    StepsPerFrame,  \* --steps-per-frame
    MaxFrames,      \* --frames
    IrqAt,          \* the instruction counts at which a device raises an IRQ
    ReadAt,         \* ... at which the game waits for a key
    StopAt,         \* ... of an instruction the interpreter does not know
    MayFail,        \* may the delivery of a scan code raise?
    MayContinue,    \* --replay-continue
    SameSecond,     \* may a recording begin in the second another one did?
    MaxPosts, MaxMoves, MaxToggles, MaxSessions     \* bounds

Mode == {"pump"}

VARIABLES
    \* the KeyDispatcher of the session
    events, down, aged, release, mode, pc, todo, sent,
    table, polled, wanted, posts,
    \* the session
    loop,      \* where in the loop it is
    frame,          \* frame_box["n"]
    machine,    \* rt
    pointer,    \* mouse_norm and mouse_btn
    rec,        \* recorder["rec"]
    replaying,
    play,       \* the playback, if the session has one: cursor, last mouse sample
    running,
    failed,     \* has a delivery raised?
    lost,       \* has a recording been refused?
    \* what outlives a session
    saved,      \* the recording saved last
    moves, toggles, sessions    \* count them, for the bounds

K == INSTANCE KeyDispatcher

keyVars == <<events, down, aged, release, mode, pc, todo, sent,
             table, polled, wanted, posts>>
playVars == <<replaying, play>>
endVars == <<running, failed, lost, saved>>
countVars == <<moves, toggles, sessions>>
sessionVars == <<keyVars, loop, frame, machine, pointer, rec, playVars, endVars, countVars>>

-----------------------------------------------------------------------------
(* The machine.                                                            *)

NoPointer == "unknown"

(* Its instruction count; the IRQs it has taken; the keys it has not read  *)
(* yet and those that are down in its table; the scan codes it was given   *)
(* and where it got each, and the same of its pointer.                     *)
NewMachine == [count |-> 0, taken |-> {}, unread |-> 0, table |-> {},
               log |-> <<>>, mouse |-> <<NoPointer>>]

Where(m) == <<m.count, m.taken>>

(* deliver_scancode: an INT 09h, run to its iret.                          *)
Delivered(m, code) ==
    [m EXCEPT !.log = Append(@, <<code, Where(m)>>),
              !.table = IF code.kind = "make" THEN @ \cup {code.code} ELSE @ \ {code.code},
              !.unread = IF code.kind = "make" THEN @ + 1 ELSE @,
              !.count = @ + 1]

(* ... that is given up in the middle of the handler                       *)
Interrupted(m) == [m EXCEPT !.count = @ + 1]

(* set_mouse_norm: mapped to the range the game has set by now.            *)
Pointed(m, p) == [m EXCEPT !.mouse = <<p, Where(m)>>]

(* deliver_interrupt(rt, 0x08)                                             *)
Ticked(m) == [m EXCEPT !.count = @ + 1]

(* CPU8086.step.  Taking an IRQ is a step that counts no instruction, and  *)
(* one that raises counts none either: the machine stays where it is.      *)
Stepped(m) ==
    IF m.count \in IrqAt \ m.taken THEN [m EXCEPT !.taken = @ \cup {m.count}]
    ELSE IF m.count \in StopAt \/ (m.count \in ReadAt /\ m.unread = 0) THEN m
    ELSE [m EXCEPT !.count = @ + 1,
                   !.unread = IF m.count \in ReadAt THEN @ - 1 ELSE @]

(* CPU8086.run                                                             *)
Ran(m, steps) ==
    LET s[i \in 0..steps] == IF i = 0 THEN m ELSE LET r == s[i - 1] IN Stepped(r)
    IN  s[steps]

(* The stepping of advance_replay_frame, up to a count.                    *)
RanTo(m, count) ==
    LET k == Cardinality(IrqAt) + count
        s[i \in 0..k] == IF i = 0 THEN m
                         ELSE LET r == s[i - 1]
                              IN  IF r.count = count THEN r ELSE Stepped(r)
    IN  s[k]

Stopped(m) == m.count \in StopAt

-----------------------------------------------------------------------------
(* The recorder.                                                           *)

NoRec == [active |-> FALSE]

(* Faulty variants, to break properties: no specification uses them.       *)
(* A point is marked once, even with the same coordinate.                  *)
MarkableOnce(i, m) == i \notin DOMAIN rec.coords

(* A recording whose first point is not marked.                            *)
NewRecUnmarked(fresh, boundary, m) ==
    [active |-> TRUE, fresh |-> fresh, start |-> boundary, base |-> m, events |-> <<>>,
     mouse |-> NoPointer, coords |-> <<>>, truth |-> <<>>]

(* Only presses are recorded.                                              *)
ScannedMakes(code) ==
    IF rec.active /\ code.kind = "make"
    THEN [rec EXCEPT !.events = Append(@, [ordinal |-> frame - rec.start, input |-> code])]
    ELSE rec

(* A recording session that defers keys, as it does the mouse.             *)
LiveInputDeferred(code) ==
    IF rec.active
    THEN /\ rec' = [rec EXCEPT !.events = Append(@, [ordinal |-> frame - rec.start, input |-> code])]
         /\ UNCHANGED machine
    ELSE machine' = Delivered(machine, code) /\ UNCHANGED rec

-----------------------------------------------------------------------------
(* A recording: its base, the events with their ordinals, the coordinate   *)
(* of each ordinal; and, which the program does not keep, the machine at   *)
(* each.                                                                   *)
NewRec(fresh, boundary, m) ==
    [active |-> TRUE, fresh |-> fresh, start |-> boundary, base |-> m, events |-> <<>>,
     mouse |-> NoPointer, coords |-> [i \in {0} |-> m.count], truth |-> [i \in {0} |-> m]]

OrdinalOf(boundary) == IF boundary >= rec.start THEN boundary - rec.start ELSE 0

(* ReplayRecording.add, at the boundary of the frame to come               *)
Added(input) == [rec EXCEPT !.events = Append(@, [ordinal |-> OrdinalOf(frame), input |-> input])]

(* record_scan, after the delivery                                         *)
Scanned(code) == IF rec.active THEN Added(code) ELSE rec

(* record_mouse: the samples that change it                                *)
Sampled(p) == IF p = rec.mouse THEN rec
              ELSE [Added([kind |-> "mouse", code |-> p]) EXCEPT !.mouse = p]

(* ReplayRecording.mark                                                    *)
Put(f, k, v) == [i \in DOMAIN f \cup {k} |-> IF i = k THEN v ELSE f[i]]
Markable(i, m) == i \in DOMAIN rec.coords => rec.coords[i] = m.count
Marked(i, m) == IF rec.active
                THEN [rec EXCEPT !.coords = Put(@, i, m.count), !.truth = Put(@, i, m)]
                ELSE rec

(* ReplayRecording.finish, after the mark of stop: ReplayArtifact.create   *)
(* refuses a directory that has an artifact.                               *)
Finishable == LET end == OrdinalOf(frame) IN
    /\ Markable(end, machine)
    /\ \A i \in DOMAIN rec.events : rec.events[i].ordinal <= end
    /\ DOMAIN Marked(end, machine).coords = 0..end
    /\ rec.fresh

NoPlayback == [open |-> FALSE, cursor |-> 0, mouse |-> NoPointer]

NoRecording == [end |-> 0, base |-> NewMachine, events |-> <<>>]

Finished == [end |-> OrdinalOf(frame), base |-> rec.base, events |-> rec.events,
             coords |-> rec.coords, truth |-> rec.truth]

-----------------------------------------------------------------------------
ViewerInit ==
    /\ K!KeysInit
    /\ loop = "off" /\ frame = 0
    /\ machine = NewMachine /\ pointer = NoPointer
    /\ rec = NoRec
    /\ replaying = FALSE /\ play = NoPlayback
    /\ running = FALSE /\ failed = FALSE /\ lost = FALSE
    /\ saved = NoRecording
    /\ moves = 0 /\ toggles = 0 /\ sessions = 0

(* A new process: everything but the files.                                *)
Launch ==
    /\ loop = "off"
    /\ sessions < MaxSessions
    /\ sessions' = sessions + 1
    /\ events' = <<>> /\ down' = {} /\ aged' = {} /\ release' = {}
    /\ mode' = "pump" /\ pc' = "idle" /\ todo' = {} /\ sent' = <<>>
    /\ table' = {} /\ polled' = {} /\ wanted' = {}
    /\ posts' = 0
    /\ loop' = "top" /\ frame' = 0
    /\ pointer' = NoPointer
    /\ running' = TRUE /\ failed' = FALSE /\ lost' = FALSE
    /\ UNCHANGED <<saved, moves, toggles>>

(* --record-replay, or not                                                 *)
LaunchLive ==
    /\ Launch
    /\ machine' = NewMachine
    /\ rec' \in {NoRec, NewRec(TRUE, 0, NewMachine)}
    /\ replaying' = FALSE /\ play' = NoPlayback

LaunchReplay ==
    /\ saved # NoRecording
    /\ Launch
    /\ machine' = saved.base
    /\ rec' = NoRec
    /\ replaying' = TRUE /\ play' = [NoPlayback EXCEPT !.open = TRUE]

-----------------------------------------------------------------------------
(* The head of the loop.                                                   *)

PlaybackFinished == frame >= saved.end

Top ==
    /\ loop = "top"
    /\ LET out == ~running \/ frame >= MaxFrames
           ended == replaying /\ PlaybackFinished
       IN  /\ loop' = IF out \/ (ended /\ ~MayContinue) THEN "closing" ELSE "events"
           /\ replaying' = (replaying /\ (out \/ ~ended \/ ~MayContinue))
    /\ UNCHANGED <<keyVars, frame, machine, pointer, rec, play, endVars, countVars>>

-----------------------------------------------------------------------------
(* Host events.  A playback ignores keys and mouse.                        *)

Listening == loop = "events" /\ ~replaying

PressKey(k) ==
    /\ Listening
    /\ K!PostDown(k)
    /\ UNCHANGED <<loop, frame, machine, pointer, rec, playVars, endVars, countVars>>

LiftKey(k) ==
    /\ Listening
    /\ K!PostUp(k)
    /\ UNCHANGED <<loop, frame, machine, pointer, rec, playVars, endVars, countVars>>

(* feed_mouse                                                              *)
MoveMouse(p) ==
    /\ Listening
    /\ moves < MaxMoves
    /\ moves' = moves + 1
    /\ pointer' = p
    /\ machine' = IF rec.active THEN machine ELSE Pointed(machine, p)
    /\ UNCHANGED <<keyVars, loop, frame, rec, playVars, endVars, toggles, sessions>>

(* F11                                                                     *)
StartRecording(fresh) ==
    /\ Listening
    /\ ~rec.active
    /\ toggles < MaxToggles
    /\ toggles' = toggles + 1
    /\ rec' = NewRec(fresh, frame, machine)
    /\ UNCHANGED <<keyVars, loop, frame, machine, pointer, playVars, endVars, moves, sessions>>

StopRecording ==
    /\ Listening
    /\ rec.active
    /\ IF Finishable
       THEN rec' = NoRec /\ saved' = Finished /\ UNCHANGED loop
       ELSE loop' = "closing" /\ UNCHANGED <<rec, saved>>
    /\ UNCHANGED <<keyVars, frame, machine, pointer, playVars,
                   running, failed, lost, countVars>>

Quit ==
    /\ loop = "events"
    /\ running' = FALSE
    /\ UNCHANGED <<keyVars, loop, frame, machine, pointer, rec, playVars,
                   failed, lost, saved, countVars>>

-----------------------------------------------------------------------------
(* The tick, if one is due.                                                *)

NoTick ==
    /\ loop = "events"
    /\ loop' = "top"
    /\ UNCHANGED <<keyVars, frame, machine, pointer, rec, playVars, endVars, countVars>>

TickLive ==
    /\ Listening
    /\ K!Begin("pump")
    /\ loop' = "pump"
    /\ UNCHANGED <<frame, machine, pointer, rec, playVars, endVars, countVars>>

TickReplay ==
    /\ loop = "events" /\ replaying
    /\ loop' = "apply"
    /\ UNCHANGED <<keyVars, frame, machine, pointer, rec, playVars, endVars, countVars>>

PumpStep == K!Drain \/ K!Drained \/ K!ReleaseReady \/ K!ReleaseDone \/ K!Age

(* live_input: first the delivery, then the record of it                   *)
LiveInput(code) == /\ machine' = Delivered(machine, code)
                   /\ rec' = Scanned(code)

Pump ==
    /\ loop = "pump"
    /\ PumpStep
    /\ IF sent' = sent THEN UNCHANGED <<machine, rec>>
                       ELSE LiveInput(sent'[Len(sent')])
    /\ loop' = IF pc' = "frame" THEN "mouse" ELSE "pump"
    /\ UNCHANGED <<frame, pointer, playVars, endVars, countVars>>

(* The delivery raises: a handler that does not return.                    *)
PumpFails ==
    /\ MayFail
    /\ loop = "pump"
    /\ PumpStep
    /\ sent' # sent
    /\ machine' = Interrupted(machine)
    /\ failed' = TRUE
    /\ loop' = "closing"
    /\ UNCHANGED <<frame, pointer, rec, playVars, running, lost, saved, countVars>>

(* sample_mouse_for_replay                                                 *)
SampleMouse ==
    /\ loop = "mouse"
    /\ IF rec.active /\ pointer # NoPointer
       THEN rec' = Sampled(pointer) /\ machine' = Pointed(machine, pointer)
       ELSE UNCHANGED <<rec, machine>>
    /\ loop' = "frame"
    /\ UNCHANGED <<keyVars, frame, pointer, playVars, endVars, countVars>>

(* advance_frame: a wait for a key ends the frame, an unknown instruction  *)
(* the session.                                                            *)
Frame ==
    /\ loop = "frame"
    /\ K!Frame
    /\ machine' = Ran(Ticked(machine), StepsPerFrame)
    /\ rec' = Marked(OrdinalOf(frame + 1), machine')
    /\ running' = (running /\ ~Stopped(machine'))
    /\ frame' = frame + 1
    /\ loop' = "top"
    /\ UNCHANGED <<pointer, playVars, failed, lost, saved, countVars>>

(* RealModeInputAdapter.apply_to_runtimes, one event at a time             *)
Due == /\ play.cursor < Len(saved.events)
       /\ saved.events[play.cursor + 1].ordinal <= frame

ApplyEvent ==
    /\ loop = "apply"
    /\ Due
    /\ LET input == saved.events[play.cursor + 1].input IN
          IF input.kind = "mouse"
          THEN /\ play' = [play EXCEPT !.cursor = @ + 1, !.mouse = input.code]
               /\ UNCHANGED machine
          ELSE /\ play' = [play EXCEPT !.cursor = @ + 1]
               /\ machine' = Delivered(machine, input)
    /\ UNCHANGED <<keyVars, loop, frame, pointer, rec, replaying, endVars, countVars>>

ReplayedPointer == IF play.mouse = NoPointer THEN machine ELSE Pointed(machine, play.mouse)

(* advance_replay_frame: a coordinate that lies behind is an error.        *)
ReplayFrame ==
    /\ loop = "apply"
    /\ ~Due
    /\ LET ticked == Ticked(ReplayedPointer)
           target == saved.coords[frame + 1]
       IN  IF ticked.count > target
           THEN machine' = ticked /\ running' = FALSE
           ELSE machine' = RanTo(ticked, target) /\ UNCHANGED running
    /\ frame' = frame + 1
    /\ loop' = "top"
    /\ UNCHANGED <<keyVars, pointer, rec, playVars, failed, lost, saved, countVars>>

-----------------------------------------------------------------------------
(* finally: stop_recording()                                               *)
Close ==
    /\ loop = "closing"
    /\ loop' = "off"
    /\ IF ~rec.active THEN UNCHANGED <<rec, saved, lost>>
       ELSE IF Finishable THEN rec' = NoRec /\ saved' = Finished /\ UNCHANGED lost
       ELSE lost' = TRUE /\ UNCHANGED <<rec, saved>>
    /\ UNCHANGED <<keyVars, frame, machine, pointer, playVars, running, failed, countVars>>

ViewerNext ==
    \/ LaunchLive \/ LaunchReplay
    \/ Top
    \/ \E k \in ScanCode : PressKey(k) \/ LiftKey(k)
    \/ \E p \in Pointer : MoveMouse(p)
    \/ \E fresh \in {TRUE, ~(SameSecond /\ saved # NoRecording)} : StartRecording(fresh)
    \/ StopRecording \/ Quit
    \/ NoTick \/ TickLive \/ TickReplay
    \/ Pump \/ PumpFails \/ SampleMouse \/ Frame
    \/ ApplyEvent \/ ReplayFrame
    \/ Close

ViewerSpec == ViewerInit /\ [][ViewerNext]_sessionVars

-----------------------------------------------------------------------------
ViewerTypeOK ==
    /\ K!KeysTypeOK
    /\ loop \in {"off", "top", "events", "pump", "mouse", "frame", "apply", "closing"}
    /\ frame \in 0..MaxFrames
    /\ machine.count \in Nat /\ machine.taken \subseteq IrqAt
    /\ machine.table \subseteq ScanCode /\ machine.unread \in Nat
    /\ pointer \in Pointer \cup {NoPointer}
    /\ rec.active => /\ rec.start \in 0..frame
                     /\ DOMAIN rec.coords = 0..OrdinalOf(frame)
                     /\ DOMAIN rec.truth = DOMAIN rec.coords
    /\ play.cursor \in Nat /\ (replaying => play.cursor <= Len(saved.events))
    /\ play.mouse \in Pointer \cup {NoPointer}
    /\ {replaying, running, failed, lost} \subseteq BOOLEAN
    /\ moves \in 0..MaxMoves /\ toggles \in 0..MaxToggles /\ sessions \in 0..MaxSessions

(* A playback is, at every point of the recording, in the state the        *)
(* recorded session was in: it gets the same input at the same places,     *)
(* however keys, mouse, ticks and the F11 key interleaved, wherever the    *)
(* recording was begun, and also when the recorded session was itself a    *)
(* playback handed over.                                                   *)
(* player.py:560: "Return the exact coordinate of the current replay       *)
(* boundary."                                                              *)
ReplayFaithful == loop = "top" /\ replaying => machine = saved.truth[frame]

(* A recording is saved when it is stopped or its session ends, unless the *)
(* session ended because the delivery of a key failed.                     *)
RecordingKept == lost => failed

(* ... or without exception.  docs/replay_architecture.md:97 of            *)
(* ReplayRecording: it "finalizes exactly one `ReplayArtifact`".           *)
RecordingFinalized == ~lost

(* When all posted keys have come through, the keys that are down in the   *)
(* game are those the player holds, recording or not.  (A game that was    *)
(* handed over holds the keys its recording left down.)                    *)
KeysFollow == loop = "events" /\ ~play.open /\ K!AtRest => machine.table = wanted
=============================================================================
