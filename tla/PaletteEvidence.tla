--------------------------- MODULE PaletteEvidence ---------------------------
(***************************************************************************)
(* How the palette a real-mode program programs while the beam runs gets   *)
(* to the renderer: the colour registers behind ports 3C7h to 3C9h, the    *)
(* status register a program reads to wait, the journal of both            *)
(* (src/dos_re/dos.py) and the plan palette_effects.classify makes of it.  *)
(*                                                                         *)
(* A program waits for the frame, counts lines, writes colours and lets    *)
(* time pass, in any order.  The three components of a colour are written  *)
(* together, and no two writes write the same one.                         *)
(***************************************************************************)
EXTENDS Integers, SequencesExt, FiniteSetsExt

CONSTANTS
    Colours,        \* palette entries: 256 in the code
    SyncMaxReads,   \* the longest run of reads that is a wait for the frame
    LateGap,        \* the longest silence within a burst
    Lines,          \* how many lines a program counts at a time
    MaxLine,        \* MAX_PLAUSIBLE_LINE
    MaxReads,       \* bounds: no run of this many reads goes on,
    MaxWrites,      \* so many writes, and nothing after them,
    MaxPauses       \* and so many silences

VARIABLES
    palette,                       \* vga_palette
    index,                         \* _dac_write_index
    reads,                         \* _vj_st: the open run of reads
    group,                         \* _vj_dac: the open group of writes
    journal,                       \* video_journal
    now,                           \* the program's instruction count
    run,                           \* history: what the open run was for
    beam,                          \* history: where it was at the last write
    adrift,                        \* history: has time passed since the last wait?
    paused,                        \* history: ... since the display was last touched?
    log                            \* history: completed writes, with that

paletteVars == <<palette, index, reads, group, journal, now,
                 run, beam, adrift, paused, log>>

No == <<>>
NoRun == [waits |-> 0, lines |-> 0]

Init == /\ palette = [i \in 0..Colours - 1 |-> 0]
        /\ index = 0
        /\ reads = No /\ group = No /\ journal = <<>> /\ now = 0
        /\ run = NoRun /\ beam = [frame |-> 0, line |-> 0, clear |-> 0]
        /\ adrift = FALSE /\ paused = FALSE /\ log = <<>>

WithReads(j) == IF reads = No THEN j ELSE Append(j, [kind |-> "st"] @@ reads[1])
WithGroup(j) == IF group = No THEN j ELSE Append(j, [kind |-> "dac"] @@ group[1])

-----------------------------------------------------------------------------
(* Where a colour goes: OUT 3C8h, or on from the last one.                 *)
Extends(i) == group # No /\ (group[1].start + Len(group[1].values)) % Colours = i

(* The journal joins what goes on where the group left off, however much   *)
(* later.                                                                  *)
(* Faulty, to break properties: whatever entry comes next.                 *)
JoinAlways(i, colour) ==
    IF group # No THEN <<[group[1] EXCEPT !.values = Append(@, colour), !.last = now]>>
    ELSE <<[start |-> i, values |-> <<colour>>, first |-> now, last |-> now]>>
Join(i, colour) ==
    IF Extends(i) THEN <<[group[1] EXCEPT !.values = Append(@, colour), !.last = now]>>
    ELSE <<[start |-> i, values |-> <<colour>>, first |-> now, last |-> now]>>

(* A run of reads that looks like what it was: a wait, or several that are *)
(* still a short run, or a count that is a long one.                       *)
Clear(r) == /\ r.waits = 0 \/ r.lines = 0
            /\ reads[1].reads <= SyncMaxReads <=> r.waits > 0

(* Where the beam is when the run is over; clear counts the waits that the *)
(* journal shows as such since it last showed something as what it was not.*)
After(r) ==
    IF reads = No THEN beam
    ELSE [frame |-> IF r.waits > 0 THEN beam.frame + 1 ELSE beam.frame,
          line |-> (IF r.waits > 0 THEN 0 ELSE beam.line) + r.lines,
          clear |-> IF ~Clear(r) THEN 0 ELSE IF r.waits > 0 THEN beam.clear + 1 ELSE beam.clear]

(* Can the evidence tell that a write has no place?  Only if it follows a  *)
(* silence within a burst and does not go on where the last one left off;  *)
(* then the rest of its burst has none either.                             *)
Told(i) == adrift /\ reads = No /\ group # No
           /\ (\/ paused /\ ~Extends(i)
               \/ log[Len(log)].told)

(* OUT 3C9h, three times.                                                  *)
Write(i, colour) ==
    /\ palette' = [palette EXCEPT ![i] = colour]
    /\ group' = Join(i, colour)
    /\ journal' = IF Extends(i) THEN WithReads(journal) ELSE WithGroup(WithReads(journal))
    /\ reads' = No
    /\ index' = (i + 1) % Colours
    /\ run' = NoRun /\ beam' = After(run)
    /\ log' = Append(log, [frame |-> beam'.frame, line |-> beam'.line, index |-> i,
                           colour |-> colour, late |-> adrift, told |-> Told(i)])
    /\ paused' = FALSE
    /\ UNCHANGED <<now, adrift>>

(* IN 3DAh, so many times: two reads are a line.                           *)
Read(times) ==
    /\ reads # No => reads[1].reads < MaxReads
    /\ group' = No /\ journal' = WithGroup(journal)
    /\ reads' = IF reads = No THEN <<[reads |-> times, first |-> now, last |-> now]>>
                ELSE <<[reads[1] EXCEPT !.reads = @ + times, !.last = now]>>
    /\ paused' = FALSE
    /\ UNCHANGED <<palette, index, now, beam, log>>

(* A program's frame, which begins with the beam at the top.               *)
AwaitFrame == /\ Read(2)
              /\ run' = [run EXCEPT !.waits = @ + 1]
              /\ adrift' = FALSE

CountLines(n) == /\ beam.frame > 0 \/ run.waits > 0
                 /\ Read(2 * n)
                 /\ run' = [run EXCEPT !.lines = @ + n]
                 /\ UNCHANGED adrift

(* Time passes, perhaps frames: the beam may be anywhere, until the next   *)
(* wait.                                                                   *)
Pause == /\ ~paused
         /\ now < MaxPauses * (LateGap + 1)
         /\ now' = now + LateGap + 1
         /\ paused' = TRUE /\ adrift' = TRUE
         /\ UNCHANGED <<palette, index, reads, group, journal, run, beam, log>>

Next == /\ Len(log) < MaxWrites
        /\ \/ \E i \in 0..Colours - 1 : Write(i, Len(log) + 1)
           \/ AwaitFrame \/ Pause
           \/ \E n \in Lines : CountLines(n)

Spec == Init /\ [][Next]_paletteVars

-----------------------------------------------------------------------------
(* palette_effects.classify                                                *)
IsSync(e) == e.kind = "st" /\ e.reads <= SyncMaxReads
Syncs == {i \in 1..Len(journal) : IsSync(journal[i])}

NoValues == [i \in {} |-> 0]
Painted(values, e) ==
    [i \in DOMAIN values \cup {(e.start + k - 1) % Colours : k \in 1..Len(e.values)} |->
        IF \E k \in 1..Len(e.values) : (e.start + k - 1) % Colours = i
        THEN e.values[Max({k \in 1..Len(e.values) : (e.start + k - 1) % Colours = i})]
        ELSE values[i]]

LineUnknown == -1

(* One event of the cycle; s holds the bands so far, the last one open.    *)
Banded(s, e) ==
    LET last == s.bands[Len(s.bands)]
        started == last.values # NoValues
        at == s.line + e.reads \div 2
        late == e.first - s.last > LateGap /\ started
        bands == IF late THEN Append(s.bands, [line |-> LineUnknown, values |-> NoValues])
                 ELSE s.bands
    IN  IF e.kind = "st"
        THEN [bands |-> IF started THEN Append(s.bands, [line |-> at, values |-> NoValues])
                        ELSE [s.bands EXCEPT ![Len(s.bands)].line = at],
              line |-> at, last |-> e.last]
        ELSE [bands |-> [bands EXCEPT ![Len(bands)].values = Painted(@, e)],
              line |-> s.line, last |-> e.last]

Plan ==
    LET from == Max(Syncs \ {Max(Syncs)})
        cycle == SubSeq(journal, from + 1, Max(Syncs) - 1)
        none == [kind |-> "static", base |-> NoValues, bands |-> <<>>]
        banded == FoldLeft(Banded, [bands |-> <<[line |-> 0, values |-> NoValues]>>,
                                    line |-> 0, last |-> journal[from].last], cycle)
        bands == SelectSeq(banded.bands, LAMBDA b : b.values # NoValues)
        topped == bands # <<>> /\ bands[1].line = 0
        base == IF topped THEN bands[1].values ELSE NoValues
        rest == IF topped THEN Tail(bands) ELSE bands
        unknown == {k \in 1..Len(rest) : rest[k].line = LineUnknown}
        implausible == {k \in 1..Len(rest) : rest[k].line # LineUnknown
                                             /\ rest[k].line \notin 1..MaxLine}
    IN  IF Cardinality(Syncs) < 2 THEN none
        ELSE [kind |-> CASE rest = <<>> -> "static"
                         [] Cardinality(unknown) > 1 \/ implausible # {} -> "unresolved"
                         [] OTHER -> "split",
              base |-> base, bands |-> rest]

(* What a renderer shows of entry i on a line: the base, overlaid by the   *)
(* bands from the top.                                                     *)
Shown(plan, i, l) ==
    LET over == {k \in 1..Len(plan.bands) : plan.bands[k].line \in 0..l
                                            /\ i \in DOMAIN plan.bands[k].values}
    IN  IF over # {} THEN <<plan.bands[Max(over)].values[i]>>
        ELSE IF i \in DOMAIN plan.base THEN <<plan.base[i]>> ELSE <<>>

-----------------------------------------------------------------------------
(* What the beam showed in a frame, as far as one can know: the last write *)
(* to the entry by then.                                                   *)
BeamShowed(f, i, l) ==
    LET writes == {k \in 1..Len(log) : /\ log[k].frame = f /\ log[k].index = i
                                       /\ log[k].line <= l /\ ~log[k].late}
    IN  IF writes = {} THEN <<>> ELSE <<log[Max(writes)].colour>>

(* The newest frame whose end the journal has, if it shows where that frame*)
(* began and ended.                                                        *)
Complete == beam.frame - 1
Delimited == beam.clear > 1
LateIn(f) == {k \in 1..Len(log) : log[k].frame = f /\ log[k].late}

(* The plan shows, on every line, what the beam showed (palette_effects.py:*)
(* 47-48: never guess visual intent), and of a frame with writes that have *)
(* no place (42-46) it says so and shows the others - unless a write that  *)
(* has none does not look so: it follows a wait or a count, whose line it  *)
(* gets, or continues a burst, whose line it gets.  Nothing is said of     *)
(* frames whose wait runs into others, or into a count, without a write.   *)
PlanShowsBeam ==
    Delimited /\ (\A k \in LateIn(Complete) : log[k].told) =>
        LET plan == Plan
        IN  /\ LateIn(Complete) # {} =>
                   \E k \in 1..Len(plan.bands) : plan.bands[k].line = LineUnknown
            /\ plan.kind # "unresolved" =>
                   \A i \in 0..Colours - 1, l \in 0..2 * Max(Lines) :
                       Shown(plan, i, l) = BeamShowed(Complete, i, l)

(* The journal, with what is still open, has all the writes there were:    *)
(* playing it gives the palette.                                           *)
JournalHasPalette ==
    LET painted == FoldLeft(Painted, [i \in 0..Colours - 1 |-> 0],
                            SelectSeq(WithGroup(journal), LAMBDA e : e.kind = "dac"))
    IN  painted = palette

EvidenceShows == PlanShowsBeam /\ JournalHasPalette
=============================================================================
