---------------------------- MODULE SoundBlaster ----------------------------
(***************************************************************************)
(* src/dos_re/sblaster.py: the DSP, its 8237 channel and its interrupt     *)
(* line, as operators on the card's state.  A card is a record; raising    *)
(* the interrupt is left to the machine it is plugged into, which looks at *)
(* the field "raised" after each operation.                                *)
(*                                                                         *)
(* Time is relative: due is the distance of _block_due from the card's     *)
(* clock, and Advance moves the clock.  Samples are left out; their        *)
(* addresses are not, since what a block plays depends on them.            *)
(***************************************************************************)
EXTENDS Integers, Sequences

CONSTANTS
    Half,       \* 2^8, the byte the 8237's registers are written by
    Length,     \* block lengths a program asks for
    CatchUp,    \* MAX_BLOCK_CATCHUP
    DetectLimit \* detect_irq_limit

Address == 0..(Half * Half - 1)

(* A block of n samples plays for n units of time, on either clock.        *)
Duration(n) == n

(* Further back than this no due time makes a difference; _block_due = 0.0 *)
(* says that there was no block yet.                                       *)
LongAgo == 0 - CatchUp - (CHOOSE n \in Length : \A k \in Length : k <= n) - 1
Unset == LongAgo - 1

Command == {"version", "single", "autoinit", "blocklen", "force", "other"}

Channel == [base : Address, count : Address, cur : Nat,
            auto : BOOLEAN, high : BOOLEAN]

Card == [detection : BOOLEAN, requests : 0..(DetectLimit + 1),
         resetting : BOOLEAN, out : Seq({"AA", "id"}),
         cmd : Command, needed : 0..2, args : Seq(Nat),
         blocklen : Nat, active : BOOLEAN, line : BOOLEAN,
         pending : BOOLEAN, due : Int, tc : BOOLEAN,
         channel : Channel, anchored : BOOLEAN, played : Seq(Seq(Nat)),
         raised : BOOLEAN]

Fresh(detection, anchored) ==
    [detection |-> detection, requests |-> 0, resetting |-> FALSE, out |-> <<>>,
     cmd |-> "other", needed |-> 0, args |-> <<>>, blocklen |-> 0,
     active |-> FALSE, line |-> FALSE, pending |-> FALSE, due |-> Unset,
     tc |-> FALSE, anchored |-> anchored, played |-> <<>>, raised |-> FALSE,
     channel |-> [base |-> 0, count |-> 0, cur |-> 0, auto |-> FALSE, high |-> FALSE]]

-----------------------------------------------------------------------------
(* The interrupt line and the clock.                                       *)

FireIrq(c) == [c EXCEPT !.line = TRUE, !.raised = TRUE]

Service(c) ==
    IF c.pending /\ c.due <= 0 THEN FireIrq([c EXCEPT !.pending = FALSE]) ELSE c

Advance(c) ==
    IF c.due = Unset THEN c
    ELSE [c EXCEPT !.due = IF @ > LongAgo THEN @ - 1 ELSE LongAgo]

(* The card is given another clock and resync_clock is called.  A due time *)
(* that is not pending stays a reading of the old clock, which the new one *)
(* has long passed.  (168 is used if the program never set a block length: *)
(* default.)                                                               *)
Resync(c, default) ==
    IF c.pending
    THEN [c EXCEPT !.due = Duration(IF c.blocklen = 0 THEN default ELSE c.blocklen)]
    ELSE [c EXCEPT !.due = IF @ = Unset THEN @ ELSE LongAgo]

-----------------------------------------------------------------------------
(* The 8237 channel.                                                       *)

SetByte(word, high, byte) ==
    IF high THEN (word % Half) + Half * byte
            ELSE (word - (word % Half)) + byte

Program(c, channel) == [c EXCEPT !.channel = channel, !.played = <<>>]

WriteAddress(c, byte) ==
    LET base == SetByte(c.channel.base, c.channel.high, byte)
    IN  Program(c, [c.channel EXCEPT !.base = base, !.cur = base, !.high = ~@])

WriteCount(c, byte) ==
    Program(c, [c.channel EXCEPT !.count = SetByte(@, c.channel.high, byte),
                                 !.high = ~@])

WriteMode(c, auto) == Program(c, [c.channel EXCEPT !.auto = auto])
ClearFlipFlop(c) == [c EXCEPT !.channel.high = FALSE]

StatusRead(c) == [c EXCEPT !.tc = FALSE]

(* The block as a ring within the buffer: a cursor that is out of it goes  *)
(* back to its start.                                                      *)
Size(ch) == ch.count + 1
Position(ch) ==
    IF ch.base <= ch.cur /\ ch.cur < ch.base + Size(ch) THEN ch.cur - ch.base ELSE 0
Ring(ch, n) == [i \in 1..n |-> ch.base + ((Position(ch) + i - 1) % Size(ch))]

(* (The addresses of the last two blocks since the channel was programmed  *)
(* are kept for the properties.)                                           *)
LastTwo(blocks) == IF Len(blocks) > 2 THEN Tail(blocks) ELSE blocks

(* (AfterBlockRewound is a faulty variant, to break properties.)           *)
AfterBlockRewound(ch, n) == [ch EXCEPT !.cur = ch.base]
AfterBlock(ch, n) ==
    [ch EXCEPT !.cur = IF ch.auto THEN ch.base + ((Position(ch) + n) % Size(ch))
                       ELSE (ch.base + n) % (Half * Half)]

-----------------------------------------------------------------------------
(* _start_dma: the detection stub answers the first requests and plays     *)
(* nothing; the card takes the block and arms its end.                     *)

Ideal(c, n) ==
    IF c.anchored /\ c.due # Unset /\ 0 - (c.due + Duration(n)) <= CatchUp
    THEN c.due + Duration(n)
    ELSE Duration(n)

StartDma(c, n) ==
    LET d == [c EXCEPT !.active = TRUE,
                       !.requests = IF @ <= DetectLimit THEN @ + 1 ELSE @]
    IN  IF c.detection
        THEN IF d.requests <= DetectLimit THEN FireIrq(d) ELSE d
        ELSE [d EXCEPT !.played = LastTwo(Append(@, Ring(c.channel, n))),
                       !.channel = AfterBlock(c.channel, n),
                       !.tc = TRUE,
                       !.due = Ideal(c, n),
                       !.pending = TRUE]

-----------------------------------------------------------------------------
(* The DSP: a command takes its arguments one write at a time, and reads   *)
(* whatever is written next as one of them.                                *)

Arguments(cmd) == CASE cmd \in {"single", "blocklen"} -> 2
                    [] OTHER -> 0

Exec(c) ==
    CASE c.cmd = "version" -> [c EXCEPT !.out = @ \o <<"id", "id">>]
      [] c.cmd = "single" -> StartDma(c, c.args[1])
      [] c.cmd = "autoinit" -> StartDma(c, IF c.blocklen = 0 THEN 1 ELSE c.blocklen)
      [] c.cmd = "blocklen" -> [c EXCEPT !.blocklen = c.args[1]]
      [] c.cmd = "force" -> FireIrq(c)
      [] OTHER -> c

(* A byte that is a command, or the length byte n of one.                  *)
Feed(c, cmd, n) ==
    LET d == IF c.needed > 0
             THEN [c EXCEPT !.args = Append(@, n), !.needed = @ - 1]
             ELSE [c EXCEPT !.cmd = cmd, !.args = <<>>, !.needed = Arguments(cmd)]
    IN  IF d.needed = 0 THEN Exec(d) ELSE d

Reset(c, bit) ==
    IF bit THEN [c EXCEPT !.resetting = TRUE]
    ELSE IF c.resetting THEN [c EXCEPT !.resetting = FALSE, !.out = <<"AA">>]
    ELSE c

ReadData(c) == [c EXCEPT !.out = IF @ = <<>> THEN @ ELSE Tail(@)]
ReadStatus(c) == [c EXCEPT !.line = FALSE]

-----------------------------------------------------------------------------
(* snapshot_state, and restore_state with rearm_after_restore on a card of *)
(* the kind the host attaches.  "Restored" forgets what the snapshot does  *)
(* not carry; a card of another kind is refused.                           *)

Remaining(c) == IF c.pending /\ c.due > 0 THEN c.due ELSE 0

Accepts(c, detection) == c.detection = detection

Restored(c, anchored) ==
    LET d == [c EXCEPT !.anchored = anchored, !.raised = FALSE, !.played = <<>>,
                       !.due = IF c.pending THEN Remaining(c) ELSE Unset]
    IN  IF ~c.pending /\ c.active /\ ~c.line THEN FireIrq(d) ELSE d
=============================================================================
