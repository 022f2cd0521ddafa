------------------------------- MODULE DosFiles -------------------------------
(***************************************************************************)
(* The files of a real-mode program (INT 21h 3Ch to 42h of                 *)
(* src/dos_re/dos.py).  Every handle works on a buffer in memory, the      *)
(* game's directory is never written.  With a save directory, the buffer   *)
(* of a created file is also kept in an overlay, which later opens read,   *)
(* and written to the save directory when its handle is closed; without,   *)
(* it is gone with the handle.                                             *)
(*                                                                         *)
(* Names are resolved paths; a file's content is a short sequence.         *)
(***************************************************************************)
EXTENDS Integers, FiniteSetsExt, SequencesExt

CONSTANTS
    Path,           \* resolved paths
    SinkName,       \* [Path -> name in the save directory]: the last component
    Pristine,       \* [SUBSET Path -> content] of the game's directory
    Values,         \* what a cell of a file holds; 0 among them
    SharedCreates,  \* environment: may it create a file it has open for writing?
    MaxLength,      \* bound: longest content
    MaxOpens        \* bound: creates and opens in a behaviour

VARIABLES
    persist,        \* save_dir is set
    buffers,        \* the byte arrays, in the order they were made
    files,          \* handle -> its FileHandle
    overlay,        \* path -> the number of its buffer
    sink,           \* the save directory
    saved,          \* history: what the program last wrote and closed
    peak            \* history: the most handles open at once

fileVars == <<persist, buffers, files, overlay, sink, saved, peak>>

Empty == [x \in {} |-> <<>>]
Put(f, k, v) == [x \in DOMAIN f \cup {k} |-> IF x = k THEN v ELSE f[x]]
Drop(f, k) == [x \in DOMAIN f \ {k} |-> f[x]]

Init == /\ persist \in BOOLEAN
        /\ buffers = <<>> /\ files = Empty /\ overlay = Empty
        /\ sink = Empty /\ saved = Empty /\ peak = 0

Content(h) == buffers[files[h].buffer]
Creating(p) == \E h \in DOMAIN files : files[h].path = p /\ files[h].writable

(* _load_file_bytes: the overlay, then the save directory, then the game's *)
(* own file.                                                               *)
Exists(p) == (persist /\ (p \in DOMAIN overlay \/ SinkName[p] \in DOMAIN sink))
             \/ p \in DOMAIN Pristine
Loaded(p) == CASE persist /\ p \in DOMAIN overlay -> buffers[overlay[p]]
               [] persist /\ SinkName[p] \in DOMAIN sink -> sink[SinkName[p]]
               [] OTHER -> Pristine[p]

(* The lowest handle that is free; the first five are the standard ones.   *)
(* Faulty, to break properties: one more than there has been.              *)
NextHandle == 5 + Len(buffers)
FreeHandle == Min(5..5 + Cardinality(DOMAIN files) \ DOMAIN files)

OpenAs(p, content, writable) ==
    /\ Len(buffers) < MaxOpens
    /\ buffers' = Append(buffers, content)
    /\ files' = Put(files, FreeHandle, [path |-> p, buffer |-> Len(buffers) + 1,
                                        pos |-> 0, writable |-> writable])
    /\ peak' = Max({peak, Cardinality(DOMAIN files) + 1})

-----------------------------------------------------------------------------
Create(p) ==
    /\ SharedCreates \/ ~Creating(p)
    /\ OpenAs(p, <<>>, TRUE)
    /\ overlay' = IF persist THEN Put(overlay, p, Len(buffers) + 1) ELSE overlay
    /\ UNCHANGED <<persist, sink, saved>>

(* A missing file is the program's to cope with.                           *)
Open(p) ==
    /\ Exists(p)
    /\ OpenAs(p, Loaded(p), FALSE)
    /\ UNCHANGED <<persist, overlay, sink, saved>>

(* _persist_overlay: what is written to the save directory is the overlay's*)
(* buffer of the path, under the path's last component.  (A failure to     *)
(* write is passed over: here the disk takes it.)                          *)
Wrote(p) == IF persist /\ p \in DOMAIN overlay
            THEN Put(sink, SinkName[p], buffers[overlay[p]]) ELSE sink

Close(h) ==
    /\ files' = Drop(files, h)
    /\ sink' = IF files[h].writable THEN Wrote(files[h].path) ELSE sink
    /\ saved' = IF files[h].writable THEN Put(saved, files[h].path, Content(h)) ELSE saved
    /\ UNCHANGED <<persist, buffers, overlay, peak>>

(* Past the end of the content nothing is read, and the position is brought*)
(* back to it.                                                             *)
ReadCount(h, n) == Min({n, Len(Content(h)) - files[h].pos})
Read(h, n) ==
    /\ files' = [files EXCEPT ![h].pos = @ + ReadCount(h, n)]
    /\ UNCHANGED <<persist, buffers, overlay, sink, saved, peak>>

(* Any handle can be written to; what a handle from 3Dh is written is lost *)
(* with it.  A gap before the position is filled with zeros.               *)
Overwritten(old, pos, data) ==
    [i \in 1..Max({Len(old), pos + Len(data)}) |->
        CASE i > pos /\ i <= pos + Len(data) -> data[i - pos]
          [] i <= Len(old) -> old[i]
          [] OTHER -> 0]

Write(h, data) ==
    LET pos == files[h].pos
    IN  /\ pos + Len(data) <= MaxLength
        /\ buffers' = [buffers EXCEPT ![files[h].buffer] = Overwritten(@, pos, data)]
        /\ files' = [files EXCEPT ![h].pos = pos + Len(data)]
        /\ UNCHANGED <<persist, overlay, sink, saved, peak>>

Seek(h, origin, delta) ==
    LET from == CASE origin = "start" -> 0
                  [] origin = "here" -> files[h].pos
                  [] origin = "end" -> Len(Content(h))
    IN  /\ from + delta <= MaxLength
        /\ files' = [files EXCEPT ![h].pos = Max({0, from + delta})]
        /\ UNCHANGED <<persist, buffers, overlay, sink, saved, peak>>

(* The program ends, and is run again: nothing that is still open is       *)
(* written, the save directory is all that is left.                        *)
Rerun ==
    /\ buffers # <<>>
    /\ buffers' = [i \in 1..Len(buffers) |-> <<>>]
    /\ files' = Empty /\ overlay' = Empty
    /\ UNCHANGED <<persist, sink, saved, peak>>

Next ==
    \/ \E p \in Path : Create(p) \/ Open(p)
    \/ \E h \in DOMAIN files :
          \/ Close(h)
          \/ Read(h, 1)
          \/ \E v \in Values : Write(h, <<v>>)
          \/ \E origin \in {"start", "here", "end"}, d \in {-1, 1} : Seek(h, origin, d)
    \/ Rerun

Spec == Init /\ [][Next]_fileVars

-----------------------------------------------------------------------------
(* What the program wrote to a file and closed is what it reads when it    *)
(* opens the file again, in this run or, if it is saved, in the next.      *)
ReopenedAsSaved ==
    persist => \A p \in DOMAIN saved : ~Creating(p) => Exists(p) /\ Loaded(p) = saved[p]

(* Without a save directory nothing the program wrote reaches a later open *)
(* (dos.py:537-540: persistent host state stays out of replays).           *)
OpensPristine ==
    ~persist => /\ sink = Empty /\ overlay = Empty
                /\ \A p \in Path : Exists(p) => Loaded(p) = Pristine[p]

(* A program that closes its files never sees a handle larger than it needs*)
(* (dos.py:1214-1221: a table indexed by the handle is overrun).           *)
HandlesLow == \A h \in DOMAIN files : h < 5 + peak

(* Handles do not share a buffer, so that none changes what another reads. *)
BuffersApart == \A g, h \in DOMAIN files : g # h => files[g].buffer # files[h].buffer

FilesKept == ReopenedAsSaved /\ OpensPristine /\ HandlesLow /\ BuffersApart
=============================================================================
