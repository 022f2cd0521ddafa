------------------------------ MODULE DosConsole ------------------------------
(***************************************************************************)
(* From a key the user types to the character a real-mode program reads:   *)
(* deliver_scancode of src/dos_re/interrupts.py, the BIOS keyboard handler *)
(* and its type-ahead buffer, INT 16h and the console input of INT 21h     *)
(* (src/dos_re/dos.py).                                                    *)
(*                                                                         *)
(* A key is a letter (whose case depends on shift and caps lock), another  *)
(* character or an extended key, which has a scan code and no character.   *)
(* Modifiers are not buffered.  A handler of the program's decides at each *)
(* key whether it goes on to the BIOS's.                                   *)
(***************************************************************************)
EXTENDS Naturals, Sequences

CONSTANTS
    Letter, Digit, Extended,   \* keys the BIOS buffers
    Capacity,                  \* of the type-ahead buffer; 16 in the code
    MaxTyped                   \* bound: scan codes in a behaviour

Shift == "shift"
Caps == "caps"
Buffered == Letter \cup Digit \cup Extended
Key == Buffered \cup {Shift, Caps}

VARIABLES
    queue,        \* key_queue: words, as the key, whether it is shifted and,
                  \*   for the history, the number of its press
    second,       \* pending_console_scancode: <<>> or the key whose half is read
    modifiers,    \* kbd_shift and kbd_caps
    port,         \* current_scancode and kbd_output_buffer_full
    vector,       \* whose handler INT 9 has
    heard,        \* the program's own table of keys that are down
    physical,     \* history: the keys that are down, caps lock
    typed, got,   \* history: the presses that were buffered, the words read
    made          \* counts scan codes

consoleVars == <<queue, second, modifiers, port, vector, heard, physical,
                 typed, got, made>>

Init == /\ queue = <<>> /\ second = <<>>
        /\ modifiers = [shift |-> FALSE, caps |-> FALSE]
        /\ port = [key |-> Shift, released |-> TRUE, full |-> FALSE]
        /\ vector = "bios"
        /\ heard = {}
        /\ physical = [down |-> {}, caps |-> FALSE]
        /\ typed = <<>> /\ got = <<>> /\ made = 0

-----------------------------------------------------------------------------
(* _bios_translate_scancode: caps lock is for letters only.                *)
(* Faulty, to break properties: for every character.                       *)
CapsForAll(k, mods) == k \notin Extended /\ (mods.shift # mods.caps)
Shifted(k, mods) ==
    CASE k \in Extended -> FALSE
      [] k \in Letter -> mods.shift # mods.caps
      [] OTHER -> mods.shift

Noted(mods, k, released) ==
    CASE k = Shift -> [mods EXCEPT !.shift = ~released]
      [] k = Caps /\ ~released -> [mods EXCEPT !.caps = ~@]
      [] OTHER -> mods

(* note_bios_keystroke, so many times: a full buffer takes no more.        *)
Note(words, word, times) ==
    LET room == Capacity - Len(words)
    IN  words \o [i \in 1..(IF times < room THEN times ELSE room) |-> word]

(* deliver_scancode: the code is put on the port; unless INT 9 still is the*)
(* BIOS's the keystroke is noted for the BIOS here; then the handler runs. *)
(* The BIOS's notes it; a program's reads the port and keeps its own table,*)
(* and may go on to the BIOS's.  A caps lock that is noted twice has not   *)
(* been switched.                                                          *)
TimesNoted(chains) ==
    (IF vector # "bios" THEN 1 ELSE 0) + (IF vector = "bios" \/ chains THEN 1 ELSE 0)

Deliver(k, released, chains) ==
    /\ made < MaxTyped
    /\ made' = made + 1
    /\ chains => vector = "program"
    /\ released <=> k \in physical.down
    /\ physical' = [down |-> IF released THEN physical.down \ {k} ELSE physical.down \cup {k},
                    caps |-> physical.caps # (k = Caps /\ ~released /\ ~chains)]
    /\ modifiers' = LET once == Noted(modifiers, k, released)
                    IN  IF TimesNoted(chains) = 2 THEN Noted(once, k, released) ELSE once
    /\ IF k \in Buffered /\ ~released
       THEN LET word == [key |-> k, shifted |-> Shifted(k, modifiers), nr |-> Len(typed) + 1]
            IN  /\ queue' = Note(queue, word, TimesNoted(chains))
                /\ typed' = IF Len(queue) < Capacity
                            THEN Append(typed, [key |-> k,
                                     shifted |-> /\ k \notin Extended
                                                 /\ (Shift \in physical.down)
                                                     # (k \in Letter /\ physical.caps),
                                     chained |-> chains])
                            ELSE typed
       ELSE UNCHANGED <<queue, typed>>
    /\ port' = [key |-> k, released |-> released, full |-> vector = "bios"]
    /\ heard' = IF vector = "bios" THEN heard
                ELSE IF released THEN heard \ {k} ELSE heard \cup {k}
    /\ UNCHANGED <<second, vector, got>>

(* INT 21h 25h, for vector 9.                                              *)
Install == /\ vector = "bios"
           /\ vector' = "program"
           /\ heard' = physical.down
           /\ UNCHANGED <<queue, second, modifiers, port, physical, typed, got, made>>

-----------------------------------------------------------------------------
(* INT 16h: the next word.                                                 *)
(* (A program that has read one half of an extended key first reads the    *)
(* other.)                                                                 *)
ReadWord == /\ second = <<>> /\ queue # <<>>
            /\ got' = Append(got, Head(queue))
            /\ queue' = Tail(queue)
            /\ UNCHANGED <<second, modifiers, port, vector, heard, physical, typed, made>>

(* INT 21h 01h, 07h and 08h return one byte: of an extended key first zero *)
(* and, from the next call, the scan code.  (With nothing to read both are *)
(* given an escape, if console_input_fallback is set, or are made again.)  *)
ReadByte ==
    /\ \/ /\ second # <<>>
          /\ got' = Append(got, second[1])
          /\ second' = <<>>
          /\ UNCHANGED queue
       \/ /\ second = <<>> /\ queue # <<>>
          /\ queue' = Tail(queue)
          /\ IF Head(queue).key \in Extended
             THEN second' = <<Head(queue)>> /\ UNCHANGED got
             ELSE got' = Append(got, Head(queue)) /\ UNCHANGED second
    /\ UNCHANGED <<modifiers, port, vector, heard, physical, typed, made>>

Next == \/ \E k \in Key, released, chains \in BOOLEAN : Deliver(k, released, chains)
        \/ Install \/ ReadWord \/ ReadByte

Spec == Init /\ [][Next]_consoleVars

-----------------------------------------------------------------------------
(* Are the words read those of the presses, in their order?  The first is  *)
(* of the first press, the next of the next - or once more of the same, if *)
(* its handler went on to the BIOS's - and the last of the last.           *)
InOrder(words, presses) ==
    /\ \A i \in 1..Len(words) :
           LET nr == words[i].nr
           IN  /\ nr \in 1..Len(presses)
               /\ words[i].key = presses[nr].key /\ words[i].shifted = presses[nr].shifted
    /\ words # <<>> => words[1].nr = 1
    /\ \A i \in 2..Len(words) :
           \/ words[i].nr = words[i - 1].nr + 1
           \/ /\ words[i].nr = words[i - 1].nr /\ presses[words[i].nr].chained
              /\ i > 2 => words[i - 2].nr # words[i].nr
    /\ Len(presses) = IF words = <<>> THEN 0 ELSE words[Len(words)].nr

(* Every key that was buffered is read, in the order of typing and as it   *)
(* was typed: with the case the shift key and caps lock gave it; and once, *)
(* which interrupts.py:85-92 is at pains to ensure, unless the program's   *)
(* handler goes on to the BIOS's: then at most twice, one after the other. *)
KeysReadAsTyped == InOrder(got \o second \o queue, typed)

(* Once the program has its own handler its table has the keys that are    *)
(* down, and the BIOS's buffer goes on being filled.                       *)
TableFollows == vector = "program" => heard = physical.down

TypedIsRead == KeysReadAsTyped /\ TableFollows
=============================================================================
