---------------------------- MODULE KeyDispatcher ----------------------------
(***************************************************************************)
(* src/dos_re/keyboard.py: KeyDispatcher, between the window that posts    *)
(* key events and the game, which polls its key-state table once a frame.  *)
(*                                                                         *)
(* Posts come from any thread, one deque operation at a time, in between   *)
(* any two operations of a pump.  The table is the game's own: its INT 09h *)
(* handler sets an entry on a make code and clears it on a break code.     *)
(***************************************************************************)
EXTENDS Integers, Sequences

CONSTANTS
    ScanCode,
    Mode,       \* how the runner pumps: pump() is "pump",
                \* pump(allow_release=False) "keep", pump_events() "events"
    MaxPosts    \* bound: events posted in all

VARIABLES
    events,     \* _events
    down,       \* the scan codes of _down ...
    aged,       \* ... and those of them held for at least one frame
    release,    \* _release
    mode,       \* the call of the pump in progress
    pc,
    todo,       \* list(_release), as far as it has not been gone through
    table,      \* the game's key-state table
    polled,     \* keys the game has seen down in it since their make code
    wanted,     \* the keys whose last posted event was a press
    sent,       \* the scan codes delivered in the pump in progress
    posts       \* counts them, for MaxPosts

pumpVars == <<mode, pc, todo>>
dispatcherVars == <<down, aged, release>>
gameVars == <<table, polled, sent>>
userVars == <<wanted, posts>>
keyVars == <<events, dispatcherVars, pumpVars, gameVars, userVars>>

Event == [kind : {"down", "up"}, code : ScanCode]
Code == [kind : {"make", "break"}, code : ScanCode]

KeysTypeOK ==
    /\ events \in Seq(Event)
    /\ aged \subseteq down
    /\ down \subseteq ScanCode
    /\ release \subseteq ScanCode
    /\ mode \in Mode \cup {"pump"}
    /\ pc \in {"idle", "drain", "release", "age", "frame"}
    /\ todo \subseteq release
    /\ polled \subseteq table
    /\ table \subseteq ScanCode
    /\ sent \in Seq(Code)
    /\ wanted \subseteq ScanCode
    /\ posts \in Nat

KeysInit ==
    /\ events = <<>>
    /\ down = {} /\ aged = {} /\ release = {}
    /\ mode = "pump" /\ pc = "idle" /\ todo = {}
    /\ table = {} /\ polled = {} /\ sent = <<>>
    /\ wanted = {} /\ posts = 0

-----------------------------------------------------------------------------
(* The window.                                                             *)

PostDown(k) ==
    /\ posts < MaxPosts
    /\ posts' = posts + 1
    /\ events' = Append(events, [kind |-> "down", code |-> k])
    /\ wanted' = wanted \cup {k}
    /\ UNCHANGED <<dispatcherVars, pumpVars, gameVars>>

PostUp(k) ==
    /\ posts < MaxPosts
    /\ posts' = posts + 1
    /\ events' = Append(events, [kind |-> "up", code |-> k])
    /\ wanted' = wanted \ {k}
    /\ UNCHANGED <<dispatcherVars, pumpVars, gameVars>>

-----------------------------------------------------------------------------
(* What the game makes of a scan code: deliver.                            *)
Make(k) == /\ table' = table \cup {k}
           /\ polled' = polled \ {k}
           /\ sent' = Append(sent, [kind |-> "make", code |-> k])

Break(k) == /\ table' = table \ {k}
            /\ polled' = polled \ {k}
            /\ sent' = Append(sent, [kind |-> "break", code |-> k])

-----------------------------------------------------------------------------
(* Faulty variants, to break properties: no specification uses them.       *)

(* a press that does not cancel the release that is pending                *)
DownForgetsRelease(k) ==
    /\ IF k \in down THEN UNCHANGED <<down, aged, gameVars>>
       ELSE Make(k) /\ down' = down \cup {k} /\ UNCHANGED aged
    /\ UNCHANGED release

(* a key counted as held as soon as it is down                             *)
ReadyAtOnce(k) == k \in down \/ mode = "events"

(* a break code that leaves the key's age behind                           *)
BreakKeepsAge(k) == /\ Break(k)
                    /\ down' = down \ {k}
                    /\ UNCHANGED aged

(* a pump that ages no key                                                 *)
AgeNothing == aged

-----------------------------------------------------------------------------
(* _drain_events, one event at a time.                                     *)

Down(k) ==
    /\ release' = release \ {k}
    /\ IF k \in down THEN UNCHANGED <<down, aged, gameVars>>
       ELSE Make(k) /\ down' = down \cup {k} /\ UNCHANGED aged

Up(k) == /\ release' = release \cup {k}
         /\ UNCHANGED <<down, aged, gameVars>>

Begin(m) ==
    /\ pc = "idle"
    /\ mode' = m
    /\ pc' = "drain"
    /\ sent' = <<>>
    /\ UNCHANGED <<events, dispatcherVars, todo, table, polled, userVars>>

Drain ==
    /\ pc = "drain"
    /\ events # <<>>
    /\ events' = Tail(events)
    /\ IF Head(events).kind = "down" THEN Down(Head(events).code)
                                     ELSE Up(Head(events).code)
    /\ UNCHANGED <<pumpVars, userVars>>

Drained ==
    /\ pc = "drain"
    /\ events = <<>>
    /\ IF mode = "keep" THEN pc' = "age" /\ UNCHANGED todo
                        ELSE pc' = "release" /\ todo' = release
    /\ UNCHANGED <<events, mode, dispatcherVars, gameVars, userVars>>

(* _release_ready: a tap is held until it has lasted a frame, unless       *)
(* hold_new_taps is False.                                                 *)
Ready(k) == k \in aged \/ mode = "events"

Released(k) == /\ Break(k)
               /\ down' = down \ {k}
               /\ aged' = aged \ {k}

ReleaseReady ==
    /\ pc = "release"
    /\ \E k \in todo :
          /\ todo' = todo \ {k}
          /\ IF Ready(k) THEN Released(k) /\ release' = release \ {k}
                         ELSE UNCHANGED <<dispatcherVars, gameVars>>
    /\ UNCHANGED <<events, mode, pc, userVars>>

(* (pump_events ends here: it is no frame of the game.)                    *)
ReleaseDone ==
    /\ pc = "release"
    /\ todo = {}
    /\ pc' = IF mode = "events" THEN "idle" ELSE "age"
    /\ UNCHANGED <<events, mode, todo, dispatcherVars, gameVars, userVars>>

AgedNow == down

Age ==
    /\ pc = "age"
    /\ aged' = AgedNow
    /\ pc' = "frame"
    /\ UNCHANGED <<events, mode, todo, down, release, gameVars, userVars>>

(* The game runs a frame and polls its table.                              *)
Frame ==
    /\ pc = "frame"
    /\ polled' = table
    /\ pc' = "idle"
    /\ UNCHANGED <<events, mode, todo, dispatcherVars, table, sent, userVars>>

-----------------------------------------------------------------------------
Pumping == Drain \/ Drained \/ ReleaseReady \/ ReleaseDone \/ Age \/ Frame

KeysNext == \/ \E k \in ScanCode : PostDown(k) \/ PostUp(k)
            \/ \E m \in Mode : Begin(m)
            \/ Pumping

(* The runner pumps at every frame; one that keeps breaks back after a     *)
(* presented frame has other boundaries at which it does not, again and    *)
(* again.                                                                  *)
KeysFairness == WF_keyVars(Pumping) /\ SF_keyVars(Begin("pump"))

KeysSpec == KeysInit /\ [][KeysNext]_keyVars /\ KeysFairness

-----------------------------------------------------------------------------
(* A break code follows a poll of the game that saw the key down: no tap   *)
(* is lost between two frames (keyboard.py:55-60, 86-92).  pump_events     *)
(* gives that up.                                                          *)
TapPolled == [][\A k \in table : k \notin table' /\ mode # "events" => k \in polled]_keyVars

(* With nothing left to apply, the game's table is what the user last did, *)
(* however posts and pumps interleave.                                     *)
AtRest == pc = "idle" /\ events = <<>> /\ release \cap down = {}
RestingTable == AtRest => table = wanted

(* A key that is let go does not stay down in the game, nor does one that  *)
(* is held stay up.                                                        *)
TableSettles == \A k \in ScanCode :
    /\ <>[](k \in wanted) => <>[](k \in table)
    /\ <>[](k \notin wanted) => <>[](k \notin table)
=============================================================================
