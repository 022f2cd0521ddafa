------------------------- MODULE KeyDispatcherProofs -------------------------
(***************************************************************************)
(* Proofs about KeyDispatcher, for any scan codes, any ways to pump and    *)
(* any number of posts.                                                    *)
(***************************************************************************)
EXTENDS KeyDispatcher, SequenceTheorems, TLAPS

(* The dispatcher knows the game's table, the game has polled every key    *)
(* that counts as held, except for those that the frame about to run is    *)
(* going to show it, and only the release phase has releases to look at.   *)
TablesAgree ==
    /\ table = down
    /\ pc # "frame" => aged \subseteq polled
    /\ pc # "release" => todo = {}

(* What the user last did with a key is told by the last event queued for  *)
(* it or, when there is none, by what was applied.                         *)
LastEvent(i) ==
    \A j \in 1..Len(events) : j > i => events[j].code # events[i].code

WantedQueued ==
    \A i \in 1..Len(events) :
        LastEvent(i) => (events[i].code \in wanted <=> events[i].kind = "down")

WantedApplied ==
    \A k \in ScanCode :
        (\A i \in 1..Len(events) : events[i].code # k)
            => (k \in wanted <=> k \in down \ release)

Inv == KeysTypeOK /\ TablesAgree
Queue == WantedQueued /\ WantedApplied

-----------------------------------------------------------------------------
LEMMA InitInv == KeysInit => Inv /\ Queue
  BY DEF KeysInit, Inv, Queue, KeysTypeOK, TablesAgree, WantedQueued, WantedApplied

LEMMA NextInv == Inv /\ [KeysNext]_keyVars => Inv'
<1> SUFFICES ASSUME Inv, [KeysNext]_keyVars PROVE Inv'
  OBVIOUS
<1> USE DEF Inv, KeysTypeOK, TablesAgree
<1>1. ASSUME NEW k \in ScanCode, PostDown(k) PROVE Inv'
  BY <1>1 DEF PostDown, Event, dispatcherVars, pumpVars, gameVars
<1>2. ASSUME NEW k \in ScanCode, PostUp(k) PROVE Inv'
  BY <1>2 DEF PostUp, Event, dispatcherVars, pumpVars, gameVars
<1>3. ASSUME NEW m \in Mode, Begin(m) PROVE Inv'
  BY <1>3 DEF Begin, Code, dispatcherVars, userVars
<1>4. CASE Drain
  <2>1. Head(events) \in Event /\ Tail(events) \in Seq(Event)
    BY <1>4 DEF Drain
  <2> DEFINE k == Head(events).code
  <2>2. k \in ScanCode
    BY <2>1 DEF Event
  <2>3. CASE Down(k) /\ k \in down
    BY <1>4, <2>1, <2>2, <2>3 DEF Drain, Down, pumpVars, userVars, gameVars
  <2>4. CASE Down(k) /\ k \notin down
    <3>1. sent' = Append(sent, [kind |-> "make", code |-> k])
      BY <2>4 DEF Down, Make
    <3> [kind |-> "make", code |-> k] \in Code
      BY <2>2 DEF Code
    <3> HIDE DEF k
    <3> sent' \in Seq(Code)
      BY <3>1
    <3>2. QED
      BY <1>4, <2>1, <2>2, <2>4 DEF Drain, Down, Make, pumpVars, userVars
  <2>5. CASE Up(k)
    BY <1>4, <2>1, <2>2, <2>5 DEF Drain, Up, pumpVars, userVars, gameVars
  <2>6. QED
    BY <1>4, <2>3, <2>4, <2>5 DEF Drain
<1>5. CASE Drained
  BY <1>5 DEF Drained, dispatcherVars, gameVars, userVars
<1>6. CASE ReleaseReady
  <2> PICK k \in todo :
        /\ todo' = todo \ {k}
        /\ IF Ready(k) THEN Released(k) /\ release' = release \ {k}
                       ELSE UNCHANGED <<dispatcherVars, gameVars>>
    BY <1>6 DEF ReleaseReady
  <2>1. CASE Ready(k)
    <3>1. sent' = Append(sent, [kind |-> "break", code |-> k])
      BY <2>1 DEF Released, Break
    <3> [kind |-> "break", code |-> k] \in Code
      BY DEF Code
    <3> sent' \in Seq(Code)
      BY <3>1
    <3>2. QED
      BY <1>6, <2>1 DEF ReleaseReady, Released, Break, userVars
  <2>2. CASE ~Ready(k)
    BY <1>6, <2>2 DEF ReleaseReady, dispatcherVars, gameVars, userVars
  <2>3. QED
    BY <2>1, <2>2
<1>7. CASE ReleaseDone
  BY <1>7 DEF ReleaseDone, dispatcherVars, gameVars, userVars
<1>8. CASE Age
  BY <1>8 DEF Age, AgedNow, gameVars, userVars
<1>9. CASE Frame
  BY <1>9 DEF Frame, dispatcherVars, userVars
<1>10. CASE UNCHANGED keyVars
  BY <1>10 DEF keyVars, dispatcherVars, pumpVars, gameVars, userVars
<1>11. QED
  BY <1>1, <1>2, <1>3, <1>4, <1>5, <1>6, <1>7, <1>8, <1>9, <1>10 DEF KeysNext, Pumping

(* KeysTypeOK: every variable has its type, aged keys are down, polled keys    *)
(* are in the table and the releases being gone through are pending.       *)
THEOREM TypeCorrect == KeysSpec => []KeysTypeOK
<1>1. Inv => KeysTypeOK
  BY DEF Inv
<1>2. QED
  BY <1>1, InitInv, NextInv, PTL DEF KeysSpec

-----------------------------------------------------------------------------
(* No key goes up in the game before the game has polled it down.          *)
LEMMA StepPolled ==
    Inv /\ [KeysNext]_keyVars => [\A k \in table : k \notin table' /\ mode # "events" => k \in polled]_keyVars
<1> SUFFICES ASSUME Inv, KeysNext, NEW k \in table, k \notin table', mode # "events"
             PROVE  k \in polled
  OBVIOUS
<1>1. CASE ReleaseReady
  BY <1>1 DEF ReleaseReady, Ready, Released, Break, Inv, KeysTypeOK, TablesAgree,
              gameVars
<1>2. CASE Drain
  BY <1>2 DEF Drain, Down, Up, Make, gameVars
<1>3. ASSUME ~ReleaseReady, ~Drain PROVE table' = table
  BY <1>3 DEF KeysNext, Pumping, PostDown, PostUp, Begin, Drained, ReleaseDone,
              Age, Frame, gameVars
<1>4. QED
  BY <1>1, <1>2, <1>3

(* TapPolled: however posts and pumps interleave, a break code follows a   *)
(* poll that saw the key down, unless pump_events gave that up.            *)
THEOREM TapsReachTheGame == KeysSpec => TapPolled
  BY InitInv, NextInv, StepPolled, PTL DEF KeysSpec, TapPolled

-----------------------------------------------------------------------------
LEMMA PostQueue ==
    ASSUME Inv, Queue, NEW k \in ScanCode, PostDown(k) \/ PostUp(k)
    PROVE  Queue'
<1> DEFINE n == Len(events)
<1> PICK kind \in {"down", "up"} :
        /\ events' = Append(events, [kind |-> kind, code |-> k])
        /\ wanted' = IF kind = "down" THEN wanted \cup {k} ELSE wanted \ {k}
        /\ UNCHANGED <<dispatcherVars, gameVars>>
  BY DEF PostDown, PostUp
<1>1. /\ events \in Seq(Event) /\ n \in Nat
      /\ Len(events') = n + 1
      /\ \A i \in 1..n : events'[i] = events[i]
      /\ events'[n + 1] = [kind |-> kind, code |-> k]
  BY DEF Inv, KeysTypeOK, Event
<1>2. WantedQueued'
  <2> SUFFICES ASSUME NEW i \in 1..n + 1, LastEvent(i)'
               PROVE  events'[i].code \in wanted' <=> events'[i].kind = "down"
    BY <1>1 DEF WantedQueued
  <2>1. CASE i = n + 1
    BY <1>1, <2>1
  <2>2. CASE i # n + 1
    <3>1. i \in 1..n /\ events'[i] = events[i]
      BY <1>1, <2>2
    <3>2. events[i].code # k
      BY <1>1, <3>1 DEF LastEvent
    <3>3. LastEvent(i)
      BY <1>1, <3>1 DEF LastEvent
    <3>4. QED
      BY <3>1, <3>2, <3>3 DEF Queue, WantedQueued
  <2>3. QED
    BY <2>1, <2>2
<1>3. WantedApplied'
  <2> SUFFICES ASSUME NEW j \in ScanCode,
                      \A i \in 1..n + 1 : events'[i].code # j
               PROVE  j \in wanted' <=> j \in down \ release
    BY <1>1 DEF WantedApplied, dispatcherVars
  <2>1. j # k /\ \A i \in 1..n : events[i].code # j
    BY <1>1
  <2>2. QED
    BY <2>1 DEF Queue, WantedApplied
<1>4. QED
  BY <1>2, <1>3 DEF Queue

LEMMA DrainQueue ==
    ASSUME Inv, Queue, Drain
    PROVE  Queue'
<1> DEFINE n == Len(events)
           e == events[1]
<1>1. /\ events \in Seq(Event) /\ n \in Nat \ {0}
      /\ e = Head(events) /\ e \in Event
      /\ Len(events') = n - 1
      /\ \A i \in 1..n - 1 : events'[i] = events[i + 1]
  BY DEF Drain, Inv, KeysTypeOK
<1>2. /\ wanted' = wanted
      /\ e.code \in ScanCode
      /\ down' \ release' = IF e.kind = "down" THEN (down \ release) \cup {e.code}
                                               ELSE (down \ release) \ {e.code}
  BY <1>1 DEF Drain, Down, Up, userVars, Event, gameVars
<1>3. WantedQueued'
  <2> SUFFICES ASSUME NEW i \in 1..n - 1, LastEvent(i)'
               PROVE  events'[i].code \in wanted <=> events'[i].kind = "down"
    BY <1>1, <1>2 DEF WantedQueued
  <2>1. LastEvent(i + 1)
    <3> SUFFICES ASSUME NEW j \in 1..n, j > i + 1
                 PROVE  events[j].code # events[i + 1].code
      BY DEF LastEvent
    <3>1. j - 1 \in 1..n - 1 /\ j - 1 > i /\ (j - 1) + 1 = j
      BY <1>1
    <3>2. \A l \in 1..n - 1 : l > i => events'[l].code # events'[i].code
      BY <1>1 DEF LastEvent
    <3>3. events'[j - 1].code # events'[i].code
      BY <3>1, <3>2
    <3>4. events'[j - 1] = events[j] /\ events'[i] = events[i + 1]
      BY <1>1, <3>1
    <3>5. QED
      BY <3>3, <3>4
  <2>2. i + 1 \in 1..n
    BY <1>1
  <2>3. QED
    BY <1>1, <2>1, <2>2 DEF Queue, WantedQueued
<1>4. WantedApplied'
  <2> SUFFICES ASSUME NEW k \in ScanCode,
                      \A i \in 1..n - 1 : events'[i].code # k
               PROVE  k \in wanted <=> k \in down' \ release'
    BY <1>1, <1>2 DEF WantedApplied
  <2>1. \A j \in 1..n : j > 1 => events[j].code # k
    <3> TAKE j \in 1..n
    <3> HAVE j > 1
    <3>1. j - 1 \in 1..n - 1 /\ (j - 1) + 1 = j
      BY <1>1
    <3>2. events'[j - 1] = events[j]
      BY <1>1, <3>1
    <3>3. QED
      BY <3>1, <3>2
  <2>2. CASE e.code = k
    <3>1. LastEvent(1)
      BY <2>1, <2>2 DEF LastEvent
    <3>2. QED
      BY <1>1, <1>2, <2>2, <3>1 DEF Queue, WantedQueued
  <2>3. CASE e.code # k
    <3>1. \A j \in 1..n : events[j].code # k
      BY <2>1, <2>3
    <3>2. QED
      BY <1>2, <2>3, <3>1 DEF Queue, WantedApplied
  <2>4. QED
    BY <2>2, <2>3
<1>5. QED
  BY <1>3, <1>4 DEF Queue

LEMMA NextQueue == Inv /\ Queue /\ [KeysNext]_keyVars => Queue'
<1> SUFFICES ASSUME Inv, Queue, [KeysNext]_keyVars PROVE Queue'
  OBVIOUS
<1>1. ASSUME NEW k \in ScanCode, PostDown(k) \/ PostUp(k) PROVE Queue'
  BY <1>1, PostQueue
<1>2. CASE Drain
  BY <1>2, DrainQueue
<1>3. ASSUME UNCHANGED <<events, wanted>>, down' \ release' = down \ release
      PROVE  Queue'
  BY <1>3 DEF Queue, WantedQueued, WantedApplied, LastEvent
<1>4. CASE ReleaseReady
  <2>1. down' \ release' = down \ release
    BY <1>4 DEF ReleaseReady, Released, dispatcherVars, Inv, KeysTypeOK
  <2>2. QED
    BY <1>3, <1>4, <2>1 DEF ReleaseReady, userVars
<1>5. CASE UNCHANGED <<events, wanted, down, release>>
  BY <1>3, <1>5
<1>6. QED
  BY <1>1, <1>2, <1>4, <1>5
     DEF KeysNext, Pumping, Begin, Drained, ReleaseDone, Age, Frame, keyVars,
         dispatcherVars, userVars

(* The queue tells, and with none the table is what is wanted.             *)
LEMMA QueueRests == Inv /\ Queue => RestingTable
<1> SUFFICES ASSUME Inv, Queue, AtRest PROVE table = wanted
  BY DEF RestingTable
<1>1. \A k \in ScanCode : k \in wanted <=> k \in down \ release
  <2>1. events = <<>> /\ Len(events) = 0
    BY DEF AtRest
  <2>2. 1..Len(events) = {}
    BY <2>1
  <2>3. QED
    BY <2>2, Zenon DEF Queue, WantedApplied
<1>2. QED
  BY <1>1 DEF AtRest, Inv, KeysTypeOK, TablesAgree

(* RestingTable: with nothing left to apply, the game's key-state table    *)
(* holds exactly the keys that the user last pressed.                      *)
THEOREM TableFollowsUser == KeysSpec => []RestingTable
  BY QueueRests, InitInv, NextInv, NextQueue, PTL DEF KeysSpec
=============================================================================
