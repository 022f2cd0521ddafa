--------------------------- MODULE FeatureControl ---------------------------
(***************************************************************************)
(* Optional features that may be switched while the program runs           *)
(* (FeatureController of src/dos_re/features.py), live and in replay: a    *)
(* request is recorded in the replay channel and waits for a boundary that *)
(* is safe for its feature; a second controller is fed what was recorded   *)
(* and meets the same boundaries.                                          *)
(*                                                                         *)
(* The product's apply callback is external: it changes the machine, or    *)
(* raises, live and in replay.  The frame loop is too: requests come between boundaries, and   *)
(* in replay every event is fed before the boundary that follows it.       *)
(***************************************************************************)
EXTENDS Integers, Sequences

CONSTANTS
    Planned,      \* the features of the plan
    Behavioral,   \* those that change authoritative state
    Channel,      \* of each feature: whether it has a replay channel
    Safe,         \* of each feature: its safe boundaries ({} for any)
    Boundaries,   \* of a frame
    Settings,     \* values a feature can have, with Default
    Default,
    MaxRequests,  \* bound: requests in a session
    MaxBoundaries \* bound: boundaries met in a session

(* A behavioral feature has a replay channel (FeatureDescriptor).          *)
ASSUME FeatureAssumption == Behavioral \subseteq {f \in Planned : Channel[f]}

VARIABLES
    state, pending,  \* of the live controller; changes are numbered in the order of their requests
    game,            \* what apply made of the machine
    recording,       \* the events, each with the boundaries met before it
    met,             \* boundaries met so far, and what became of them
    twin,            \* the replay's controller and machine
    requests

featureVars == <<state, pending, game, recording, met, twin, requests>>

Defaults == [f \in Planned |-> Default]

FeaturesInit ==
    /\ state = Defaults /\ pending = {} /\ game = Defaults
    /\ recording = {} /\ met = <<>>
    /\ twin = [state |-> Defaults, pending |-> {}, game |-> Defaults, at |-> 0, fed |-> 0, raised |-> {}]
    /\ requests = 0

-----------------------------------------------------------------------------
(* Where in the timeline a request is recorded.                            *)
RecordedAt == Len(met)

(* Live.  A behavioral request nobody records is refused, and changes      *)
(* nothing; without a recorder the others are only queued.                 *)
Request(f, v, recorded) ==
    LET n == requests + 1
    IN  /\ requests < MaxRequests
        /\ f \in Behavioral => recorded
        /\ pending' = pending \cup {[id |-> n, feature |-> f, value |-> v]}
        /\ recording' = IF recorded /\ Channel[f]
                        THEN recording \cup {[id |-> n, feature |-> f, value |-> v, at |-> RecordedAt]}
                        ELSE recording
        /\ requests' = n
        /\ UNCHANGED <<state, game, met, twin>>

(* A feature that declares no boundary may change at each.                 *)
MayChange(f, b) == Safe[f] = {} \/ b \in Safe[f]
DueOf(changes, b) == {c \in changes : MayChange(c.feature, b)}
Retained(changes, b) == {c \in changes : ~MayChange(c.feature, b)}

(* Changes are applied in order, so that the last one stays.               *)
LastValue(old, changes) ==
    [f \in Planned |->
        LET of == {c \in changes : c.feature = f}
        IN  IF of = {} THEN old[f] ELSE (CHOOSE c \in of : \A d \in of : d.id <= c.id).value]

(* apply raises at the change numbered fails, if it is not 0: those before *)
(* it are applied, and nothing leaves the queue.                           *)
MayRaise(changes, b, fails) == fails = 0 \/ \E c \in DueOf(changes, b) : c.id = fails
Applied(old, changes, b, fails) ==
    LastValue(old, {c \in DueOf(changes, b) : fails = 0 \/ c.id < fails})
(* Faulty, to break properties: what was due is gone all the same.         *)
KeptRetained(changes, b, fails) == Retained(changes, b)
Kept(changes, b, fails) == IF fails = 0 THEN Retained(changes, b) ELSE changes

ApplyPending(b, fails) ==
    /\ Len(met) < MaxBoundaries
    /\ MayRaise(pending, b, fails)
    /\ state' = Applied(state, pending, b, fails)
    /\ game' = Applied(game, pending, b, fails)
    /\ pending' = Kept(pending, b, fails)
    /\ met' = Append(met, [boundary |-> b, failed |-> fails # 0, game |-> game'])
    /\ UNCHANGED <<recording, twin, requests>>

-----------------------------------------------------------------------------
(* Replay.                                                                 *)

NextEvent == CHOOSE e \in recording : e.id > twin.fed /\ \A d \in recording : d.id > twin.fed => e.id <= d.id
Ready == (\E e \in recording : e.id > twin.fed) /\ NextEvent.at = twin.at

Change(event) == [id |-> event.id, feature |-> event.feature, value |-> event.value]

AcceptReplayEvent ==
    /\ Ready
    /\ twin' = [state |-> twin.state, pending |-> twin.pending \cup {Change(NextEvent)},
                game |-> twin.game, at |-> twin.at, fed |-> NextEvent.id,
                raised |-> twin.raised]
    /\ UNCHANGED <<state, pending, game, recording, met, requests>>

ReplayBoundary(fails) ==
    /\ twin.at < Len(met) /\ ~Ready
    /\ LET n == twin.at + 1
           b == met[n].boundary
       IN  /\ MayRaise(twin.pending, b, fails)
           /\ twin' = [state |-> Applied(twin.state, twin.pending, b, fails),
                       pending |-> Kept(twin.pending, b, fails),
                       game |-> Applied(twin.game, twin.pending, b, fails),
                       at |-> n, fed |-> twin.fed,
                       raised |-> IF fails = 0 THEN twin.raised ELSE twin.raised \cup {n}]
    /\ UNCHANGED <<state, pending, game, recording, met, requests>>

FeaturesNext ==
    \/ \E f \in Planned, v \in Settings, recorded \in BOOLEAN : Request(f, v, recorded)
    \/ \E b \in Boundaries, fails \in 0..MaxRequests : ApplyPending(b, fails)
    \/ AcceptReplayEvent
    \/ \E fails \in 0..MaxRequests : ReplayBoundary(fails)

FeaturesSpec == FeaturesInit /\ [][FeaturesNext]_featureVars

-----------------------------------------------------------------------------
(* Did the last boundary where f may change raise in neither run?          *)
Settled(f, n) ==
    \A i \in 1..n : MayChange(f, met[i].boundary) /\ (met[i].failed \/ i \in twin.raised)
                       => \E j \in i + 1..n : MayChange(f, met[j].boundary)

(* apply may raise in either run, at any change, and at another in the     *)
(* other run; the changes before it stay, and all are applied again.  All  *)
(* the same the replay has of each authoritative feature what the recorded *)
(* run had at that boundary, unless the last one at which it may change    *)
(* raised (features.py:31-36: neither path applies a change until a        *)
(* declared safe boundary).  And no request is lost, doubled or overtaken  *)
(* by an older one: a replay that was fed everything gets, with what still *)
(* waits, to where the run gets with what waits there.                     *)
ReplayedAlike ==
    \A f \in Behavioral :
        /\ twin.at > 0 /\ Settled(f, twin.at) => twin.game[f] = met[twin.at].game[f]
        /\ (\A e \in recording : e.id <= twin.fed) =>
               LastValue(twin.game, twin.pending)[f] = LastValue(game, pending)[f]

(* What a controller says of a feature is so.                              *)
StateIsMachine == state = game /\ twin.state = twin.game
FeaturesReplayed == ReplayedAlike /\ StateIsMachine
=============================================================================
