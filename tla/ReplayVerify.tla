---------------------------- MODULE ReplayVerify ----------------------------
(***************************************************************************)
(* Differential verification over a replay artifact: verify_interval,      *)
(* verify_checkpointed and bisect_divergence of src/dos_re/replay.py, and  *)
(* the evidence they leave in the artifact.                                *)
(*                                                                         *)
(* An oracle and a candidate implementation are driven along the recorded  *)
(* timeline, from the nearest cached boundary of each, and the canonical   *)
(* projections of their states are compared.  Both are deterministic, so   *)
(* what there is to know of them is fixed in the initial state: at which   *)
(* points their projections agree, and which transitions between points    *)
(* have the same observable effects.                                       *)
(*                                                                         *)
(* The artifact is the catalogue of module ReplayCatalog: a call that      *)
(* changes it adds its entry in one step, or raises.  Opening it takes two *)
(* steps, a reading and, later, a recovery, which may write back what was  *)
(* read and so undo what others did in between.  (A reading in the middle  *)
(* of another's publication is a matter of module ReplayStore.)            *)
(* A boundary is cached together with the state the driver had when it was *)
(* captured, which nothing but the order of the steps below makes the      *)
(* state of that boundary.                                                 *)
(***************************************************************************)
EXTENDS Integers, FiniteSetsExt

LOCAL INSTANCE TLC

CONSTANTS
    Verifier,    \* the processes that verify, each with an artifact handle
    End,         \* the end point of the timeline
    Span,        \* the values of checkpoint_span tried
    Quiet,       \* whether the effects of a transition agree: the answers tried
    MaxCalls,    \* bound: verifications started in all
    MaxOpens     \* bound: times the artifact is opened anew

ASSUME VerifyConstants == /\ End \in Nat \ {0}
                          /\ Span \subseteq Nat \ {0}
                          /\ Quiet \subseteq BOOLEAN
                          /\ MaxCalls \in Nat /\ MaxOpens \in Nat

Point == 0..End
Side == {"oracle", "candidate"}

(* A cached boundary: its point, and the point whose state was captured.   *)
Captured == [point : Point, state : Nat]

(* Validation records and point annotations.                               *)
EvidenceKinds == {"equivalent", "different", "verified-endpoint",
                  "invalid-interval-start", "latest-valid", "bisected"}
Evidence == [kind : EvidenceKinds, at : Point, other : Point]

C == INSTANCE ReplayContent WITH Profile <- Side, Point <- Captured,
                                 Annotation <- Evidence, Coordinates <- {}

VARIABLES
    agree,       \* environment: do the projections agree at a point?
    quiet,       \* environment: does the transition into a point have the same effects?
    durable,     \* the manifest of the artifact
    kept,        \* the boundaries whose directories the artifact has
    seen,        \* the manifest of each verifier's handle
    recorded,    \* history: the evidence ever written to the artifact
    overwritten, \* history: has an open written back what it had read?
    pc, call, bisect,     \* what each verifier is doing
    at,          \* the state each of its drivers is in
    cursor,      \* verify_checkpointed: how far it has got
    verdict,     \* the comparison just made
    told,        \* the result the verifier last returned to its caller
    calls,       \* counts them, for MaxCalls
    opens        \* counts them, for MaxOpens

environment == <<agree, quiet>>
artifact == <<durable, kept, seen, recorded, overwritten>>
localVars == <<pc, call, bisect, at, cursor, verdict, told>>
verifyVars == <<environment, artifact, localVars, calls, opens>>

PCs == {"idle", "opening", "position", "bad start", "cache oracle start", "cache candidate start",
        "replay", "segment", "refine", "record", "note",
        "cache oracle end", "cache candidate end", "return", "bisected"}

NoCall == [kind |-> "none", start |-> 0, end |-> 0, span |-> 1, effects |-> FALSE]
Call == [kind : {"none", "interval", "checkpointed", "bisect"}, start : Point, end : Point,
         span : Span \cup {1}, effects : BOOLEAN]

(* Of a bisection: the supplied points are all those from first to last.   *)
NoBisect == [phase |-> "none", first |-> 0, lo |-> 0, hi |-> 0]
Bisect == [phase : {"none", "whole", "probe", "last"},
           first : Point, lo : Point, hi : Point]

(* equal, or the interval that was found to diverge                        *)
Verdict == [equal : BOOLEAN, before : Point, after : Point]
Equivalent(s, e) == [equal |-> TRUE, before |-> s, after |-> e]
Divergent(s, e) == [equal |-> FALSE, before |-> s, after |-> e]
Nothing == [call |-> NoCall, verdict |-> Equivalent(0, 0)]

TypeOK ==
    /\ agree \in [Point -> BOOLEAN]
    /\ quiet \in [1..End -> Quiet]
    /\ durable \in C!Content
    /\ kept \subseteq C!Boundary
    /\ seen \in [Verifier -> C!Content]
    /\ recorded \subseteq Evidence
    /\ overwritten \in BOOLEAN
    /\ pc \in [Verifier -> PCs]
    /\ call \in [Verifier -> Call]
    /\ bisect \in [Verifier -> Bisect]
    /\ at \in [Verifier -> [Side -> Nat]]
    /\ cursor \in [Verifier -> Point]
    /\ verdict \in [Verifier -> Verdict]
    /\ told \in [Verifier -> [call : Call, verdict : Verdict]]
    /\ calls \in Nat /\ opens \in Nat

(* An artifact with both profiles registered at point 0.                   *)
NewArtifact == [C!Nothing EXCEPT !.profiles = Side]

Init ==
    /\ agree \in [Point -> BOOLEAN]
    /\ quiet \in [1..End -> Quiet]
    /\ durable = NewArtifact
    /\ kept = {}
    /\ seen = [v \in Verifier |-> NewArtifact]
    /\ recorded = {}
    /\ overwritten = FALSE
    /\ pc = [v \in Verifier |-> "idle"]
    /\ call = [v \in Verifier |-> NoCall]
    /\ bisect = [v \in Verifier |-> NoBisect]
    /\ at = [v \in Verifier |-> [d \in Side |-> 0]]
    /\ cursor = [v \in Verifier |-> 0]
    /\ verdict = [v \in Verifier |-> Equivalent(0, 0)]
    /\ told = [v \in Verifier |-> Nothing]
    /\ calls = 0 /\ opens = 0

Busy(v) == pc[v] \notin {"idle", "opening"}
At(v, l) == pc[v] = l
Goto(v, l) == pc' = [pc EXCEPT ![v] = l]

-----------------------------------------------------------------------------
(* The artifact, through a handle whose manifest is c.                     *)

Boundaries(c, d) == {b[2] : b \in {x \in c.boundaries : x[1] = d}}

HasCached(c, d, i) == i = 0 \/ \E b \in Boundaries(c, d) : b.point = i

(* nearest_cached: the base state counts as a boundary at point 0.         *)
Nearest(c, d, i) ==
    LET eligible == {b \in Boundaries(c, d) : b.point <= i}
                    \cup {[point |-> 0, state |-> 0]}
    IN  CHOOSE b \in eligible : \A x \in eligible : x.point <= b.point

(* One mutation of the artifact adds an entry.  The handle is reloaded     *)
(* under the lock, so it ends up with what is on disk.                     *)
Mutate(v, e) == /\ durable' = C!Merge(durable, e)
                /\ kept' = kept \cup e.boundaries
                /\ seen' = [seen EXCEPT ![v] = durable']
                /\ recorded' = recorded \cup e.annotations
                /\ UNCHANGED overwritten

Note(kind, i, j) == C!AnnotationEntry([kind |-> kind, at |-> i, other |-> j])

(* has_cached, asked of the handle, and cache, which asks again under the  *)
(* lock and captures nothing new if the boundary is there.                 *)
Cache(v, d, i) ==
    IF HasCached(seen[v], d, i) THEN UNCHANGED artifact
    ELSE Mutate(v, IF HasCached(durable, d, i) THEN C!Nothing
                   ELSE C!BoundaryEntry(<<d, [point |-> i, state |-> at[v][d]]>>))

(* Do the projections of two states agree?                                 *)
Same(o, c) == o = c /\ o \in Point /\ agree[o]

(* The state driver d is in at point i after being positioned there.       *)
Positioned(v, i) == [d \in Side |-> LET b == Nearest(seen[v], d, i)
                                    IN  b.state + (i - b.point)]

(* A state that is restored must still be there.                           *)
Restorable(v, i) == \A d \in Side : LET b == Nearest(seen[v], d, i)
                                    IN  b.point = 0 \/ <<d, b>> \in kept

(* The states of the drivers n points further on.                          *)
Replayed(v, n) == [d \in Side |-> at[v][d] + n]

-----------------------------------------------------------------------------
(* Faulty variants of steps below: what a plausible slip in the code would *)
(* do.  No specification uses them; each is there to break properties.     *)

(* the end of an interval captured whatever the comparison says            *)
NoteThenCache(v) ==
    /\ At(v, "note")
    /\ Mutate(v, IF verdict[v].equal
                 THEN Note("verified-endpoint", call[v].end, call[v].end)
                 ELSE Note("latest-valid", verdict[v].before, verdict[v].after))
    /\ Goto(v, "cache oracle end")
    /\ UNCHANGED <<environment, call, bisect, at, cursor, verdict, told, calls, opens>>

(* the annotation made before the validation is recorded                   *)
NoteBeforeRecord(v) ==
    /\ At(v, "record")
    /\ Mutate(v, IF verdict[v].equal
                 THEN Note("verified-endpoint", call[v].end, call[v].end)
                 ELSE Note("latest-valid", verdict[v].before, verdict[v].after))
    /\ Goto(v, "note")
    /\ UNCHANGED <<environment, call, bisect, at, cursor, verdict, told, calls, opens>>

(* the comparison at the start left out                                    *)
PositionUnchecked(v) ==
    /\ At(v, "position")
    /\ at' = [at EXCEPT ![v] = Positioned(v, call[v].start)]
    /\ Goto(v, "cache oracle start")
    /\ UNCHANGED <<environment, artifact, call, bisect, cursor, verdict, told, calls, opens>>

(* only the endpoint of a segment compared, as verify_interval does        *)
EndpointEqual(v) ==
    LET n == Min({call[v].span, call[v].end - cursor[v]})
    IN  Same(Replayed(v, n)["oracle"], Replayed(v, n)["candidate"])

(* a last segment that does not stop at the end of the interval            *)
SegmentPastEnd(v) == cursor[v] + call[v].span

(* a bisection that does not ask whether the whole interval diverges       *)
GoesOnAnyway(v) == bisect[v].phase \in {"whole", "probe"}

(* a bisection that never gets to intervals of one transition              *)
NarrowedNot(v) == bisect[v]

-----------------------------------------------------------------------------
(* Calls.                                                                  *)

Start(v, c, b) ==
    /\ At(v, "idle")
    /\ calls < MaxCalls
    /\ calls' = calls + 1
    /\ call' = [call EXCEPT ![v] = c]
    /\ bisect' = [bisect EXCEPT ![v] = b]
    /\ told' = [told EXCEPT ![v] = Nothing]
    /\ Goto(v, "position")
    /\ UNCHANGED <<environment, artifact, at, cursor, verdict, opens>>

VerifyInterval(v) == \E s, e \in Point :
    s <= e /\ Start(v, [NoCall EXCEPT !.kind = "interval", !.start = s, !.end = e], NoBisect)

VerifyCheckpointed(v) == \E s, e \in Point, n \in Span, effects \in BOOLEAN :
    s <= e /\ Start(v, [kind |-> "checkpointed", start |-> s, end |-> e, span |-> n,
                        effects |-> effects], NoBisect)

(* bisect_divergence over all points from s to e, at least two of them     *)
BisectDivergence(v) == \E s, e \in Point :
    s < e /\ Start(v, [NoCall EXCEPT !.kind = "bisect", !.start = s, !.end = e],
                   [phase |-> "whole", first |-> s, lo |-> s, hi |-> e])

-----------------------------------------------------------------------------
(* The verifier opens the artifact anew.  open() reads the manifest before *)
(* it has the lock (and again, if it raised and is called again) ...       *)
OpenRead(v) ==
    /\ pc[v] \in {"idle", "opening"}
    /\ opens < MaxOpens
    /\ opens' = opens + 1
    /\ seen' = [seen EXCEPT ![v] = durable]
    /\ Goto(v, "opening")
    /\ UNCHANGED <<environment, durable, kept, recorded, overwritten, call, bisect, at,
                   cursor, verdict, told, calls>>

(* ... and its recovery, under the lock, deletes the boundaries that what  *)
(* it has read does not list; if there are any, that is written back.      *)
Open(v) ==
    /\ At(v, "opening")
    /\ \/ /\ kept \subseteq seen[v].boundaries
          /\ UNCHANGED artifact
       \/ /\ ~(kept \subseteq seen[v].boundaries)
          /\ durable' = seen[v]
          /\ kept' = kept \cap seen[v].boundaries
          /\ overwritten' = TRUE
          /\ UNCHANGED <<seen, recorded>>
    /\ Goto(v, "idle")
    /\ UNCHANGED <<environment, call, bisect, at, cursor, verdict, told, calls, opens>>

-----------------------------------------------------------------------------
(* The steps of a verification.                                            *)

(* A call comes to its end; whatever a driver was left at, the next call   *)
(* begins with a restore.                                                  *)
Leave(v) ==
    /\ Goto(v, "idle")
    /\ call' = [call EXCEPT ![v] = NoCall]
    /\ bisect' = [bisect EXCEPT ![v] = NoBisect]
    /\ at' = [at EXCEPT ![v] = [d \in Side |-> 0]]
    /\ cursor' = [cursor EXCEPT ![v] = 0]
    /\ verdict' = [verdict EXCEPT ![v] = Equivalent(0, 0)]

(* Both sides are restored from their nearest boundaries, replayed to the  *)
(* start and compared there; verify_interval leaves a note if they differ. *)
Position(v) ==
    /\ At(v, "position")
    /\ Restorable(v, call[v].start)
    /\ at' = [at EXCEPT ![v] = Positioned(v, call[v].start)]
    /\ \/ /\ Same(at'[v]["oracle"], at'[v]["candidate"])
          /\ Goto(v, "cache oracle start")
       \/ /\ ~Same(at'[v]["oracle"], at'[v]["candidate"])
          /\ call[v].kind # "checkpointed"
          /\ Goto(v, "bad start")
    /\ UNCHANGED <<environment, artifact, call, bisect, cursor, verdict, told, calls, opens>>

(* ... after which it raises.                                              *)
BadStart(v) ==
    /\ At(v, "bad start")
    /\ Mutate(v, Note("invalid-interval-start", call[v].start, call[v].start))
    /\ Leave(v)
    /\ UNCHANGED <<environment, told, calls, opens>>

CacheStart(v) ==
    /\ \/ /\ At(v, "cache oracle start")
          /\ Cache(v, "oracle", call[v].start)
          /\ Goto(v, "cache candidate start")
       \/ /\ At(v, "cache candidate start")
          /\ Cache(v, "candidate", call[v].start)
          /\ Goto(v, IF call[v].kind = "checkpointed" THEN "segment" ELSE "replay")
    /\ cursor' = [cursor EXCEPT ![v] = call[v].start]
    /\ UNCHANGED <<environment, call, bisect, at, verdict, told, calls, opens>>

(* verify_interval: both sides to the end, one comparison.                 *)
Replay(v) ==
    /\ At(v, "replay")
    /\ at' = [at EXCEPT ![v] = Replayed(v, call[v].end - call[v].start)]
    /\ verdict' = [verdict EXCEPT ![v] =
          IF Same(at'[v]["oracle"], at'[v]["candidate"])
          THEN Equivalent(call[v].start, call[v].end)
          ELSE Divergent(call[v].start, call[v].end)]
    /\ Goto(v, "record")
    /\ UNCHANGED <<environment, artifact, call, bisect, cursor, told, calls, opens>>

(* What the rolling digests compare, from drivers in state p at point i:   *)
(* the states at point n and, if wanted, the effects of the transition.    *)
Differs(v, p, i, n) == \/ ~Same(p["oracle"] + (n - i), p["candidate"] + (n - i))
                       \/ call[v].effects /\ ~quiet[n]

SegmentEnd(v) == Min({cursor[v] + call[v].span, call[v].end})
SegmentEqual(v) == \A n \in cursor[v] + 1 .. SegmentEnd(v) :
                      ~Differs(v, at[v], cursor[v], n)

(* verify_checkpointed: one segment at a time.                             *)
Segment(v) ==
    /\ At(v, "segment")
    /\ \/ /\ cursor[v] < call[v].end
          /\ at' = [at EXCEPT ![v] = Replayed(v, SegmentEnd(v) - cursor[v])]
          /\ \/ /\ SegmentEqual(v)
                /\ cursor' = [cursor EXCEPT ![v] = SegmentEnd(v)]
                /\ UNCHANGED pc
             \/ /\ ~SegmentEqual(v)
                /\ Goto(v, "refine")
                /\ UNCHANGED cursor
          /\ UNCHANGED verdict
       \/ /\ cursor[v] = call[v].end
          /\ verdict' = [verdict EXCEPT ![v] = Equivalent(call[v].start, call[v].end)]
          /\ Goto(v, "record")
          /\ UNCHANGED <<at, cursor>>
    /\ UNCHANGED <<environment, artifact, call, bisect, told, calls, opens>>

(* The segment that differs is replayed from its start, point by point.    *)
Refine(v) ==
    /\ At(v, "refine")
    /\ Restorable(v, cursor[v])
    /\ LET p == Positioned(v, cursor[v])
           differing == {n \in cursor[v] + 1 .. SegmentEnd(v) : Differs(v, p, cursor[v], n)}
           n == Min(differing)
       IN  /\ differing # {}
           /\ at' = [at EXCEPT ![v] = [d \in Side |-> p[d] + (n - cursor[v])]]
           /\ verdict' = [verdict EXCEPT ![v] = Divergent(n - 1, n)]
    /\ Goto(v, "record")
    /\ UNCHANGED <<environment, artifact, call, bisect, cursor, told, calls, opens>>

(* record_validation, then the annotation, then the ends of an equivalent  *)
(* interval.                                                               *)
Record(v) ==
    /\ At(v, "record")
    /\ Mutate(v, Note(IF verdict[v].equal THEN "equivalent" ELSE "different",
                      call[v].start, call[v].end))
    /\ Goto(v, "note")
    /\ UNCHANGED <<environment, call, bisect, at, cursor, verdict, told, calls, opens>>

NoteOutcome(v) ==
    /\ At(v, "note")
    /\ \/ /\ verdict[v].equal
          /\ Mutate(v, Note("verified-endpoint", call[v].end, call[v].end))
          /\ Goto(v, "cache oracle end")
       \/ /\ ~verdict[v].equal
          /\ Mutate(v, Note("latest-valid", verdict[v].before, verdict[v].after))
          /\ Goto(v, "return")
    /\ UNCHANGED <<environment, call, bisect, at, cursor, verdict, told, calls, opens>>

CacheEnd(v) ==
    /\ \/ /\ At(v, "cache oracle end")
          /\ Cache(v, "oracle", call[v].end)
          /\ Goto(v, "cache candidate end")
       \/ /\ At(v, "cache candidate end")
          /\ Cache(v, "candidate", call[v].end)
          /\ Goto(v, "return")
    /\ UNCHANGED <<environment, call, bisect, at, cursor, verdict, told, calls, opens>>

(* A verification comes back to its caller.                                *)
Finish(v) ==
    /\ told' = [told EXCEPT ![v] =
          [call |-> IF bisect[v].phase = "none" THEN call[v]
                    ELSE [call[v] EXCEPT !.start = bisect[v].first],
           verdict |-> verdict[v]]]
    /\ Leave(v)

Return(v) ==
    /\ At(v, "return")
    /\ \/ bisect[v].phase = "none"
       \/ bisect[v].phase = "whole" /\ verdict[v].equal
    /\ Finish(v)
    /\ UNCHANGED <<environment, artifact, calls, opens>>

-----------------------------------------------------------------------------
(* The loop of bisect_divergence around verify_interval.                   *)

(* After a verification of [lo, mid]: the half that is left.               *)
Narrowed(v) ==
    IF verdict[v].equal THEN [bisect[v] EXCEPT !.lo = call[v].end]
                        ELSE [bisect[v] EXCEPT !.hi = call[v].end]

GoesOn(v) == \/ bisect[v].phase = "whole" /\ ~verdict[v].equal
             \/ bisect[v].phase = "probe"

Probe(v) ==
    /\ At(v, "return")
    /\ GoesOn(v)
    /\ LET b == IF bisect[v].phase = "whole" THEN bisect[v] ELSE Narrowed(v)
           last == b.hi - b.lo <= 1
       IN  /\ bisect' = [bisect EXCEPT ![v] =
                [b EXCEPT !.phase = IF last THEN "last" ELSE "probe"]]
           /\ call' = [call EXCEPT ![v] =
                [NoCall EXCEPT !.kind = "bisect", !.start = b.lo,
                               !.end = IF last THEN b.hi ELSE (b.lo + b.hi) \div 2]]
    /\ Goto(v, "position")
    /\ UNCHANGED <<environment, artifact, at, cursor, verdict, told, calls, opens>>

(* (an equivalent last interval makes it raise: "bisection invariant failed")*)
LastProbe(v) ==
    /\ At(v, "return")
    /\ bisect[v].phase = "last"
    /\ ~verdict[v].equal
    /\ Goto(v, "bisected")
    /\ UNCHANGED <<environment, artifact, call, bisect, at, cursor, verdict, told, calls, opens>>

Bisected(v) ==
    /\ At(v, "bisected")
    /\ Mutate(v, Note("bisected", bisect[v].lo, bisect[v].hi))
    /\ Finish(v)
    /\ UNCHANGED <<environment, calls, opens>>

-----------------------------------------------------------------------------
(* Any step may raise instead (the artifact is locked by somebody else, a  *)
(* boundary has been deleted, a driver fails, the user interrupts), and a  *)
(* process may die.                                                        *)
Raise(v) ==
    /\ Busy(v)
    /\ Leave(v)
    /\ UNCHANGED <<environment, artifact, told, calls, opens>>

Step(v) == \/ Position(v) \/ BadStart(v) \/ CacheStart(v) \/ Replay(v)
           \/ Segment(v) \/ Refine(v) \/ Record(v) \/ NoteOutcome(v) \/ CacheEnd(v)
           \/ Return(v) \/ Probe(v) \/ LastProbe(v) \/ Bisected(v)

(* Everybody has finished and the bound is reached.                        *)
Finished == calls = MaxCalls /\ (\A v \in Verifier : At(v, "idle")) /\ UNCHANGED verifyVars

Next == \/ \E v \in Verifier : \/ VerifyInterval(v) \/ VerifyCheckpointed(v)
                               \/ BisectDivergence(v)
                               \/ OpenRead(v) \/ Open(v)
                               \/ Step(v) \/ Raise(v)
        \/ Finished

(* Nothing in a verification waits: a verifier that is busy goes on.       *)
Fairness == \A v \in Verifier : WF_verifyVars(Step(v) \/ Raise(v))

Spec == Init /\ [][Next]_verifyVars /\ Fairness

-----------------------------------------------------------------------------
Returned(v, kind) == told[v].call.kind = kind

(* Every cached boundary holds the state of its own point, and one at      *)
(* which both sides agree: a diverged candidate is never cached.           *)
(* replay_architecture.md:283: "the already-diverged candidate endpoint is *)
(* not cached as valid".                                                   *)
CachedAgreed == \A b \in durable.boundaries : b[2].state = b[2].point /\ agree[b[2].point]

(* A checkpointed verification that reports equivalence has compared every *)
(* point of the interval and, if asked to, every transition; and one that  *)
(* reports a divergence names the first transition that diverges, whatever *)
(* the checkpoint span and wherever it resumed from.                       *)
Unblemished(c, i, j) == /\ \A n \in i .. j : agree[n]
                        /\ c.effects => \A n \in i + 1 .. j : quiet[n]

CheckpointedExact == \A v \in Verifier : Returned(v, "checkpointed") =>
    LET c == told[v].call
        r == told[v].verdict
    IN  /\ Unblemished(c, c.start, IF r.equal THEN c.end ELSE r.before)
        /\ ~r.equal => /\ r.after = r.before + 1
                       /\ ~Unblemished(c, r.before, r.after)

(* A bisection that returns an interval returns a single transition that   *)
(* leads from agreement to divergence.                                     *)
BisectedTransition == \A v \in Verifier : Returned(v, "bisect") =>
    LET r == told[v].verdict
    IN  ~r.equal => r.after = r.before + 1 /\ agree[r.before] /\ ~agree[r.after]

(* The last interval of a bisection always diverges: its check can never   *)
(* find the "bisection invariant" broken, whatever was cached meanwhile.   *)
BisectionInvariant == \A v \in Verifier :
    At(v, "return") /\ bisect[v].phase = "last" => ~verdict[v].equal

(* Whenever a verification is cut short, and whoever else works on the     *)
(* artifact, nothing is written that there was no evidence for:            *)
(* annotations follow validation records, and what they call valid or      *)
(* divergent is so.  The artifact holds nothing that was not written so,   *)
(* and all of it until an open writes back what it read before the lock    *)
(* (which may take the record away from under an annotation).              *)
Holds(kind, i, j) == [kind |-> kind, at |-> i, other |-> j] \in recorded

EvidenceFollows ==
    /\ \A n \in recorded :
          /\ n.kind = "verified-endpoint" =>
                agree[n.at] /\ \E s \in Point : Holds("equivalent", s, n.at)
          /\ n.kind = "latest-valid" =>
                /\ agree[n.at]
                /\ \E s, e \in Point : /\ s <= n.at /\ n.other <= e
                                       /\ Holds("different", s, e)
          /\ n.kind = "bisected" => Holds("latest-valid", n.at, n.other)
    /\ durable.annotations \subseteq recorded
    /\ ~overwritten => recorded \subseteq durable.annotations

(* For TLC: verifiers are interchangeable.                                 *)
Symmetry == Permutations(Verifier)

(* A verification, bisections included, comes to its end.                  *)
VerificationEnds == \A v \in Verifier : Busy(v) ~> ~Busy(v)
=============================================================================
