-------------------------- MODULE ReplayVerifyProofs --------------------------
(***************************************************************************)
(* Proofs about ReplayVerify, for any number of verifiers, any timeline,   *)
(* any spans and any number of calls.                                      *)
(***************************************************************************)
EXTENDS ReplayVerify, NaturalsInduction, WellFoundedInduction, TLAPS

-----------------------------------------------------------------------------
(* The inductive invariant.  An open may take boundaries and annotations   *)
(* from the artifact that other handles still list; but whatever any of    *)
(* them lists was once written, and it is the agreement of the sides that  *)
(* was written, which no later step makes untrue.                          *)
SeenSound == \A v \in Verifier :
    /\ \A b \in seen[v].boundaries : b[2].state = b[2].point /\ agree[b[2].point]
    /\ seen[v].annotations \subseteq recorded

Resting(i) == [d \in Side |-> i]
Halves(v) == call[v].kind \in {"interval", "bisect"}
Starting == {"cache oracle start", "cache candidate start"}
Concluding == {"record", "note", "cache oracle end", "cache candidate end", "return"}
Noted == {"cache oracle end", "cache candidate end", "return", "bisected"}

(* What a verifier has been asked for.                                     *)
Called(v) ==
    Busy(v) => /\ call[v].kind # "none" /\ call[v].start <= call[v].end
               /\ (call[v].kind = "bisect" <=> bisect[v].phase # "none")
               /\ pc[v] \in {"bad start", "replay"} => Halves(v)
               /\ pc[v] \in {"segment", "refine"} => call[v].kind = "checkpointed"

(* What has been compared so far, and where that has left the drivers.     *)
Compared(v) ==
    /\ pc[v] \in Starting \cup {"replay"} => at[v] = Resting(call[v].start) /\ agree[call[v].start]
    /\ pc[v] \in {"segment", "refine"} =>
          /\ call[v].start <= cursor[v] /\ cursor[v] <= call[v].end
          /\ Unblemished(call[v], call[v].start, cursor[v])
    /\ At(v, "segment") => at[v] = Resting(cursor[v])

(* A verdict is right about the interval it names, and about its ends if   *)
(* only they were compared; an equivalent candidate stands at the end.     *)
Judged(v) ==
    LET c == call[v]
        r == verdict[v]
    IN  pc[v] \in Concluding =>
          /\ r.equal => r = Equivalent(c.start, c.end) /\ agree[c.end] /\ at[v] = Resting(c.end)
          /\ ~r.equal => c.start <= r.before /\ r.after <= c.end /\ agree[r.before]
          /\ Halves(v) => /\ agree[c.start]
                          /\ ~r.equal => r = Divergent(c.start, c.end) /\ ~agree[c.end]
          /\ c.kind = "checkpointed" =>
                /\ Unblemished(c, c.start, IF r.equal THEN c.end ELSE r.before)
                /\ ~r.equal => r.after = r.before + 1 /\ ~Unblemished(c, r.before, r.after)

(* The records an annotation rests on are made before it.                  *)
Recorded(v) ==
    /\ At(v, "note") => Holds(IF verdict[v].equal THEN "equivalent" ELSE "different",
                              call[v].start, call[v].end)
    /\ pc[v] \in {"cache oracle end", "cache candidate end"} => verdict[v].equal
    /\ pc[v] \in {"return", "bisected"} /\ ~verdict[v].equal =>
          Holds("latest-valid", verdict[v].before, verdict[v].after)

(* What is left of a bisection leads from agreement to divergence.         *)
Searching(v) ==
    LET b == bisect[v]
    IN  Busy(v) =>
          /\ b.phase # "none" => call[v].start = b.lo
          /\ b.phase = "whole" => b.lo = b.first /\ b.lo < b.hi /\ call[v].end = b.hi
          /\ b.phase \in {"probe", "last"} => agree[b.lo] /\ ~agree[b.hi]
          /\ b.phase = "probe" => b.lo < call[v].end /\ call[v].end < b.hi
          /\ b.phase = "last" => call[v].end = b.hi /\ b.hi = b.lo + 1
          /\ At(v, "bisected") => b.phase = "last" /\ verdict[v] = Divergent(b.lo, b.hi)

Local(v) == Called(v) /\ Compared(v) /\ Judged(v) /\ Recorded(v) /\ Searching(v)

Inv == /\ TypeOK /\ SeenSound /\ CachedAgreed /\ EvidenceFollows
       /\ \A v \in Verifier : Local(v)
       /\ CheckpointedExact /\ BisectedTransition

-----------------------------------------------------------------------------
(* Least and greatest elements, for the boundary that is nearest and the   *)
(* point that differs first.                                               *)

LEMMA LeastOfNaturals ==
    ASSUME NEW S, S \subseteq Nat, S # {}
    PROVE  \E n \in S : \A k \in S : n <= k
<1> DEFINE R == OpToRel(<, Nat)
<1>1. IsWellFoundedOn(R, Nat)
  BY NatLessThanWellFounded
<1>2. \A x, y \in Nat : <<x, y>> \in R <=> x < y
  BY DEF OpToRel
<1> HIDE DEF R
<1>3. PICK n \in S : \A k \in S : ~ (<<k, n>> \in R)
  BY <1>1, WFMin
<1>4. \A k \in S : ~(k < n)
  BY <1>2, <1>3
<1>5. QED
  BY <1>4

LEMMA MinIsLeast ==
    ASSUME NEW S, S \subseteq Nat, S # {}
    PROVE  Min(S) \in S /\ \A k \in S : Min(S) <= k
BY LeastOfNaturals DEF Min

LEMMA LastBoundary ==
    ASSUME NEW i \in Nat, NEW S, S # {}, \A b \in S : b.point \in Nat /\ b.point <= i
    PROVE  \E b \in S : \A x \in S : x.point <= b.point
<1> DEFINE T == {i - b.point : b \in S}
<1>1. T \subseteq Nat /\ T # {}
  OBVIOUS
<1>2. PICK n \in T : \A k \in T : n <= k
  BY <1>1, LeastOfNaturals
<1>3. PICK b \in S : n = i - b.point
  BY <1>2
<1>4. \A x \in S : i - b.point <= i - x.point
  BY <1>2, <1>3
<1>5. QED
  BY <1>4

-----------------------------------------------------------------------------
(* What the artifact gains.                                                *)

(* What a step of any kind leaves of the types.                            *)
StoreTypes == /\ durable \in C!Content /\ seen \in [Verifier -> C!Content]
              /\ kept \subseteq C!Boundary /\ recorded \subseteq Evidence
              /\ overwritten \in BOOLEAN

Handed(v) == \A w \in Verifier : seen'[w] = seen[w] \/ seen'[w] = durable'

LEMMA MutateAdds ==
    ASSUME TypeOK, NEW v \in Verifier, NEW e \in C!Content, Mutate(v, e)
    PROVE  /\ StoreTypes' /\ Handed(v) /\ overwritten' = overwritten
           /\ durable'.annotations = durable.annotations \cup e.annotations
           /\ recorded' = recorded \cup e.annotations
           /\ durable'.boundaries = durable.boundaries \cup e.boundaries
<1>1. durable' \in C!Content
  BY DEF TypeOK, Mutate, C!Merge, C!Content
<1>2. /\ durable'.annotations = durable.annotations \cup e.annotations
      /\ durable'.boundaries = durable.boundaries \cup e.boundaries
  BY DEF Mutate, C!Merge
<1>3. seen' \in [Verifier -> C!Content] /\ Handed(v)
  BY <1>1 DEF TypeOK, Mutate, Handed
<1>4. kept' \subseteq C!Boundary /\ recorded' \subseteq Evidence
  BY DEF TypeOK, Mutate, C!Content
<1>5. overwritten' \in BOOLEAN /\ overwritten' = overwritten
  BY DEF TypeOK, Mutate
<1>6. recorded' = recorded \cup e.annotations
  BY DEF Mutate
<1>7. QED
  BY <1>1, <1>2, <1>3, <1>4, <1>5, <1>6 DEF StoreTypes

LEMMA Annotated ==
    ASSUME TypeOK, NEW v \in Verifier,
           NEW kind \in EvidenceKinds, NEW i \in Point, NEW j \in Point,
           Mutate(v, Note(kind, i, j))
    PROVE  /\ StoreTypes' /\ Handed(v) /\ overwritten' = overwritten
           /\ durable'.annotations = durable.annotations
                                        \cup {[kind |-> kind, at |-> i, other |-> j]}
           /\ recorded' = recorded \cup {[kind |-> kind, at |-> i, other |-> j]}
           /\ durable'.boundaries = durable.boundaries
<1> DEFINE n == [kind |-> kind, at |-> i, other |-> j]
<1>1. n \in Evidence
  BY DEF Evidence
<1>2. Note(kind, i, j) = [profiles |-> {}, boundaries |-> {}, annotations |-> {n},
                          coordinates |-> {}]
  BY DEF Note, C!AnnotationEntry, C!Nothing
<1> HIDE DEF n
<1>3. Note(kind, i, j) \in C!Content
  BY <1>1, <1>2 DEF C!Content
<1>4. Note(kind, i, j).annotations = {n} /\ Note(kind, i, j).boundaries = {}
  BY <1>2
<1>5. /\ StoreTypes' /\ Handed(v) /\ overwritten' = overwritten
      /\ durable'.annotations = durable.annotations \cup {n}
      /\ recorded' = recorded \cup {n}
      /\ durable'.boundaries = durable.boundaries \cup {}
  BY <1>3, <1>4, MutateAdds
<1>6. QED
  BY <1>5 DEF n

(* A side that is cached at a point stands there, or was cached before.    *)
LEMMA CacheAdds ==
    ASSUME TypeOK, NEW v \in Verifier, NEW d \in Side, NEW i \in Point,
           at[v] = Resting(i), Cache(v, d, i)
    PROVE  /\ StoreTypes' /\ Handed(v) /\ overwritten' = overwritten
           /\ durable'.annotations = durable.annotations /\ recorded' = recorded
           /\ durable'.boundaries \subseteq durable.boundaries
                                        \cup {<<d, [point |-> i, state |-> i]>>}
<1> DEFINE b == <<d, [point |-> i, state |-> at[v][d]]>>
<1>1. b = <<d, [point |-> i, state |-> i]>> /\ b \in Side \X Captured
  BY VerifyConstants DEF Resting, Captured, Point
<1>2. C!BoundaryEntry(b) = [profiles |-> {}, boundaries |-> {b}, annotations |-> {},
                            coordinates |-> {}]
  BY SMTT(20) DEF C!BoundaryEntry, C!Nothing
<1>3. C!Nothing \in C!Content /\ C!Nothing.boundaries = {} /\ C!Nothing.annotations = {}
  BY DEF C!Content, C!Nothing
<1>4. CASE UNCHANGED artifact
  BY <1>4 DEF TypeOK, artifact, StoreTypes, Handed
<1>5. CASE Mutate(v, C!Nothing)
  BY <1>3, <1>5, MutateAdds
<1>6. CASE Mutate(v, C!BoundaryEntry(b))
  <2> HIDE DEF b
  <2>1. C!BoundaryEntry(b) \in C!Content
    BY <1>1, <1>2 DEF C!Content, C!Boundary
  <2>2. C!BoundaryEntry(b).boundaries = {b} /\ C!BoundaryEntry(b).annotations = {}
    BY <1>2
  <2>3. /\ StoreTypes' /\ Handed(v) /\ overwritten' = overwritten
        /\ durable'.annotations = durable.annotations \cup {}
        /\ recorded' = recorded \cup {}
        /\ durable'.boundaries = durable.boundaries \cup {b}
    BY <1>6, <2>1, <2>2, MutateAdds
  <2>4. QED
    BY <1>1, <2>3
<1>7. QED
  BY <1>4, <1>5, <1>6 DEF Cache

(* Wherever a side is positioned, it gets the state of that point.         *)
LEMMA PositionedThere ==
    ASSUME TypeOK, SeenSound, NEW v \in Verifier, NEW i \in Point
    PROVE  Positioned(v, i) = Resting(i)
<1> SUFFICES ASSUME NEW d \in Side
             PROVE  LET b == Nearest(seen[v], d, i) IN b.state + (i - b.point) = i
  BY DEF Positioned, Resting
<1> DEFINE base == [point |-> 0, state |-> 0]
           S == {b \in Boundaries(seen[v], d) : b.point <= i} \cup {base}
<1>1. \A b \in Boundaries(seen[v], d) : b.point \in Nat /\ b.state = b.point
  <2> SUFFICES ASSUME NEW x \in seen[v].boundaries
               PROVE  x[2].point \in Nat /\ x[2].state = x[2].point
    BY DEF Boundaries
  <2>1. x \in Side \X Captured
    BY DEF TypeOK, C!Content, C!Boundary
  <2>2. QED
    BY <2>1, VerifyConstants DEF SeenSound, Captured, Point
<1>2. i \in Nat
  BY VerifyConstants DEF Point
<1>3. \A b \in S : b.point \in Nat /\ b.point <= i /\ b.state = b.point
  BY <1>1, <1>2
<1>4. base \in S
  OBVIOUS
<1> HIDE DEF S
<1>5. \E b \in S : \A x \in S : x.point <= b.point
  BY <1>2, <1>3, <1>4, LastBoundary
<1>6. Nearest(seen[v], d, i) \in S
  <2>1. Nearest(seen[v], d, i) = CHOOSE b \in S : \A x \in S : x.point <= b.point
    BY DEF Nearest, S
  <2>2. QED
    BY <1>5, <2>1
<1>7. QED
  BY <1>2, <1>3, <1>6

-----------------------------------------------------------------------------
(* What is true of the artifact stays true, and of what was ever written.  *)
StoreInv == StoreTypes /\ SeenSound /\ CachedAgreed /\ EvidenceFollows
Grows == recorded \subseteq recorded'

Supported(n) ==
    /\ n.kind = "verified-endpoint" =>
          agree[n.at] /\ \E s \in Point : Holds("equivalent", s, n.at)
    /\ n.kind = "latest-valid" =>
          /\ agree[n.at]
          /\ \E s, e \in Point : s <= n.at /\ n.other <= e /\ Holds("different", s, e)
    /\ n.kind = "bisected" => Holds("latest-valid", n.at, n.other)

(* Handles that are as they were, or as the artifact is now, are sound.    *)
LEMMA StillSound ==
    ASSUME SeenSound, NEW v \in Verifier, Handed(v), agree' = agree, Grows,
           CachedAgreed', durable'.annotations \subseteq recorded'
    PROVE  SeenSound'
<1> SUFFICES ASSUME NEW w \in Verifier
             PROVE  /\ \A b \in seen'[w].boundaries :
                           b[2].state = b[2].point /\ agree'[b[2].point]
                    /\ seen'[w].annotations \subseteq recorded'
  BY DEF SeenSound
<1>1. CASE seen'[w] = seen[w]
  BY <1>1 DEF SeenSound, Grows
<1>2. CASE seen'[w] = durable'
  BY <1>2 DEF CachedAgreed
<1>3. QED
  BY <1>1, <1>2 DEF Handed

LEMMA NoteKept ==
    ASSUME Inv, NEW v \in Verifier, UNCHANGED environment,
           NEW kind \in EvidenceKinds, NEW i \in Point, NEW j \in Point,
           Mutate(v, Note(kind, i, j)),
           Supported([kind |-> kind, at |-> i, other |-> j])
    PROVE  StoreInv' /\ Grows /\ Holds(kind, i, j)'
<1> DEFINE n == [kind |-> kind, at |-> i, other |-> j]
<1>1. /\ StoreTypes' /\ Handed(v) /\ overwritten' = overwritten
      /\ durable'.annotations = durable.annotations \cup {n}
      /\ recorded' = recorded \cup {n}
      /\ durable'.boundaries = durable.boundaries
  BY Annotated DEF Inv
<1>2. agree' = agree
  BY DEF environment
<1>3. CachedAgreed'
  BY <1>1, <1>2 DEF Inv, CachedAgreed
<1>4. \A m \in recorded : Supported(m)
  BY DEF Inv, EvidenceFollows, Supported
<1> HIDE DEF n
<1>5. Supported(n)
  BY DEF n
<1>6. Grows
  BY <1>1 DEF Grows
<1>7. ASSUME NEW m \in recorded' PROVE Supported(m)'
  <2>1. Supported(m)
    BY <1>1, <1>4, <1>5
  <2>2. \A k, a, b : Holds(k, a, b) => Holds(k, a, b)'
    BY <1>6 DEF Holds, Grows
  <2>3. QED
    BY <1>2, <2>1, <2>2 DEF Supported
<1>8. /\ durable'.annotations \subseteq recorded'
      /\ ~overwritten' => recorded' \subseteq durable'.annotations
  BY <1>1 DEF Inv, EvidenceFollows
<1>9. EvidenceFollows'
  BY <1>7, <1>8 DEF EvidenceFollows, Supported
<1>10. SeenSound'
  BY <1>1, <1>2, <1>3, <1>6, <1>8, StillSound DEF Inv
<1>11. Holds(kind, i, j)'
  BY <1>1 DEF Holds, n
<1>12. QED
  BY <1>1, <1>3, <1>6, <1>9, <1>10, <1>11 DEF StoreInv

LEMMA CacheKept ==
    ASSUME Inv, NEW v \in Verifier, NEW d \in Side, NEW i \in Point, UNCHANGED environment,
           at[v] = Resting(i), agree[i], Cache(v, d, i)
    PROVE  StoreInv' /\ Grows
<1>1. /\ StoreTypes' /\ Handed(v) /\ overwritten' = overwritten
      /\ durable'.annotations = durable.annotations /\ recorded' = recorded
      /\ durable'.boundaries \subseteq durable.boundaries
                                   \cup {<<d, [point |-> i, state |-> i]>>}
  BY CacheAdds DEF Inv
<1>2. agree' = agree
  BY DEF environment
<1>3. CachedAgreed'
  BY <1>1, <1>2 DEF Inv, CachedAgreed
<1>4. EvidenceFollows'
  BY <1>1, <1>2 DEF Inv, EvidenceFollows, Holds
<1>5. Grows /\ durable'.annotations \subseteq recorded'
  BY <1>1 DEF Grows, Inv, EvidenceFollows
<1>6. SeenSound'
  BY <1>1, <1>2, <1>3, <1>5, StillSound DEF Inv
<1>7. QED
  BY <1>1, <1>3, <1>4, <1>5, <1>6 DEF StoreInv

LEMMA Untouched ==
    ASSUME Inv, UNCHANGED <<environment, artifact>>
    PROVE  StoreInv' /\ Grows
BY DEF Inv, StoreInv, StoreTypes, Grows, environment, artifact, TypeOK, SeenSound,
       CachedAgreed, EvidenceFollows, Holds

(* An open that writes back puts what was once read in the place of what   *)
(* is there: less of it, but nothing that is not so.                       *)
LEMMA OpenKept ==
    ASSUME Inv, NEW v \in Verifier, Open(v)
    PROVE  StoreInv' /\ Grows /\ UNCHANGED environment
<1>1. UNCHANGED environment /\ agree' = agree
  BY DEF Open, environment
<1>2. CASE UNCHANGED artifact
  BY <1>1, <1>2, Untouched
<1>3. CASE /\ durable' = seen[v] /\ kept' = kept \cap seen[v].boundaries
           /\ overwritten' = TRUE /\ seen' = seen /\ recorded' = recorded
  <2>1. StoreTypes'
    BY <1>3 DEF Inv, TypeOK, StoreTypes
  <2>2. CachedAgreed' /\ durable'.annotations \subseteq recorded'
    BY <1>1, <1>3 DEF Inv, SeenSound, CachedAgreed
  <2>3. EvidenceFollows'
    BY <1>1, <1>3, <2>2 DEF Inv, EvidenceFollows, Holds
  <2>4. SeenSound'
    BY <1>1, <1>3 DEF Inv, SeenSound
  <2>5. QED
    BY <1>1, <1>3, <2>1, <2>2, <2>3, <2>4 DEF StoreInv, Grows
<1>4. QED
  BY <1>2, <1>3 DEF Open

LEMMA OpenReadKept ==
    ASSUME Inv, NEW v \in Verifier, OpenRead(v)
    PROVE  StoreInv' /\ Grows /\ UNCHANGED environment
<1>1. /\ UNCHANGED <<environment, durable, kept, recorded, overwritten>> /\ agree' = agree
      /\ seen' = [seen EXCEPT ![v] = durable]
  BY DEF OpenRead, environment
<1>2. StoreTypes' /\ Handed(v)
  BY <1>1 DEF Inv, TypeOK, StoreTypes, Handed
<1>3. CachedAgreed' /\ EvidenceFollows' /\ Grows
  BY <1>1 DEF Inv, CachedAgreed, EvidenceFollows, Holds, Grows
<1>4. durable'.annotations \subseteq recorded'
  BY <1>3 DEF EvidenceFollows
<1>5. SeenSound'
  BY <1>1, <1>2, <1>3, <1>4, StillSound DEF Inv
<1>6. QED
  BY <1>1, <1>2, <1>3, <1>5 DEF StoreInv

LEMMA StoreStep ==
    ASSUME Inv, [Next]_verifyVars
    PROVE  StoreInv' /\ Grows /\ UNCHANGED environment
<1>1. ASSUME UNCHANGED <<environment, artifact>> PROVE StoreInv' /\ Grows
  BY <1>1, Untouched
<1>2. ASSUME NEW v \in Verifier, OpenRead(v) \/ Open(v)
      PROVE  StoreInv' /\ Grows /\ UNCHANGED environment
  BY <1>2, OpenKept, OpenReadKept
<1>3. ASSUME NEW v \in Verifier, BadStart(v) PROVE StoreInv' /\ Grows /\ UNCHANGED environment
  <2>1. call[v].start \in Point /\ "invalid-interval-start" \in EvidenceKinds
    BY DEF Inv, TypeOK, Call, EvidenceKinds
  <2>2. Supported([kind |-> "invalid-interval-start", at |-> call[v].start,
                   other |-> call[v].start])
    BY DEF Supported
  <2>3. QED
    BY <1>3, <2>1, <2>2, NoteKept DEF BadStart
<1>4. ASSUME NEW v \in Verifier, CacheStart(v) PROVE StoreInv' /\ Grows /\ UNCHANGED environment
  <2>1. call[v].start \in Point
    BY DEF Inv, TypeOK, Call
  <2>2. at[v] = Resting(call[v].start) /\ agree[call[v].start]
    BY <1>4 DEF CacheStart, At, Inv, Local, Compared, Starting
  <2>3. UNCHANGED environment /\ \E d \in Side : Cache(v, d, call[v].start)
    BY <1>4 DEF CacheStart, Side
  <2>4. QED
    BY <2>1, <2>2, <2>3, CacheKept
<1>5. ASSUME NEW v \in Verifier, CacheEnd(v) PROVE StoreInv' /\ Grows /\ UNCHANGED environment
  <2>1. call[v].end \in Point
    BY DEF Inv, TypeOK, Call
  <2>2. at[v] = Resting(call[v].end) /\ agree[call[v].end]
    BY <1>5 DEF CacheEnd, At, Inv, Local, Judged, Recorded, Concluding
  <2>3. UNCHANGED environment /\ \E d \in Side : Cache(v, d, call[v].end)
    BY <1>5 DEF CacheEnd, Side
  <2>4. QED
    BY <2>1, <2>2, <2>3, CacheKept
<1>6. ASSUME NEW v \in Verifier, Record(v) PROVE StoreInv' /\ Grows /\ UNCHANGED environment
  <2> DEFINE kind == IF verdict[v].equal THEN "equivalent" ELSE "different"
  <2>1. call[v].start \in Point /\ call[v].end \in Point /\ kind \in EvidenceKinds
    BY DEF Inv, TypeOK, Call, EvidenceKinds
  <2>2. Supported([kind |-> kind, at |-> call[v].start, other |-> call[v].end])
    BY DEF Supported
  <2>3. UNCHANGED environment /\ Mutate(v, Note(kind, call[v].start, call[v].end))
    BY <1>6 DEF Record
  <2> HIDE DEF kind
  <2>4. QED
    BY <2>1, <2>2, <2>3, NoteKept
<1>7. ASSUME NEW v \in Verifier, NoteOutcome(v) PROVE StoreInv' /\ Grows /\ UNCHANGED environment
  <2>1. /\ call[v].start \in Point /\ call[v].end \in Point
        /\ verdict[v].before \in Point /\ verdict[v].after \in Point
        /\ "verified-endpoint" \in EvidenceKinds /\ "latest-valid" \in EvidenceKinds
    BY DEF Inv, TypeOK, Call, Verdict, EvidenceKinds
  <2>2. Local(v) /\ pc[v] = "note"
    BY <1>7 DEF NoteOutcome, At, Inv
  <2>3. CASE verdict[v].equal
    <3>1. agree[call[v].end] /\ Holds("equivalent", call[v].start, call[v].end)
      BY <2>2, <2>3 DEF Local, Judged, Recorded, Concluding, At
    <3>2. Supported([kind |-> "verified-endpoint", at |-> call[v].end, other |-> call[v].end])
      BY <2>1, <3>1 DEF Supported
    <3>3. QED
      BY <1>7, <2>1, <2>3, <3>2, NoteKept DEF NoteOutcome
  <2>4. CASE ~verdict[v].equal
    <3>1. /\ call[v].start <= verdict[v].before /\ verdict[v].after <= call[v].end
          /\ agree[verdict[v].before] /\ Holds("different", call[v].start, call[v].end)
      BY <2>2, <2>4 DEF Local, Judged, Recorded, Concluding, At
    <3>2. Supported([kind |-> "latest-valid", at |-> verdict[v].before,
                     other |-> verdict[v].after])
      BY <2>1, <3>1 DEF Supported
    <3>3. QED
      BY <1>7, <2>1, <2>4, <3>2, NoteKept DEF NoteOutcome
  <2>5. QED
    BY <2>3, <2>4
<1>8. ASSUME NEW v \in Verifier, Bisected(v) PROVE StoreInv' /\ Grows /\ UNCHANGED environment
  <2>1. bisect[v].lo \in Point /\ bisect[v].hi \in Point /\ "bisected" \in EvidenceKinds
    BY DEF Inv, TypeOK, Bisect, EvidenceKinds
  <2>2. Holds("latest-valid", bisect[v].lo, bisect[v].hi)
    <3>1. Local(v) /\ pc[v] = "bisected"
      BY <1>8 DEF Bisected, At, Inv
    <3>2. verdict[v] = Divergent(bisect[v].lo, bisect[v].hi)
      BY <3>1 DEF Local, Searching, Busy, At
    <3>3. /\ ~verdict[v].equal /\ verdict[v].before = bisect[v].lo
          /\ verdict[v].after = bisect[v].hi
      BY <3>2 DEF Divergent
    <3>4. QED
      BY <3>1, <3>3 DEF Local, Recorded
  <2>3. Supported([kind |-> "bisected", at |-> bisect[v].lo, other |-> bisect[v].hi])
    BY <2>2 DEF Supported
  <2>4. QED
    BY <1>8, <2>1, <2>3, NoteKept DEF Bisected
<1>9. QED
  BY ZenonT(40), <1>1, <1>2, <1>3, <1>4, <1>5, <1>6, <1>7, <1>8
     DEF Next, Step, Finished, verifyVars, VerifyInterval, VerifyCheckpointed,
         BisectDivergence, Start, Position, Replay, Segment, Refine, Return, Probe,
         LastProbe, Raise

-----------------------------------------------------------------------------
(* The types of what a verifier keeps to itself.                           *)
LocalTypes ==
    /\ pc \in [Verifier -> PCs] /\ call \in [Verifier -> Call]
    /\ bisect \in [Verifier -> Bisect] /\ at \in [Verifier -> [Side -> Nat]]
    /\ cursor \in [Verifier -> Point] /\ verdict \in [Verifier -> Verdict]
    /\ told \in [Verifier -> [call : Call, verdict : Verdict]]
    /\ calls \in Nat /\ opens \in Nat

LEMMA Constants ==
    /\ Point \subseteq Nat /\ 0 \in Point
    /\ \A i \in Point : Resting(i) \in [Side -> Nat]
    /\ NoCall \in Call /\ NoBisect \in Bisect /\ Nothing \in [call : Call, verdict : Verdict]
    /\ \A s, e \in Point : Equivalent(s, e) \in Verdict /\ Divergent(s, e) \in Verdict
BY VerifyConstants DEF Point, Resting, NoCall, Call, NoBisect, Bisect, Nothing, Equivalent,
                       Divergent, Verdict

LEMMA StartTypes ==
    ASSUME Inv, NEW v \in Verifier, NEW c \in Call, NEW b \in Bisect, Start(v, c, b)
    PROVE  LocalTypes'
<1>1. pc' \in [Verifier -> PCs] /\ call' \in [Verifier -> Call] /\ bisect' \in [Verifier -> Bisect]
  BY DEF Inv, TypeOK, Start, Goto, PCs
<1>2. told' \in [Verifier -> [call : Call, verdict : Verdict]]
  BY Constants DEF Inv, TypeOK, Start
<1>3. QED
  BY <1>1, <1>2 DEF Inv, TypeOK, LocalTypes, Start

LEMMA CallTypes ==
    /\ \A s, e \in Point, k \in {"interval", "bisect"} :
          [NoCall EXCEPT !.kind = k, !.start = s, !.end = e] \in Call
    /\ \A s, e \in Point, n \in Span, f \in BOOLEAN :
          [kind |-> "checkpointed", start |-> s, end |-> e, span |-> n, effects |-> f] \in Call
    /\ \A p \in {"whole", "probe", "last"}, s, l, h \in Point :
          [phase |-> p, first |-> s, lo |-> l, hi |-> h] \in Bisect
    /\ \A c \in Call, s \in Point : [c EXCEPT !.start = s] \in Call
BY DEF Call, NoCall, Bisect

LEMMA LeaveTypes ==
    ASSUME LocalTypes, NEW v \in Verifier, Leave(v)
    PROVE  /\ pc' \in [Verifier -> PCs] /\ call' \in [Verifier -> Call]
           /\ bisect' \in [Verifier -> Bisect] /\ at' \in [Verifier -> [Side -> Nat]]
           /\ cursor' \in [Verifier -> Point] /\ verdict' \in [Verifier -> Verdict]
<1>1. at' = [at EXCEPT ![v] = Resting(0)]
  BY DEF Leave, Resting
<1>2. QED
  BY <1>1, Constants DEF LocalTypes, Leave, Goto, PCs

LEMMA FinishTypes ==
    ASSUME LocalTypes, NEW v \in Verifier, Finish(v), UNCHANGED <<calls, opens>>
    PROVE  LocalTypes'
<1>1. [call[v] EXCEPT !.start = bisect[v].first] \in Call
  <2>1. call[v] \in Call /\ bisect[v].first \in Point
    BY DEF LocalTypes, Bisect
  <2>2. QED
    BY <2>1, CallTypes
<1>2. told' \in [Verifier -> [call : Call, verdict : Verdict]]
  BY <1>1 DEF LocalTypes, Finish
<1>3. QED
  BY <1>2, LeaveTypes DEF LocalTypes, Finish

-----------------------------------------------------------------------------
(* What the steps that drive the two sides come to.                        *)

LEMMA SameAtRest ==
    ASSUME NEW i \in Point
    PROVE  Same(Resting(i)["oracle"], Resting(i)["candidate"]) <=> agree[i]
BY DEF Same, Resting, Side

LEMMA PositionFacts ==
    ASSUME Inv, NEW v \in Verifier, Position(v)
    PROVE  /\ at' = [at EXCEPT ![v] = Resting(call[v].start)]
           /\ \/ Goto(v, "cache oracle start") /\ agree[call[v].start]
              \/ Goto(v, "bad start") /\ ~agree[call[v].start] /\ call[v].kind # "checkpointed"
<1>1. call[v].start \in Point
  BY DEF Inv, TypeOK, Call
<1>2. Positioned(v, call[v].start) = Resting(call[v].start)
  BY <1>1, PositionedThere DEF Inv
<1>3. at' = [at EXCEPT ![v] = Resting(call[v].start)]
  BY <1>2 DEF Position
<1>4. at'[v] = Resting(call[v].start)
  BY <1>3 DEF Inv, TypeOK
<1>5. Same(at'[v]["oracle"], at'[v]["candidate"]) <=> agree[call[v].start]
  BY <1>1, <1>4, SameAtRest
<1>6. QED
  BY <1>3, <1>5 DEF Position

LEMMA ReplayFacts ==
    ASSUME Inv, NEW v \in Verifier, Replay(v)
    PROVE  /\ at' = [at EXCEPT ![v] = Resting(call[v].end)]
           /\ verdict' = [verdict EXCEPT ![v] =
                 IF agree[call[v].end] THEN Equivalent(call[v].start, call[v].end)
                                       ELSE Divergent(call[v].start, call[v].end)]
<1>1. call[v].start \in Nat /\ call[v].end \in Nat /\ call[v].end \in Point
  BY Constants DEF Inv, TypeOK, Call
<1>2. at[v] = Resting(call[v].start)
  BY DEF Inv, Local, Compared, Replay, At
<1>3. Replayed(v, call[v].end - call[v].start) = Resting(call[v].end)
  BY <1>1, <1>2 DEF Replayed, Resting
<1>4. at' = [at EXCEPT ![v] = Resting(call[v].end)]
  BY <1>3 DEF Replay
<1>5. at'[v] = Resting(call[v].end)
  BY <1>4 DEF Inv, TypeOK
<1>6. Same(at'[v]["oracle"], at'[v]["candidate"]) <=> agree[call[v].end]
  BY <1>1, <1>5, SameAtRest
<1>7. QED
  BY <1>4, <1>6 DEF Replay

LEMMA SegmentEndBounds ==
    ASSUME Inv, NEW v \in Verifier, pc[v] \in {"segment", "refine"}
    PROVE  /\ SegmentEnd(v) \in Point /\ SegmentEnd(v) <= call[v].end
           /\ cursor[v] <= SegmentEnd(v)
           /\ cursor[v] < call[v].end => cursor[v] < SegmentEnd(v)
<1>1. /\ cursor[v] \in Nat /\ call[v].end \in Nat /\ call[v].end \in Point
      /\ call[v].span \in Nat \ {0}
  <2>1. cursor[v] \in Point /\ call[v].end \in Point /\ call[v].span \in Span \cup {1}
    BY DEF Inv, TypeOK, Call
  <2>2. Point \subseteq Nat /\ Span \subseteq Nat \ {0} /\ 1 \in Nat \ {0}
    BY VerifyConstants, Constants
  <2>3. call[v].span \in Nat \ {0}
    <3>1. CASE call[v].span \in Span
      BY <2>2, <3>1
    <3>2. CASE call[v].span = 1
      BY <3>2
    <3>3. QED
      BY <2>1, <3>1, <3>2
  <2>4. cursor[v] \in Nat /\ call[v].end \in Nat
    BY <2>1, <2>2
  <2>5. QED
    BY <2>1, <2>3, <2>4
<1>2. cursor[v] <= call[v].end
  BY DEF Inv, Local, Compared
<1> DEFINE S == {cursor[v] + call[v].span, call[v].end}
<1>3. Min(S) \in S /\ \A k \in S : Min(S) <= k
  BY <1>1, MinIsLeast
<1>4. QED
  BY <1>1, <1>2, <1>3, VerifyConstants DEF SegmentEnd, Point

(* A point that the digests are compared at, from sides at point i.        *)
LEMMA DiffersAt ==
    ASSUME NEW v, NEW i \in Point, NEW n \in Point
    PROVE  Differs(v, Resting(i), i, n) <=> ~agree[n] \/ (call[v].effects /\ ~quiet[n])
<1>1. Resting(i)["oracle"] + (n - i) = n /\ Resting(i)["candidate"] + (n - i) = n
  BY Constants DEF Resting, Side
<1>2. QED
  BY <1>1 DEF Differs, Same

LEMMA SegmentFacts ==
    ASSUME Inv, NEW v \in Verifier, Segment(v)
    PROVE  \/ /\ cursor[v] < call[v].end
              /\ at' = [at EXCEPT ![v] = Resting(SegmentEnd(v))]
              /\ UNCHANGED verdict
              /\ \/ /\ \A n \in cursor[v] + 1 .. SegmentEnd(v) :
                          agree[n] /\ (call[v].effects => quiet[n])
                    /\ cursor' = [cursor EXCEPT ![v] = SegmentEnd(v)]
                    /\ UNCHANGED pc
                 \/ Goto(v, "refine") /\ UNCHANGED cursor
           \/ /\ cursor[v] = call[v].end
              /\ verdict' = [verdict EXCEPT ![v] = Equivalent(call[v].start, call[v].end)]
              /\ Goto(v, "record")
              /\ UNCHANGED <<at, cursor>>
<1>1. /\ cursor[v] \in Nat /\ cursor[v] \in Point /\ at[v] = Resting(cursor[v])
      /\ pc[v] = "segment"
  BY Constants DEF Inv, TypeOK, Local, Compared, Segment, At
<1>2. SegmentEnd(v) \in Nat /\ SegmentEnd(v) \in Point
  BY <1>1, SegmentEndBounds, Constants
<1>3. Replayed(v, SegmentEnd(v) - cursor[v]) = Resting(SegmentEnd(v))
  BY <1>1, <1>2 DEF Replayed, Resting
<1>4. ASSUME SegmentEqual(v), NEW n \in cursor[v] + 1 .. SegmentEnd(v)
      PROVE  agree[n] /\ (call[v].effects => quiet[n])
  <2>1. n \in Point
    BY <1>1, <1>2, VerifyConstants DEF Point
  <2>2. ~Differs(v, Resting(cursor[v]), cursor[v], n)
    BY <1>1, <1>4 DEF SegmentEqual
  <2>3. QED
    BY <1>1, <2>1, <2>2, DiffersAt
<1>5. QED
  BY <1>3, <1>4 DEF Segment

LEMMA RefineFacts ==
    ASSUME Inv, NEW v \in Verifier, Refine(v)
    PROVE  \E n \in Point :
              /\ cursor[v] < n /\ n <= call[v].end
              /\ at' = [at EXCEPT ![v] = Resting(n)]
              /\ verdict' = [verdict EXCEPT ![v] = Divergent(n - 1, n)]
              /\ \A k \in cursor[v] + 1 .. n - 1 : agree[k] /\ (call[v].effects => quiet[k])
              /\ ~agree[n] \/ (call[v].effects /\ ~quiet[n])
<1> DEFINE i == cursor[v]
           p == Positioned(v, i)
           D == {n \in i + 1 .. SegmentEnd(v) : Differs(v, p, i, n)}
           m == Min(D)
<1>1. i \in Point /\ i \in Nat /\ pc[v] = "refine" /\ call[v].end \in Nat
  BY Constants DEF Inv, TypeOK, Call, Refine, At
<1>2. p = Resting(i)
  BY <1>1, PositionedThere DEF Inv
<1>3. SegmentEnd(v) \in Point /\ SegmentEnd(v) <= call[v].end /\ SegmentEnd(v) \in Nat
  BY <1>1, SegmentEndBounds, Constants
<1>4. \A n \in i + 1 .. SegmentEnd(v) :
        n \in Point /\ (n \in D <=> ~agree[n] \/ (call[v].effects /\ ~quiet[n]))
  <2> SUFFICES ASSUME NEW n \in i + 1 .. SegmentEnd(v)
               PROVE  n \in Point /\ (Differs(v, p, i, n)
                                        <=> ~agree[n] \/ (call[v].effects /\ ~quiet[n]))
    OBVIOUS
  <2>1. n \in Point
    BY <1>1, <1>3, VerifyConstants DEF Point
  <2>2. QED
    BY <1>1, <1>2, <2>1, DiffersAt
<1>5. /\ D # {} /\ at' = [at EXCEPT ![v] = [d \in Side |-> p[d] + (m - i)]]
      /\ verdict' = [verdict EXCEPT ![v] = Divergent(m - 1, m)]
  BY DEF Refine
<1>6. D \subseteq i + 1 .. SegmentEnd(v) /\ D \subseteq Nat
  BY <1>1, <1>3
<1> HIDE DEF D
<1>7. m \in D /\ \A k \in D : m <= k
  BY <1>5, <1>6, MinIsLeast
<1> HIDE DEF m
<1>8. m \in Point /\ m \in Nat /\ i < m /\ m <= call[v].end /\ m <= SegmentEnd(v)
  <2>1. m \in i + 1 .. SegmentEnd(v) /\ m \in Nat
    BY <1>6, <1>7
  <2>2. m \in Point
    BY <1>4, <2>1
  <2>3. QED
    BY <1>1, <1>3, <2>1, <2>2
<1>9. [d \in Side |-> p[d] + (m - i)] = Resting(m)
  BY <1>1, <1>2, <1>8 DEF Resting
<1>10. ASSUME NEW k \in i + 1 .. m - 1 PROVE agree[k] /\ (call[v].effects => quiet[k])
  <2>1. k \in i + 1 .. SegmentEnd(v) /\ k < m
    BY <1>1, <1>3, <1>8
  <2>2. k \notin D
    BY <1>7, <1>8, <2>1
  <2>3. QED
    BY <1>4, <2>1, <2>2
<1>11. ~agree[m] \/ (call[v].effects /\ ~quiet[m])
  BY <1>4, <1>6, <1>7
<1>12. QED
  BY <1>5, <1>8, <1>9, <1>10, <1>11

-----------------------------------------------------------------------------
LEMMA TypeStep ==
    ASSUME Inv, [Next]_verifyVars
    PROVE  TypeOK'
<1>1. StoreTypes'
  BY StoreStep DEF StoreInv
<1>2. agree' \in [Point -> BOOLEAN] /\ quiet' \in [1..End -> Quiet]
  BY StoreStep DEF environment, Inv, TypeOK
<1>3. LocalTypes
  BY DEF Inv, TypeOK, LocalTypes
<1>4. ASSUME NEW v \in Verifier, VerifyInterval(v) PROVE LocalTypes'
  BY <1>4, StartTypes, CallTypes, Constants DEF VerifyInterval
<1>5. ASSUME NEW v \in Verifier, VerifyCheckpointed(v) PROVE LocalTypes'
  BY <1>5, StartTypes, CallTypes, Constants DEF VerifyCheckpointed
<1>6. ASSUME NEW v \in Verifier, BisectDivergence(v) PROVE LocalTypes'
  BY <1>6, StartTypes, CallTypes DEF BisectDivergence
<1>7. ASSUME NEW v \in Verifier, OpenRead(v) \/ Open(v) PROVE LocalTypes'
  <2>1. "idle" \in PCs /\ "opening" \in PCs
    BY DEF PCs
  <2>2. pc' \in [Verifier -> PCs]
    BY <1>3, <1>7, <2>1 DEF OpenRead, Open, LocalTypes, Goto
  <2>3. opens' \in Nat
    BY <1>3, <1>7 DEF OpenRead, Open, LocalTypes
  <2>4. QED
    BY <1>3, <1>7, <2>2, <2>3 DEF OpenRead, Open, LocalTypes
<1>8. ASSUME NEW v \in Verifier, Position(v) PROVE LocalTypes'
  <2>1. call[v].start \in Point
    BY <1>3 DEF LocalTypes, Call
  <2>2. Resting(call[v].start) \in [Side -> Nat]
    BY <2>1, Constants
  <2>3. at' \in [Verifier -> [Side -> Nat]]
    BY <1>3, <1>8, <2>2, PositionFacts DEF LocalTypes
  <2>4. pc' \in [Verifier -> PCs]
    BY <1>3, <1>8 DEF LocalTypes, Position, Goto, PCs
  <2>5. QED
    BY <1>3, <1>8, <2>3, <2>4 DEF LocalTypes, Position
<1>9. ASSUME NEW v \in Verifier, BadStart(v) PROVE LocalTypes'
  BY <1>3, <1>9, LeaveTypes DEF BadStart, LocalTypes
<1>10. ASSUME NEW v \in Verifier, CacheStart(v) PROVE LocalTypes'
  <2>1. call[v].start \in Point
    BY <1>3 DEF LocalTypes, Call
  <2>2. QED
    BY <1>3, <1>10, <2>1 DEF LocalTypes, CacheStart, Goto, PCs
<1>11. ASSUME NEW v \in Verifier, Replay(v) PROVE LocalTypes'
  <2>1. call[v].start \in Point /\ call[v].end \in Point
    BY <1>3 DEF LocalTypes, Call
  <2>2. /\ Resting(call[v].end) \in [Side -> Nat]
        /\ Equivalent(call[v].start, call[v].end) \in Verdict
        /\ Divergent(call[v].start, call[v].end) \in Verdict
    BY <2>1, Constants
  <2>3. at' \in [Verifier -> [Side -> Nat]]
    BY <1>3, <1>11, <2>2, ReplayFacts DEF LocalTypes
  <2>4. verdict' \in [Verifier -> Verdict]
    BY <1>3, <1>11, <2>2, ReplayFacts DEF LocalTypes
  <2>5. QED
    BY <1>3, <1>11, <2>3, <2>4 DEF LocalTypes, Replay, Goto, PCs
<1>12. ASSUME NEW v \in Verifier, Segment(v) PROVE LocalTypes'
  <2>1. call[v].start \in Point /\ call[v].end \in Point /\ pc[v] = "segment"
    BY <1>3, <1>12 DEF LocalTypes, Call, Segment, At
  <2>2. SegmentEnd(v) \in Point
    BY <2>1, SegmentEndBounds
  <2>3. Resting(SegmentEnd(v)) \in [Side -> Nat]
    BY <2>2, Constants
  <2>4. Equivalent(call[v].start, call[v].end) \in Verdict
    BY <2>1, Constants
  <2>5. pc' \in [Verifier -> PCs]
    BY <1>3, <1>12 DEF LocalTypes, Segment, Goto, PCs
  <2>6. at' \in [Verifier -> [Side -> Nat]]
    BY <1>3, <1>12, <2>3, SegmentFacts DEF LocalTypes
  <2>7. cursor' \in [Verifier -> Point] /\ verdict' \in [Verifier -> Verdict]
    BY <1>3, <1>12, <2>2, <2>4 DEF LocalTypes, Segment
  <2>8. QED
    BY <1>3, <1>12, <2>5, <2>6, <2>7 DEF LocalTypes, Segment
<1>13. ASSUME NEW v \in Verifier, Refine(v) PROVE LocalTypes'
  <2>1. PICK n \in Point : /\ cursor[v] < n /\ at' = [at EXCEPT ![v] = Resting(n)]
                           /\ verdict' = [verdict EXCEPT ![v] = Divergent(n - 1, n)]
    BY <1>13, RefineFacts
  <2>2. n - 1 \in Point
    BY <1>3, <2>1, VerifyConstants DEF LocalTypes, Point
  <2>3. Divergent(n - 1, n) \in Verdict /\ Resting(n) \in [Side -> Nat]
    BY <2>2, Constants
  <2>4. QED
    BY ZenonT(40), <1>3, <1>13, <2>1, <2>3 DEF LocalTypes, Refine, Goto, PCs
<1>14. ASSUME NEW v \in Verifier, Record(v) \/ NoteOutcome(v) \/ CacheEnd(v) \/ LastProbe(v)
       PROVE  LocalTypes'
  BY <1>3, <1>14 DEF LocalTypes, Record, NoteOutcome, CacheEnd, LastProbe, Goto, PCs
<1>15. ASSUME NEW v \in Verifier, Return(v) \/ Bisected(v) PROVE LocalTypes'
  BY <1>3, <1>15, FinishTypes DEF Return, Bisected
<1>16. ASSUME NEW v \in Verifier, Probe(v) PROVE LocalTypes'
  <2>1. PICK f \in Point, l \in Point, h \in Point, e \in Point, p \in {"probe", "last"} :
          /\ bisect' = [bisect EXCEPT ![v] = [phase |-> p, first |-> f, lo |-> l, hi |-> h]]
          /\ call' = [call EXCEPT ![v] =
                [NoCall EXCEPT !.kind = "bisect", !.start = l, !.end = e]]
    <3> DEFINE b == IF bisect[v].phase = "whole" THEN bisect[v] ELSE Narrowed(v)
               last == b.hi - b.lo <= 1
    <3>1. b \in Bisect
      <4>1. bisect[v] \in Bisect /\ call[v].end \in Point
        BY <1>3 DEF LocalTypes, Call
      <4>2. Narrowed(v) \in Bisect
        BY <4>1 DEF Narrowed, Bisect
      <4>3. QED
        BY <4>1, <4>2
    <3>2. (IF last THEN b.hi ELSE (b.lo + b.hi) \div 2) \in Point
      <4> HIDE DEF b
      <4>1. b.lo \in 0..End /\ b.hi \in 0..End
        BY <3>1 DEF Bisect, Point
      <4>2. QED
        BY <4>1, VerifyConstants DEF Point
    <3>3. [b EXCEPT !.phase = IF last THEN "last" ELSE "probe"]
          = [phase |-> IF last THEN "last" ELSE "probe", first |-> b.first, lo |-> b.lo,
             hi |-> b.hi]
      BY <3>1 DEF Bisect
    <3>4. b.first \in Point /\ b.lo \in Point /\ b.hi \in Point
      BY <3>1 DEF Bisect
    <3>5. QED
      BY <1>16, <3>2, <3>3, <3>4 DEF Probe
  <2>2. bisect' \in [Verifier -> Bisect] /\ call' \in [Verifier -> Call]
    BY <1>3, <2>1, CallTypes DEF LocalTypes
  <2>3. QED
    BY <1>3, <1>16, <2>2 DEF LocalTypes, Probe, Goto, PCs
<1>17. ASSUME NEW v \in Verifier, Raise(v) PROVE LocalTypes'
  BY <1>3, <1>17, LeaveTypes DEF Raise, LocalTypes
<1>18. ASSUME UNCHANGED verifyVars PROVE LocalTypes'
  BY <1>3, <1>18 DEF verifyVars, localVars, LocalTypes
<1>19. ASSUME NEW v \in Verifier, Step(v) PROVE LocalTypes'
  BY <1>8, <1>9, <1>10, <1>11, <1>12, <1>13, <1>14, <1>15, <1>16, <1>19 DEF Step
<1>20. LocalTypes'
  BY <1>4, <1>5, <1>6, <1>7, <1>17, <1>18, <1>19 DEF Next, Finished
<1>21. QED
  BY <1>1, <1>2, <1>20 DEF TypeOK, LocalTypes, StoreTypes

-----------------------------------------------------------------------------
(* A verifier knows as much as before when the others have moved.          *)
Frozen(w) ==
    /\ pc'[w] = pc[w] /\ call'[w] = call[w] /\ bisect'[w] = bisect[w]
    /\ at'[w] = at[w] /\ cursor'[w] = cursor[w] /\ verdict'[w] = verdict[w]

LEMMA Frame ==
    ASSUME NEW w \in Verifier, Local(w), UNCHANGED environment, Grows, Frozen(w)
    PROVE  Local(w)'
<1>1. agree' = agree /\ quiet' = quiet
  BY DEF environment
<1>2. \A k, i, j : Holds(k, i, j) => Holds(k, i, j)'
  BY DEF Holds, Grows
<1>3. Called(w)'
  BY DEF Local, Called, Frozen, Busy, Halves
<1>4. Compared(w)'
  BY <1>1 DEF Local, Compared, Frozen, At, Unblemished
<1>5. Judged(w)'
  BY <1>1 DEF Local, Judged, Frozen, Halves, Unblemished
<1>6. Recorded(w)'
  BY <1>2 DEF Local, Recorded, Frozen, At
<1>7. Searching(w)'
  BY <1>1 DEF Local, Searching, Frozen, Busy, At
<1>8. QED
  BY <1>3, <1>4, <1>5, <1>6, <1>7 DEF Local

LEMMA Idle ==
    ASSUME Inv, NEW v \in Verifier, Leave(v)
    PROVE  Local(v)' /\ \A w \in Verifier \ {v} : Frozen(w)
<1>1. pc'[v] = "idle" /\ \A w \in Verifier \ {v} : Frozen(w)
  BY DEF Inv, TypeOK, Leave, Goto, Frozen
<1>2. QED
  BY <1>1 DEF Local, Called, Compared, Judged, Recorded, Searching, Busy, At, Starting,
              Concluding

LEMMA Begun ==
    ASSUME Inv, NEW v \in Verifier,
           VerifyInterval(v) \/ VerifyCheckpointed(v) \/ BisectDivergence(v)
    PROVE  Local(v)' /\ \A w \in Verifier \ {v} : Frozen(w)
<1>1. PICK c \in Call, b \in Bisect :
        /\ Start(v, c, b) /\ c.kind # "none" /\ c.start <= c.end
        /\ c.kind = "bisect" <=> b.phase # "none"
        /\ b.phase \in {"none", "whole"}
        /\ b.phase = "whole" => /\ b.lo = c.start /\ b.lo = b.first /\ b.hi = c.end
                               /\ b.lo < b.hi
  <2>1. CASE VerifyInterval(v)
    <3>1. PICK s \in Point, e \in Point :
            s <= e /\ Start(v, [NoCall EXCEPT !.kind = "interval", !.start = s, !.end = e],
                            NoBisect)
      BY <2>1 DEF VerifyInterval
    <3> DEFINE c == [NoCall EXCEPT !.kind = "interval", !.start = s, !.end = e]
    <3>2. c \in Call /\ NoBisect \in Bisect
      BY CallTypes, Constants
    <3>3. c.kind = "interval" /\ c.start = s /\ c.end = e /\ NoBisect.phase = "none"
      BY DEF NoCall, NoBisect
    <3> HIDE DEF c
    <3>4. QED
      BY <3>1, <3>2, <3>3 DEF c
  <2>2. CASE VerifyCheckpointed(v)
    <3>1. PICK s \in Point, e \in Point, n \in Span, f \in BOOLEAN :
            s <= e /\ Start(v, [kind |-> "checkpointed", start |-> s, end |-> e, span |-> n,
                                effects |-> f], NoBisect)
      BY <2>2 DEF VerifyCheckpointed
    <3> DEFINE c == [kind |-> "checkpointed", start |-> s, end |-> e, span |-> n,
                     effects |-> f]
    <3>2. c \in Call /\ NoBisect \in Bisect
      BY CallTypes, Constants
    <3>3. c.kind = "checkpointed" /\ c.start = s /\ c.end = e /\ NoBisect.phase = "none"
      BY DEF NoBisect
    <3> HIDE DEF c
    <3>4. QED
      BY <3>1, <3>2, <3>3 DEF c
  <2>3. CASE BisectDivergence(v)
    <3>1. PICK s \in Point, e \in Point :
            s < e /\ Start(v, [NoCall EXCEPT !.kind = "bisect", !.start = s, !.end = e],
                           [phase |-> "whole", first |-> s, lo |-> s, hi |-> e])
      BY <2>3 DEF BisectDivergence
    <3> DEFINE c == [NoCall EXCEPT !.kind = "bisect", !.start = s, !.end = e]
               b == [phase |-> "whole", first |-> s, lo |-> s, hi |-> e]
    <3>2. c \in Call /\ b \in Bisect
      BY CallTypes
    <3>3. /\ c.kind = "bisect" /\ c.start = s /\ c.end = e
          /\ b.phase = "whole" /\ b.first = s /\ b.lo = s /\ b.hi = e
      BY DEF NoCall
    <3>4. s <= e
      BY <3>1, Constants
    <3> HIDE DEF c, b
    <3>5. QED
      BY <3>1, <3>2, <3>3, <3>4 DEF c, b
  <2>4. QED
    BY <2>1, <2>2, <2>3
<1>2. pc'[v] = "position" /\ call'[v] = c /\ bisect'[v] = b
  BY <1>1 DEF Inv, TypeOK, Start, Goto
<1>3. Called(v)' /\ Searching(v)'
  BY <1>1, <1>2 DEF Called, Searching, Busy, At, Halves
<1>4. Compared(v)' /\ Judged(v)' /\ Recorded(v)'
  BY <1>2 DEF Compared, Judged, Recorded, At, Starting, Concluding
<1>5. \A w \in Verifier \ {v} : Frozen(w)
  BY <1>1 DEF Inv, TypeOK, Start, Goto, Frozen
<1>6. QED
  BY <1>3, <1>4, <1>5 DEF Local

-----------------------------------------------------------------------------
(* Each step of a verification, for the verifier that takes it.            *)

LEMMA PositionLocal ==
    ASSUME Inv, NEW v \in Verifier, Position(v), UNCHANGED environment
    PROVE  Local(v)' /\ \A w \in Verifier \ {v} : Frozen(w)
<1>1. Local(v) /\ pc[v] = "position" /\ agree' = agree
  BY DEF Inv, Position, At, environment
<1>2. /\ call' = call /\ bisect' = bisect /\ cursor' = cursor /\ verdict' = verdict
  BY DEF Position
<1>3. /\ at'[v] = Resting(call[v].start)
      /\ \/ pc'[v] = "cache oracle start" /\ agree[call[v].start]
         \/ pc'[v] = "bad start" /\ call[v].kind # "checkpointed"
  BY PositionFacts DEF Inv, TypeOK, Goto
<1>4. call[v].kind \in {"none", "interval", "checkpointed", "bisect"}
  BY DEF Inv, TypeOK, Call
<1>5. Called(v)'
  BY <1>1, <1>2, <1>3, <1>4 DEF Local, Called, Busy, Halves
<1>6. Compared(v)'
  BY <1>1, <1>2, <1>3 DEF Compared, Starting, At
<1>7. Judged(v)' /\ Recorded(v)'
  BY <1>3 DEF Judged, Recorded, Concluding, At
<1>8. Searching(v)'
  BY <1>1, <1>2, <1>3 DEF Local, Searching, Busy, At
<1>9. \A w \in Verifier \ {v} : pc'[w] = pc[w] /\ at'[w] = at[w]
  BY DEF Inv, TypeOK, Position, Goto
<1>10. \A w \in Verifier \ {v} : Frozen(w)
  BY <1>2, <1>9 DEF Frozen
<1>11. QED
  BY <1>5, <1>6, <1>7, <1>8, <1>10 DEF Local

LEMMA CacheStartLocal ==
    ASSUME Inv, NEW v \in Verifier, CacheStart(v), UNCHANGED environment
    PROVE  Local(v)' /\ \A w \in Verifier \ {v} : Frozen(w)
<1>1. Local(v) /\ pc[v] \in Starting /\ agree' = agree /\ quiet' = quiet
  BY DEF Inv, CacheStart, At, Starting, environment
<1>2. call' = call /\ bisect' = bisect /\ at' = at /\ verdict' = verdict
  BY DEF CacheStart
<1>3. /\ cursor'[v] = call[v].start
      /\ \/ pc'[v] = "cache candidate start"
         \/ pc'[v] = "segment" /\ call[v].kind = "checkpointed"
         \/ pc'[v] = "replay" /\ call[v].kind # "checkpointed"
  BY DEF Inv, TypeOK, CacheStart, Goto
<1>4. /\ call[v].kind \in {"none", "interval", "checkpointed", "bisect"}
      /\ call[v].start \in Nat /\ call[v].end \in Nat
  BY Constants DEF Inv, TypeOK, Call
<1>5. /\ Busy(v) /\ call[v].kind # "none" /\ call[v].start <= call[v].end
      /\ at[v] = Resting(call[v].start) /\ agree[call[v].start]
  BY <1>1 DEF Local, Called, Compared, Busy, Starting
<1>6. Called(v)'
  BY <1>1, <1>2, <1>3, <1>4, <1>5 DEF Local, Called, Busy, Halves
<1>7. /\ \A n \in call[v].start .. call[v].start : agree[n]
      /\ \A n \in call[v].start + 1 .. call[v].start : quiet[n]
  <2>1. \A n \in call[v].start .. call[v].start : n = call[v].start
    BY <1>4
  <2>2. call[v].start + 1 .. call[v].start = {}
    BY <1>4
  <2>3. QED
    BY <1>5, <2>1, <2>2
<1>8. at'[v] = Resting(cursor'[v]) /\ cursor'[v] <= call'[v].end
  BY <1>2, <1>3, <1>5
<1>9. Compared(v)'
  <2>1. call'[v] = call[v] /\ cursor'[v] = call[v].start
    BY <1>2, <1>3
  <2>2. /\ \A n \in call'[v].start .. cursor'[v] : agree'[n]
        /\ \A n \in call'[v].start + 1 .. cursor'[v] : quiet'[n]
    BY <1>1, <1>7, <2>1
  <2>3. Unblemished(call[v], call[v].start, cursor[v])'
    BY <2>2 DEF Unblemished
  <2>4. call'[v].start <= cursor'[v]
    BY <1>4, <2>1
  <2>5. at'[v] = Resting(call'[v].start) /\ agree'[call'[v].start]
    BY <1>1, <1>2, <1>5
  <2>6. QED
    BY <1>8, <2>3, <2>4, <2>5 DEF Compared, At
<1>10. Judged(v)' /\ Recorded(v)'
  BY <1>3 DEF Judged, Recorded, Concluding, At
<1>11. Searching(v)'
  BY <1>1, <1>2, <1>3, <1>5 DEF Local, Searching, Busy, At
<1>12. \A w \in Verifier \ {v} : Frozen(w)
  BY DEF Inv, TypeOK, CacheStart, Goto, Frozen
<1>13. QED
  BY <1>6, <1>9, <1>10, <1>11, <1>12 DEF Local

LEMMA ReplayLocal ==
    ASSUME Inv, NEW v \in Verifier, Replay(v), UNCHANGED environment
    PROVE  Local(v)' /\ \A w \in Verifier \ {v} : Frozen(w)
<1>1. Local(v) /\ pc[v] = "replay" /\ agree' = agree
  BY DEF Inv, Replay, At, environment
<1>2. call' = call /\ bisect' = bisect /\ cursor' = cursor /\ pc'[v] = "record"
  BY DEF Inv, TypeOK, Replay, Goto
<1>3. /\ at'[v] = Resting(call[v].end)
      /\ verdict'[v] = IF agree[call[v].end] THEN Equivalent(call[v].start, call[v].end)
                                             ELSE Divergent(call[v].start, call[v].end)
  BY ReplayFacts DEF Inv, TypeOK
<1>4. /\ call[v].kind \in {"interval", "bisect"} /\ agree[call[v].start]
      /\ call[v].start \in Nat /\ call[v].end \in Nat
  BY <1>1, Constants DEF Inv, TypeOK, Call, Local, Called, Compared, Busy, Halves
<1>5. Called(v)'
  BY <1>1, <1>2 DEF Local, Called, Busy, Halves
<1>6. Compared(v)' /\ Recorded(v)'
  BY <1>2 DEF Compared, Recorded, Starting, At
<1>7. Judged(v)'
  <2>1. CASE agree[call[v].end]
    <3>1. verdict'[v] = Equivalent(call[v].start, call[v].end) /\ verdict'[v].equal
      BY <1>3, <2>1 DEF Equivalent
    <3>2. QED
      BY <1>1, <1>2, <1>3, <1>4, <2>1, <3>1 DEF Judged, Concluding, Halves
  <2>2. CASE ~agree[call[v].end]
    <3>1. /\ verdict'[v] = Divergent(call[v].start, call[v].end) /\ ~verdict'[v].equal
          /\ verdict'[v].before = call[v].start /\ verdict'[v].after = call[v].end
      BY <1>3, <2>2 DEF Divergent
    <3>2. QED
      BY <1>1, <1>2, <1>3, <1>4, <2>2, <3>1 DEF Judged, Concluding, Halves
  <2>3. QED
    BY <2>1, <2>2
<1>9. Searching(v)'
  BY <1>1, <1>2 DEF Local, Searching, Busy, At
<1>10. \A w \in Verifier \ {v} : Frozen(w)
  BY <1>2, ReplayFacts DEF Inv, TypeOK, Replay, Goto, Frozen
<1>11. QED
  BY <1>5, <1>6, <1>7, <1>9, <1>10 DEF Local

(* Two stretches without a blemish, end to end.                            *)
LEMMA Extended ==
    ASSUME NEW c, NEW i \in Nat, NEW j \in Nat, NEW k \in Nat, i <= j, j <= k,
           Unblemished(c, i, j),
           \A n \in j + 1 .. k : agree[n] /\ (c.effects => quiet[n])
    PROVE  Unblemished(c, i, k)
<1>1. ASSUME NEW n \in i .. k PROVE agree[n]
  <2>1. n \in i .. j \/ n \in j + 1 .. k
    OBVIOUS
  <2>2. QED
    BY <2>1 DEF Unblemished
<1>2. ASSUME c.effects, NEW n \in i + 1 .. k PROVE quiet[n]
  <2>1. n \in i + 1 .. j \/ n \in j + 1 .. k
    OBVIOUS
  <2>2. QED
    BY <1>2, <2>1 DEF Unblemished
<1>3. QED
  BY <1>1, <1>2 DEF Unblemished

LEMMA SegmentLocal ==
    ASSUME Inv, NEW v \in Verifier, Segment(v), UNCHANGED environment
    PROVE  Local(v)' /\ \A w \in Verifier \ {v} : Frozen(w)
<1>1. Local(v) /\ pc[v] = "segment" /\ agree' = agree /\ quiet' = quiet
  BY DEF Inv, Segment, At, environment
<1>2. call' = call /\ bisect' = bisect
  BY DEF Segment
<1>3. /\ call[v].kind = "checkpointed" /\ call[v].start \in Nat /\ call[v].end \in Nat
      /\ cursor[v] \in Nat
  BY <1>1, Constants DEF Inv, TypeOK, Call, Local, Called, Busy
<1>4. /\ call[v].start <= cursor[v] /\ cursor[v] <= call[v].end
      /\ Unblemished(call[v], call[v].start, cursor[v]) /\ at[v] = Resting(cursor[v])
  BY <1>1 DEF Local, Compared, At
<1>5. /\ SegmentEnd(v) \in Nat /\ SegmentEnd(v) <= call[v].end
      /\ cursor[v] <= SegmentEnd(v)
  BY <1>1, SegmentEndBounds, Constants
<1>6. pc'[v] \in {"segment", "refine", "record"}
  BY <1>1 DEF Inv, TypeOK, Segment, Goto
<1>7. Called(v)'
  BY <1>1, <1>2, <1>3, <1>6 DEF Local, Called, Busy, Halves
<1>8. Searching(v)' /\ Recorded(v)'
  BY <1>1, <1>2, <1>6 DEF Local, Searching, Recorded, Busy, At
<1>9. Compared(v)' /\ Judged(v)'
  <2>1. CASE /\ cursor[v] < call[v].end
             /\ at' = [at EXCEPT ![v] = Resting(SegmentEnd(v))]
             /\ \A n \in cursor[v] + 1 .. SegmentEnd(v) :
                   agree[n] /\ (call[v].effects => quiet[n])
             /\ cursor' = [cursor EXCEPT ![v] = SegmentEnd(v)]
             /\ UNCHANGED pc
    <3>1. /\ cursor'[v] = SegmentEnd(v) /\ at'[v] = Resting(SegmentEnd(v))
          /\ pc'[v] = "segment"
      BY <1>1, <2>1 DEF Inv, TypeOK
    <3>2. Unblemished(call[v], call[v].start, SegmentEnd(v))
      BY <1>3, <1>4, <1>5, <2>1, Extended
    <3>3. Unblemished(call[v], call[v].start, cursor[v])'
      BY <1>1, <1>2, <3>1, <3>2 DEF Unblemished
    <3>4. call'[v].start <= cursor'[v] /\ cursor'[v] <= call'[v].end
      BY <1>2, <1>3, <1>4, <1>5, <3>1
    <3>5. QED
      BY <3>1, <3>3, <3>4 DEF Compared, Judged, At, Starting, Concluding
  <2>2. CASE Goto(v, "refine") /\ UNCHANGED cursor
    <3>1. pc'[v] = "refine" /\ cursor' = cursor
      BY <2>2 DEF Goto, Inv, TypeOK
    <3>2. Unblemished(call[v], call[v].start, cursor[v])'
      BY <1>1, <1>2, <1>4, <3>1 DEF Unblemished
    <3>3. QED
      BY <1>2, <1>4, <3>1, <3>2 DEF Compared, Judged, At, Starting, Concluding
  <2>3. CASE /\ cursor[v] = call[v].end
             /\ verdict' = [verdict EXCEPT ![v] = Equivalent(call[v].start, call[v].end)]
             /\ Goto(v, "record")
             /\ UNCHANGED <<at, cursor>>
    <3>1. /\ pc'[v] = "record" /\ at'[v] = Resting(call[v].end)
          /\ verdict'[v] = Equivalent(call[v].start, call[v].end)
      BY <1>4, <2>3 DEF Goto, Inv, TypeOK
    <3>2. verdict'[v].equal
      BY <3>1 DEF Equivalent
    <3>3. Unblemished(call[v], call[v].start, call[v].end)
      BY <1>4, <2>3
    <3>4. agree[call[v].end]
      BY <1>3, <1>4, <2>3, <3>3 DEF Unblemished
    <3>5. Unblemished(call[v], call[v].start, call[v].end)'
      BY <1>1, <1>2, <3>3 DEF Unblemished
    <3>6. Judged(v)'
      BY <1>1, <1>2, <1>3, <3>1, <3>2, <3>4, <3>5 DEF Judged, Concluding, Halves
    <3>7. Compared(v)'
      BY <3>1 DEF Compared, At, Starting
    <3>8. QED
      BY <3>6, <3>7
  <2>4. QED
    BY <2>1, <2>2, <2>3, SegmentFacts
<1>10. \A w \in Verifier \ {v} : Frozen(w)
  BY <1>2 DEF Inv, TypeOK, Segment, Goto, Frozen
<1>11. QED
  BY <1>7, <1>8, <1>9, <1>10 DEF Local

LEMMA RefineLocal ==
    ASSUME Inv, NEW v \in Verifier, Refine(v), UNCHANGED environment
    PROVE  Local(v)' /\ \A w \in Verifier \ {v} : Frozen(w)
<1>1. Local(v) /\ pc[v] = "refine" /\ agree' = agree /\ quiet' = quiet
  BY DEF Inv, Refine, At, environment
<1>2. call' = call /\ bisect' = bisect /\ cursor' = cursor /\ pc'[v] = "record"
  BY DEF Inv, TypeOK, Refine, Goto
<1>3. PICK n \in Point :
        /\ cursor[v] < n /\ n <= call[v].end
        /\ verdict' = [verdict EXCEPT ![v] = Divergent(n - 1, n)]
        /\ at' = [at EXCEPT ![v] = Resting(n)]
        /\ \A k \in cursor[v] + 1 .. n - 1 : agree[k] /\ (call[v].effects => quiet[k])
        /\ ~agree[n] \/ (call[v].effects /\ ~quiet[n])
  BY RefineFacts
<1>4. /\ call[v].kind = "checkpointed" /\ call[v].start \in Nat /\ cursor[v] \in Nat
      /\ n \in Nat /\ call[v].start <= cursor[v]
      /\ Unblemished(call[v], call[v].start, cursor[v])
  BY <1>1, Constants DEF Inv, TypeOK, Call, Local, Called, Compared, Busy
<1>5. n - 1 \in Nat /\ cursor[v] <= n - 1 /\ call[v].start <= n - 1 /\ n = (n - 1) + 1
  BY <1>3, <1>4
<1>6. Unblemished(call[v], call[v].start, n - 1)
  BY <1>3, <1>4, <1>5, Extended
<1>7. agree[n - 1]
  BY <1>4, <1>5, <1>6 DEF Unblemished
<1>8. ~Unblemished(call[v], n - 1, n)
  <2>1. n \in n - 1 .. n /\ n \in (n - 1) + 1 .. n
    BY <1>4, <1>5
  <2>2. QED
    BY <1>3, <2>1 DEF Unblemished
<1>9. /\ ~verdict'[v].equal /\ verdict'[v].before = n - 1 /\ verdict'[v].after = n
  BY <1>3 DEF Divergent, Inv, TypeOK
<1>10. Called(v)'
  BY <1>1, <1>2 DEF Local, Called, Busy, Halves
<1>11. Compared(v)' /\ Recorded(v)'
  BY <1>2 DEF Compared, Recorded, Starting, At
<1>12. Searching(v)'
  BY <1>1, <1>2 DEF Local, Searching, Busy, At
<1>13. Judged(v)'
  <2>1. Unblemished(call[v], call[v].start, verdict[v].before)'
    BY <1>1, <1>2, <1>6, <1>9 DEF Unblemished
  <2>2. ~Unblemished(call[v], verdict[v].before, verdict[v].after)'
    BY <1>1, <1>2, <1>8, <1>9 DEF Unblemished
  <2>3. QED
    BY <1>1, <1>2, <1>3, <1>4, <1>5, <1>7, <1>9, <2>1, <2>2 DEF Judged, Halves
<1>14. \A w \in Verifier \ {v} : Frozen(w)
  BY <1>2, <1>3 DEF Inv, TypeOK, Refine, Goto, Frozen
<1>15. QED
  BY <1>10, <1>11, <1>12, <1>13, <1>14 DEF Local

(* From a judgement on, only its recording changes.                        *)
LEMMA StillJudged ==
    ASSUME NEW v \in Verifier, Local(v), UNCHANGED <<environment, call, bisect, at, verdict>>,
           pc[v] \in Concluding, pc'[v] \in Concluding
    PROVE  Judged(v)'
<1>1. agree' = agree /\ quiet' = quiet
  BY DEF environment
<1>2. QED
  BY <1>1 DEF Local, Judged, Halves, Unblemished

LEMMA RecordLocal ==
    ASSUME Inv, NEW v \in Verifier, Record(v), UNCHANGED environment
    PROVE  Local(v)' /\ \A w \in Verifier \ {v} : Frozen(w)
<1>1. Local(v) /\ pc[v] = "record"
  BY DEF Inv, Record, At
<1>2. /\ call' = call /\ bisect' = bisect /\ at' = at /\ cursor' = cursor
      /\ verdict' = verdict /\ pc'[v] = "note"
  BY DEF Inv, TypeOK, Record, Goto
<1>3. Called(v)' /\ Searching(v)' /\ Compared(v)'
  BY <1>1, <1>2 DEF Local, Called, Searching, Compared, Busy, At, Halves, Starting, environment
<1>4. Judged(v)'
  BY <1>1, <1>2, StillJudged DEF Concluding
<1>5. Recorded(v)'
  <2> DEFINE kind == IF verdict[v].equal THEN "equivalent" ELSE "different"
  <2>1. call[v].start \in Point /\ call[v].end \in Point /\ kind \in EvidenceKinds
    BY DEF Inv, TypeOK, Call, EvidenceKinds
  <2>2. Mutate(v, Note(kind, call[v].start, call[v].end))
    BY DEF Record
  <2> HIDE DEF kind
  <2>3. [kind |-> kind, at |-> call[v].start, other |-> call[v].end] \in recorded'
    BY <2>1, <2>2, Annotated DEF Inv
  <2>4. QED
    BY <1>2, <2>3 DEF Recorded, At, Holds, kind
<1>6. \A w \in Verifier \ {v} : Frozen(w)
  BY DEF Inv, TypeOK, Record, Goto, Frozen
<1>7. QED
  BY <1>3, <1>4, <1>5, <1>6 DEF Local

LEMMA NoteLocal ==
    ASSUME Inv, NEW v \in Verifier, NoteOutcome(v), UNCHANGED environment
    PROVE  Local(v)' /\ \A w \in Verifier \ {v} : Frozen(w)
<1>1. Local(v) /\ pc[v] = "note"
  BY DEF Inv, NoteOutcome, At
<1>2. /\ call' = call /\ bisect' = bisect /\ at' = at /\ cursor' = cursor
      /\ verdict' = verdict
      /\ \/ pc'[v] = "cache oracle end" /\ verdict[v].equal
         \/ pc'[v] = "return" /\ ~verdict[v].equal
  BY DEF Inv, TypeOK, NoteOutcome, Goto
<1>3. Called(v)' /\ Searching(v)' /\ Compared(v)'
  BY <1>1, <1>2 DEF Local, Called, Searching, Compared, Busy, At, Halves, Starting, environment
<1>4. Judged(v)'
  BY <1>1, <1>2, StillJudged DEF Concluding
<1>5. Recorded(v)'
  <2>1. CASE verdict[v].equal
    BY <1>2, <2>1 DEF Recorded, At
  <2>2. CASE ~verdict[v].equal
    <3>1. /\ verdict[v].before \in Point /\ verdict[v].after \in Point
          /\ "latest-valid" \in EvidenceKinds
      BY DEF Inv, TypeOK, Verdict, EvidenceKinds
    <3>2. Mutate(v, Note("latest-valid", verdict[v].before, verdict[v].after))
      BY <2>2 DEF NoteOutcome
    <3>3. [kind |-> "latest-valid", at |-> verdict[v].before, other |-> verdict[v].after]
          \in recorded'
      BY <3>1, <3>2, Annotated DEF Inv
    <3>4. QED
      BY <1>2, <2>2, <3>3 DEF Recorded, At, Holds
  <2>3. QED
    BY <2>1, <2>2
<1>6. \A w \in Verifier \ {v} : Frozen(w)
  BY DEF Inv, TypeOK, NoteOutcome, Goto, Frozen
<1>7. QED
  BY <1>3, <1>4, <1>5, <1>6 DEF Local

LEMMA CacheEndLocal ==
    ASSUME Inv, NEW v \in Verifier, CacheEnd(v), UNCHANGED environment
    PROVE  Local(v)' /\ \A w \in Verifier \ {v} : Frozen(w)
<1>1. Local(v) /\ pc[v] \in {"cache oracle end", "cache candidate end"}
  BY DEF Inv, CacheEnd, At
<1>2. /\ call' = call /\ bisect' = bisect /\ at' = at /\ cursor' = cursor
      /\ verdict' = verdict /\ pc'[v] \in {"cache candidate end", "return"}
  BY DEF Inv, TypeOK, CacheEnd, Goto
<1>3. verdict[v].equal
  BY <1>1 DEF Local, Recorded
<1>4. Called(v)' /\ Searching(v)' /\ Compared(v)'
  BY <1>1, <1>2 DEF Local, Called, Searching, Compared, Busy, At, Halves, Starting, environment
<1>5. Judged(v)'
  BY <1>1, <1>2, StillJudged DEF Concluding
<1>6. Recorded(v)'
  BY <1>2, <1>3 DEF Recorded, At
<1>7. \A w \in Verifier \ {v} : Frozen(w)
  BY DEF Inv, TypeOK, CacheEnd, Goto, Frozen
<1>8. QED
  BY <1>4, <1>5, <1>6, <1>7 DEF Local

LEMMA LastProbeLocal ==
    ASSUME Inv, NEW v \in Verifier, LastProbe(v), UNCHANGED environment
    PROVE  Local(v)' /\ \A w \in Verifier \ {v} : Frozen(w)
<1>1. Local(v) /\ pc[v] = "return" /\ bisect[v].phase = "last" /\ ~verdict[v].equal
  BY DEF Inv, LastProbe, At
<1>2. /\ call' = call /\ bisect' = bisect /\ at' = at /\ cursor' = cursor
      /\ verdict' = verdict /\ pc'[v] = "bisected" /\ recorded' = recorded
  BY DEF Inv, TypeOK, LastProbe, Goto, artifact
<1>3. Called(v)' /\ Compared(v)' /\ Judged(v)' /\ Recorded(v)'
  BY <1>1, <1>2 DEF Local, Called, Compared, Judged, Recorded, Busy, At, Halves, Starting,
                    Concluding, Holds
<1>4. verdict[v] = Divergent(bisect[v].lo, bisect[v].hi)
  <2>1. Halves(v) /\ call[v].start = bisect[v].lo /\ call[v].end = bisect[v].hi
    BY <1>1 DEF Local, Called, Searching, Halves, Busy
  <2>2. QED
    BY <1>1, <2>1 DEF Local, Judged, Concluding
<1>5. Searching(v)'
  BY <1>1, <1>2, <1>4 DEF Local, Searching, Busy, At, environment
<1>6. \A w \in Verifier \ {v} : Frozen(w)
  BY DEF Inv, TypeOK, LastProbe, Goto, Frozen
<1>7. QED
  BY <1>3, <1>5, <1>6 DEF Local

(* The half that is left leads from agreement to divergence again, and it  *)
(* is smaller unless it is the last.                                       *)
LEMMA ProbeLocal ==
    ASSUME Inv, NEW v \in Verifier, Probe(v), UNCHANGED environment
    PROVE  Local(v)' /\ \A w \in Verifier \ {v} : Frozen(w)
<1> DEFINE b == IF bisect[v].phase = "whole" THEN bisect[v] ELSE Narrowed(v)
           last == b.hi - b.lo <= 1
           mid == IF last THEN b.hi ELSE (b.lo + b.hi) \div 2
<1>1. Local(v) /\ pc[v] = "return" /\ agree' = agree
  BY DEF Inv, Probe, At, environment
<1>2. /\ bisect[v] \in Bisect /\ bisect[v].lo \in Nat /\ bisect[v].hi \in Nat
      /\ call[v].end \in Point /\ call[v].end \in Nat
  BY Constants DEF Inv, TypeOK, Bisect, Call
<1>3. /\ call[v].kind = "bisect" /\ call[v].start = bisect[v].lo /\ agree[call[v].start]
      /\ verdict[v].equal => agree[call[v].end]
      /\ ~verdict[v].equal => ~agree[call[v].end]
  BY <1>1 DEF Probe, GoesOn, Local, Called, Searching, Judged, Halves, Busy, Concluding
<1>4. bisect[v].phase \in {"whole", "probe"}
  BY DEF Probe, GoesOn
<1>5. /\ b.lo \in Nat /\ b.hi \in Nat /\ b.lo < b.hi /\ agree[b.lo] /\ ~agree[b.hi]
  <2>1. CASE bisect[v].phase = "whole"
    <3>1. b = bisect[v] /\ ~verdict[v].equal
      BY <2>1 DEF Probe, GoesOn
    <3>2. bisect[v].lo < bisect[v].hi /\ call[v].end = bisect[v].hi
      BY <1>1, <2>1 DEF Local, Searching, Busy
    <3>3. QED
      BY <1>2, <1>3, <3>1, <3>2
  <2>2. CASE bisect[v].phase = "probe"
    <3>1. b = Narrowed(v)
      BY <2>2
    <3>2. /\ bisect[v].lo < call[v].end /\ call[v].end < bisect[v].hi
          /\ agree[bisect[v].lo] /\ ~agree[bisect[v].hi]
      BY <1>1, <2>2 DEF Local, Searching, Busy
    <3>3. CASE verdict[v].equal
      <4>1. b.lo = call[v].end /\ b.hi = bisect[v].hi
        BY <1>2, <3>1, <3>3 DEF Narrowed, Bisect
      <4>2. QED
        BY <1>2, <1>3, <3>2, <3>3, <4>1
    <3>4. CASE ~verdict[v].equal
      <4>1. b.lo = bisect[v].lo /\ b.hi = call[v].end
        BY <1>2, <3>1, <3>4 DEF Narrowed, Bisect
      <4>2. QED
        BY <1>2, <1>3, <3>2, <3>4, <4>1
    <3>5. QED
      BY <3>3, <3>4
  <2>3. QED
    BY <1>4, <2>1, <2>2
<1>6. b \in Bisect
  BY <1>2 DEF Narrowed, Bisect
<1>7. /\ mid \in Nat
      /\ last => mid = b.hi /\ b.hi = b.lo + 1
      /\ ~last => b.lo < mid /\ mid < b.hi
  <2> HIDE DEF b
  <2>1. QED
    BY <1>5
<1>8. /\ bisect'[v] = [b EXCEPT !.phase = IF last THEN "last" ELSE "probe"]
      /\ call'[v] = [NoCall EXCEPT !.kind = "bisect", !.start = b.lo, !.end = mid]
      /\ pc'[v] = "position"
  BY DEF Probe, Inv, TypeOK, Goto
<1> HIDE DEF b, mid, last
<1>9. /\ bisect'[v].phase = (IF last THEN "last" ELSE "probe")
      /\ bisect'[v].lo = b.lo /\ bisect'[v].hi = b.hi
  BY <1>6, <1>8 DEF Bisect
<1>10. call'[v].kind = "bisect" /\ call'[v].start = b.lo /\ call'[v].end = mid
  BY <1>8 DEF NoCall
<1>11. call'[v].start <= call'[v].end
  BY <1>5, <1>7, <1>10
<1>12. Called(v)'
  BY <1>8, <1>9, <1>10, <1>11 DEF Called, Busy
<1>13. Compared(v)' /\ Judged(v)' /\ Recorded(v)'
  BY <1>8 DEF Compared, Judged, Recorded, At, Starting, Concluding
<1>14. Searching(v)'
  BY <1>1, <1>5, <1>7, <1>8, <1>9, <1>10 DEF Searching, Busy, At
<1>15. \A w \in Verifier \ {v} : Frozen(w)
  BY DEF Inv, TypeOK, Probe, Goto, Frozen
<1>16. QED
  BY <1>12, <1>13, <1>14, <1>15 DEF Local

(* While the artifact is being opened, nothing is being verified.          *)
LEMMA OpeningLocal ==
    ASSUME Inv, NEW v \in Verifier, OpenRead(v) \/ Open(v)
    PROVE  Local(v)' /\ \A w \in Verifier \ {v} : Frozen(w)
<1>1. pc'[v] \in {"idle", "opening"} /\ \A w \in Verifier \ {v} : Frozen(w)
  BY DEF Inv, TypeOK, OpenRead, Open, Goto, Frozen
<1>2. QED
  BY <1>1 DEF Local, Called, Compared, Judged, Recorded, Searching, Busy, At, Starting,
              Concluding

LEMMA LocalStep ==
    ASSUME Inv, [Next]_verifyVars, NEW w \in Verifier
    PROVE  Local(w)'
<1>1. UNCHANGED environment /\ Grows /\ Local(w)
  BY StoreStep DEF Inv
<1>2. ASSUME NEW v \in Verifier, Local(v)', \A u \in Verifier \ {v} : Frozen(u)
      PROVE  Local(w)'
  BY <1>1, <1>2, Frame
<1>3. ASSUME Frozen(w) PROVE Local(w)'
  BY <1>1, <1>3, Frame
<1>4. ASSUME NEW v \in Verifier, BadStart(v) \/ Return(v) \/ Bisected(v) \/ Raise(v)
      PROVE  Local(w)'
  BY <1>2, <1>4, Idle DEF BadStart, Return, Bisected, Raise, Finish
<1>5. ASSUME NEW v \in Verifier, Step(v) PROVE Local(w)'
  BY <1>1, <1>2, <1>4, <1>5, PositionLocal, CacheStartLocal, ReplayLocal, SegmentLocal,
     RefineLocal, RecordLocal, NoteLocal, CacheEndLocal, LastProbeLocal, ProbeLocal DEF Step
<1>6. ASSUME NEW v \in Verifier, OpenRead(v) \/ Open(v) PROVE Local(w)'
  BY <1>2, <1>6, OpeningLocal
<1>7. ASSUME NEW v \in Verifier,
             VerifyInterval(v) \/ VerifyCheckpointed(v) \/ BisectDivergence(v)
      PROVE  Local(w)'
  BY <1>2, <1>7, Begun
<1>8. ASSUME UNCHANGED verifyVars PROVE Local(w)'
  BY <1>3, <1>8 DEF verifyVars, localVars, Frozen
<1>9. QED
  BY <1>4, <1>5, <1>6, <1>7, <1>8 DEF Next, Finished

-----------------------------------------------------------------------------
(* What verifiers return.                                                  *)
ToldExact(v) ==
    LET c == told[v].call
        r == told[v].verdict
    IN  /\ c.kind = "checkpointed" =>
              /\ Unblemished(c, c.start, IF r.equal THEN c.end ELSE r.before)
              /\ ~r.equal => r.after = r.before + 1 /\ ~Unblemished(c, r.before, r.after)
        /\ c.kind = "bisect" /\ ~r.equal =>
              r.after = r.before + 1 /\ agree[r.before] /\ ~agree[r.after]

LEMMA ExactTold ==
    CheckpointedExact /\ BisectedTransition <=> \A v \in Verifier : ToldExact(v)
BY DEF CheckpointedExact, BisectedTransition, ToldExact, Returned

LEMMA ToldFrame ==
    ASSUME NEW w \in Verifier, ToldExact(w), UNCHANGED environment, told'[w] = told[w]
    PROVE  ToldExact(w)'
BY DEF ToldExact, environment, Unblemished

LEMMA FinishExact ==
    ASSUME Inv, NEW v \in Verifier, Return(v) \/ Bisected(v), UNCHANGED environment
    PROVE  ToldExact(v)' /\ \A w \in Verifier \ {v} : told'[w] = told[w]
<1>1. Local(v) /\ Finish(v) /\ agree' = agree /\ quiet' = quiet
  BY DEF Inv, Return, Bisected, environment
<1>2. /\ told'[v].verdict = verdict[v]
      /\ told'[v].call = IF bisect[v].phase = "none" THEN call[v]
                         ELSE [call[v] EXCEPT !.start = bisect[v].first]
      /\ \A w \in Verifier \ {v} : told'[w] = told[w]
  BY <1>1 DEF Finish, Inv, TypeOK
<1>3. call[v].kind = "bisect" <=> bisect[v].phase # "none"
  BY <1>1 DEF Local, Called, Busy, Return, Bisected, At
<1>4. CASE bisect[v].phase = "none"
  <2>1. pc[v] = "return" /\ told'[v].call = call[v] /\ call[v].kind # "bisect"
    <3>1. Busy(v) /\ At(v, "bisected") => bisect[v].phase = "last"
      BY <1>1 DEF Local, Searching
    <3>2. QED
      BY <1>2, <1>3, <1>4, <3>1 DEF Return, Bisected, At, Busy
  <2>2. ASSUME call[v].kind = "checkpointed"
        PROVE  LET c == call[v]
                   r == verdict[v]
               IN  /\ Unblemished(c, c.start, IF r.equal THEN c.end ELSE r.before)
                   /\ ~r.equal => r.after = r.before + 1 /\ ~Unblemished(c, r.before, r.after)
    BY <1>1, <2>1, <2>2 DEF Local, Judged, Concluding
  <2>3. QED
    BY <1>1, <1>2, <2>1, <2>2 DEF ToldExact, Unblemished
<1>5. CASE bisect[v].phase # "none"
  <2>1. told'[v].call.kind = "bisect"
    <3>1. call[v] \in Call /\ call[v].kind = "bisect"
      BY <1>3, <1>5 DEF Inv, TypeOK
    <3>2. [call[v] EXCEPT !.start = bisect[v].first].kind = "bisect"
      BY <3>1 DEF Call
    <3>3. QED
      BY <1>2, <1>5, <3>2
  <2>2. CASE Return(v)
    <3>1. verdict[v].equal
      BY <1>5, <2>2 DEF Return
    <3>2. QED
      BY <1>2, <2>1, <3>1 DEF ToldExact
  <2>3. CASE Bisected(v)
    <3>1. /\ bisect[v].phase = "last" /\ verdict[v] = Divergent(bisect[v].lo, bisect[v].hi)
          /\ agree[bisect[v].lo] /\ ~agree[bisect[v].hi] /\ bisect[v].hi = bisect[v].lo + 1
      BY <1>1, <2>3 DEF Local, Searching, Busy, At, Bisected
    <3>2. verdict[v].before = bisect[v].lo /\ verdict[v].after = bisect[v].hi
      BY <3>1 DEF Divergent
    <3>3. QED
      BY <1>1, <1>2, <2>1, <3>1, <3>2 DEF ToldExact
  <2>4. QED
    BY <2>2, <2>3
<1>6. QED
  BY <1>2, <1>4, <1>5

LEMMA ToldStep ==
    ASSUME Inv, [Next]_verifyVars, NEW w \in Verifier
    PROVE  ToldExact(w)'
<1>1. UNCHANGED environment /\ ToldExact(w)
  BY StoreStep, ExactTold DEF Inv
<1>2. ASSUME told'[w] = told[w] PROVE ToldExact(w)'
  BY <1>1, <1>2, ToldFrame
<1>3. ASSUME NEW v \in Verifier, Return(v) \/ Bisected(v) PROVE ToldExact(w)'
  BY <1>1, <1>2, <1>3, FinishExact
<1>4. ASSUME NEW v \in Verifier, told' = [told EXCEPT ![v] = Nothing] PROVE ToldExact(w)'
  <2>1. told'[w] = Nothing \/ told'[w] = told[w]
    BY <1>4 DEF Inv, TypeOK
  <2>2. ASSUME told'[w] = Nothing PROVE ToldExact(w)'
    BY <2>2 DEF ToldExact, Nothing, NoCall
  <2>3. QED
    BY <1>2, <2>1, <2>2
<1>5. ASSUME UNCHANGED told PROVE ToldExact(w)'
  BY <1>2, <1>5
<1>6. ASSUME NEW v \in Verifier, Step(v) PROVE ToldExact(w)'
  BY <1>3, <1>5, <1>6 DEF Step, Position, BadStart, CacheStart, Replay, Segment, Refine, Record,
                          NoteOutcome, CacheEnd, Probe, LastProbe
<1>7. QED
  BY <1>4, <1>5, <1>6 DEF Next, Finished, verifyVars, localVars, VerifyInterval,
                          VerifyCheckpointed, BisectDivergence, Start, OpenRead, Open, Raise

-----------------------------------------------------------------------------
LEMMA InitInv == Init => Inv
<1> SUFFICES ASSUME Init PROVE Inv
  OBVIOUS
<1>1. durable = [profiles |-> Side, boundaries |-> {}, annotations |-> {}, coordinates |-> {}]
  BY DEF Init, NewArtifact, C!Nothing
<1>2. durable \in C!Content /\ seen = [v \in Verifier |-> durable]
  BY <1>1 DEF Init, C!Content
<1>3. TypeOK
  <2>1. at = [v \in Verifier |-> Resting(0)]
    BY DEF Init, Resting
  <2>2. QED
    BY <1>2, <2>1, Constants DEF Init, TypeOK, PCs
<1>4. SeenSound /\ CachedAgreed /\ EvidenceFollows
  BY <1>1, <1>2 DEF Init, SeenSound, CachedAgreed, EvidenceFollows
<1>5. ASSUME NEW v \in Verifier PROVE Local(v)
  BY DEF Init, Local, Called, Compared, Judged, Recorded, Searching, Busy, At, Starting,
         Concluding
<1>6. CheckpointedExact /\ BisectedTransition
  BY DEF Init, CheckpointedExact, BisectedTransition, Returned, Nothing, NoCall
<1>7. QED
  BY <1>3, <1>4, <1>5, <1>6 DEF Inv

LEMMA NextInv == Inv /\ [Next]_verifyVars => Inv'
<1> SUFFICES ASSUME Inv, [Next]_verifyVars PROVE Inv'
  OBVIOUS
<1>1. TypeOK'
  BY TypeStep
<1>2. SeenSound' /\ CachedAgreed' /\ EvidenceFollows'
  BY StoreStep DEF StoreInv
<1>3. \A v \in Verifier : Local(v)'
  BY LocalStep
<1>4. \A v \in Verifier : ToldExact(v)'
  BY ToldStep
<1>5. CheckpointedExact' /\ BisectedTransition'
  BY <1>4 DEF ToldExact, CheckpointedExact, BisectedTransition, Returned
<1>6. QED
  BY <1>1, <1>2, <1>3, <1>5 DEF Inv

LEMMA Invariant == Spec => []Inv
BY InitInv, NextInv, PTL DEF Spec

(* CachedAgreed: whatever is cached for either side, by whichever of any   *)
(* number of verifiers and through however old a handle, holds the state   *)
(* of its point, and both sides agree there.                               *)
THEOREM CachesAgree == Spec => []CachedAgreed
<1>1. Inv => CachedAgreed
  BY DEF Inv
<1>2. QED
  BY <1>1, Invariant, PTL

(* EvidenceFollows: no annotation is written, by any of any number of      *)
(* verifiers, that is not true and preceded by the record it rests on; the *)
(* artifact holds nothing else, and all of it until an open of whichever   *)
(* verifier has written back a manifest it read before it had the lock.    *)
THEOREM EvidenceRests == Spec => []EvidenceFollows
<1>1. Inv => EvidenceFollows
  BY DEF Inv
<1>2. QED
  BY <1>1, Invariant, PTL

(* CheckpointedExact: verify_checkpointed's verdict is exact - all of the  *)
(* interval agrees, or the first transition that does not is named - for   *)
(* any checkpoint span.                                                    *)
THEOREM VerdictsExact == Spec => []CheckpointedExact
<1>1. Inv => CheckpointedExact
  BY DEF Inv
<1>2. QED
  BY <1>1, Invariant, PTL

(* BisectedTransition: bisect_divergence returns a single transition from  *)
(* agreement to divergence, monotone or not.                               *)
THEOREM BisectionsExact == Spec => []BisectedTransition
<1>1. Inv => BisectedTransition
  BY DEF Inv
<1>2. QED
  BY <1>1, Invariant, PTL

(* BisectionInvariant: the check at the end of bisect_divergence, that the *)
(* last interval diverges, cannot fail.                                    *)
THEOREM BisectionHolds == Spec => []BisectionInvariant
<1>1. Inv => BisectionInvariant
  <2> SUFFICES ASSUME Inv, NEW v \in Verifier, At(v, "return"), bisect[v].phase = "last"
               PROVE  ~verdict[v].equal
    BY DEF BisectionInvariant
  <2>1. Local(v)
    BY DEF Inv
  <2>2. ~agree[call[v].end]
    BY <2>1 DEF Local, Searching, Busy, At
  <2>3. QED
    BY <2>1, <2>2 DEF Local, Judged, Concluding, At
<1>2. QED
  BY <1>1, Invariant, PTL
=============================================================================
