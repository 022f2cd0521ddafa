---------------------------- MODULE ReplayContent ----------------------------
(***************************************************************************)
(* What a replay artifact is about, shared by the abstract ReplayCatalog   *)
(* and the detailed ReplayStore: registered execution profiles, cached     *)
(* boundaries, annotations and the table of timeline coordinates.          *)
(***************************************************************************)
CONSTANTS
    Profile,        \* execution profiles (ReplayExecutionIdentity)
    Point,          \* points of the timeline worth caching
    Annotation,     \* payloads of annotate()
    Coordinates     \* payloads of set_timeline_coordinates()

Boundary == Profile \X Point

Content == [profiles : SUBSET Profile, boundaries : SUBSET Boundary,
            annotations : SUBSET Annotation, coordinates : SUBSET Coordinates]

Nothing == [profiles |-> {}, boundaries |-> {}, annotations |-> {}, coordinates |-> {}]

Merge(c, d) == [profiles |-> c.profiles \cup d.profiles,
                boundaries |-> c.boundaries \cup d.boundaries,
                annotations |-> c.annotations \cup d.annotations,
                coordinates |-> c.coordinates \cup d.coordinates]

Within(c, d) == Merge(c, d) = d

(* The contents that consist of a single entry: what one call adds.        *)
ProfileEntry(f) == [Nothing EXCEPT !.profiles = {f}]
BoundaryEntry(b) == [Nothing EXCEPT !.boundaries = {b}]
AnnotationEntry(n) == [Nothing EXCEPT !.annotations = {n}]
CoordinatesEntry(c) == [Nothing EXCEPT !.coordinates = {c}]

Entry == {ProfileEntry(f) : f \in Profile} \cup {BoundaryEntry(b) : b \in Boundary}
         \cup {AnnotationEntry(n) : n \in Annotation}
         \cup {CoordinatesEntry(c) : c \in Coordinates}
=============================================================================
