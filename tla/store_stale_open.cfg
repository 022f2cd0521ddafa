\* Two live processes that contend for the lock; nobody dies, any body may
\* raise, and anybody may open the artifact at any time.
CONSTANTS
    Proc = {p1, p2}
    Concurrent = TRUE
    MaxDeaths = 0
    Profile = {f1}
    Point = {a}
    Annotation = {n1}
    Coordinates = {}
    OverlappingOpens = TRUE
    NoManifest = NoManifest
SYMMETRY Symmetry
SPECIFICATION Spec
INVARIANT AcknowledgedDurable
