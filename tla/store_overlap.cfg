\* Two live processes that contend for the lock and open the artifact at any
\* time; nobody dies, any body may raise.
CONSTANTS
    Proc = {p1, p2}
    Concurrent = TRUE
    MaxDeaths = 0
    Profile = {f1}
    Point = {a}
    Annotation = {}
    Coordinates = {}
    OverlappingOpens = TRUE
    NoManifest = NoManifest
SPECIFICATION Spec
INVARIANT RecoveredClean
PROPERTY CallReturns
