\* One process at a time; each may die or raise anywhere, its successor
\* finds the disk as it was left.
CONSTANTS
    Proc = {p1, p2, p3}
    Concurrent = FALSE
    MaxDeaths = 3
    Profile = {f1}
    Point = {a, b}
    Annotation = {n1}
    Coordinates = {c1, c2}
    OverlappingOpens = TRUE
    NoManifest = NoManifest
SYMMETRY Symmetry
SPECIFICATION Spec
INVARIANT TypeOK
INVARIANT IndexedRestorable
INVARIANT JournalRecovers
PROPERTY ImplementsCatalog
