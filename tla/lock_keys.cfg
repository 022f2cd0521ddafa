\* Three processes, all alive at once, any of them dying anywhere; or two
\* keys, all three ways of pumping, any order of up to four posts.
CONSTANTS
    Proc = {p1, p2, p3}
    Concurrent = TRUE
    MaxDeaths = 3
    ScanCode = {k1, k2}
    Mode = {"pump", "keep", "events"}
    MaxPosts = 4
SPECIFICATION BothSpec
INVARIANT TypeOK
INVARIANT ExclusiveUntilDeath
INVARIANT OwnFileUntilDeath
INVARIANT RestingTable
PROPERTY MutationEnds
PROPERTY StaleLockReclaimed
PROPERTY TapPolled
PROPERTY TableSettles
