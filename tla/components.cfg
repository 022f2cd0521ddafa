\* The components that do not interact, one in each behaviour.
SPECIFICATION ComponentsSpec
CONSTANTS
    Proc = {one, two}
    Concurrent = TRUE
    MaxDeaths = 0
    Profile = {f1}
    Point = {a}
    Annotation = {note}
    Coordinates = {}
    OverlappingOpens = FALSE
    NoManifest = NoManifest
    Questions <- SomeQuestions
    Carriers = {"cpu", "gen"}
    MaxBinds = 2
    Planned = {"cheat", "fast", "smooth"}
    Behavioral = {"cheat", "fast"}
    Channel <- SomeChannels
    Safe <- SomeSafe
    Boundaries = {"frame", "tick"}
    Settings = {"off", "on"}
    Default = "off"
    MaxRequests = 2
    MaxBoundaries = 3
    ScanCode = {"k1"}
    Pointer = {"p1"}
    StepsPerFrame = 2
    MaxFrames = 2
    IrqAt = {}
    ReadAt = {3}
    StopAt = {5}
    MayFail = TRUE
    MayContinue = TRUE
    SameSecond = FALSE
    MaxPosts = 2
    MaxMoves = 1
    MaxToggles = 1
    MaxSessions = 3
    Listing <- HookedCode
    Handlers <- HookHandlers
    Configs <- HookConfigs
    StackSize = 3
    Dead = 2
    MaxSteps = 8
    MaxCalls = 6
INVARIANT HandlesKept
PROPERTY ImplementsCatalog
INVARIANT PlanFollowed
INVARIANT ReleasesPackage
INVARIANT FeaturesReplayed
INVARIANT ReplayFaithful
INVARIANT RecordingKept
INVARIANT KeysFollow
INVARIANT VerifierHonest
INVARIANT FramesAlike
INVARIANT LiftedAlike
INVARIANT ServicesKept
PROPERTY MemoryAlike
PROPERTY SnapshotsKept
INVARIANT DevicesExact
PROPERTY InstructionsAgree
CHECK_DEADLOCK FALSE
