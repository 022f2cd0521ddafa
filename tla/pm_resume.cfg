\* A machine restored from a snapshot runs beside the one that went on.
CONSTANTS
    Half = 2
    Length = {2}
    CatchUp = 2
    DetectLimit = 1
    Decimation = 2
    TimerPeriod = 9
    MaxLag = 6
    MaxNest = 2
    Budget = 2
    TimedBudget = 1
    Bytes = {1}
    Masks <- SomeMasks
    Vectors <- SomeVectors
    Streams <- OneStream
SPECIFICATION Spec
INVARIANT NeverStopped
