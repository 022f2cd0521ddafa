\* Any two things a program or a user does to the machine while a stream
\* plays, one while the timer ticks too, and handlers that nest.
CONSTANTS
    Half = 2
    Length = {2}
    CatchUp = 2
    DetectLimit = 1
    Decimation = 2
    TimerPeriod = 9
    MaxLag = 6
    MaxNest = 2
    Budget = 2
    TimedBudget = 1
    Bytes = {1}
    Masks <- SomeMasks
    Vectors <- SomeVectors
    Streams <- OneStream
SPECIFICATION Spec
INVARIANT InServiceOwed
INVARIANT PlayedInOrder
INVARIANT ResumedAlike
PROPERTY EventuallyServed
