\* One verifier, a timeline of five points, a verification of any kind on
\* any pair of implementations; any step may raise.
CONSTANTS
    Verifier = {v1}
    End = 4
    Span = {2, 3}
    Quiet = {TRUE, FALSE}
    MaxCalls = 1
    MaxOpens = 1
SPECIFICATION Spec
INVARIANT CheckpointedExact
INVARIANT BisectedTransition
PROPERTY VerificationEnds
