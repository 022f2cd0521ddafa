\* Two verifiers on one artifact, each with a handle of its own that may be
\* out of date, and that either may open anew while the other is at work.
\* The effects of a transition always differ: a call that compares them
\* finds the two sides different, one that does not sees their states only.
CONSTANTS
    Verifier = {v1, v2}
    End = 2
    Span = {1}
    Quiet = {FALSE}
    MaxCalls = 2
    MaxOpens = 1
SPECIFICATION Spec
SYMMETRY Symmetry
INVARIANT CachedAgreed
INVARIANT BisectionInvariant
INVARIANT EvidenceFollows
