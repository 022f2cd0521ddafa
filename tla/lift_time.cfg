\* A lifted function that reads the time in the middle of a block.
CONSTANTS
    Questions <- ReadsTime
    MaxOracle = 40
SPECIFICATION Spec
INVARIANT TimesIdentical
CHECK_DEADLOCK FALSE
