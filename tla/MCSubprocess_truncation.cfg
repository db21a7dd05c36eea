\* A child that RunCapped stops because it has enough.
CONSTANTS
    Cap = 1
    PipeCap = 1
    MaxOut = 2
SPECIFICATION Spec
INVARIANT CappedTruncationIsNoFault
CHECK_DEADLOCK FALSE
