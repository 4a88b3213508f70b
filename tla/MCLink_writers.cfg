SPECIFICATION Spec
CONSTANTS
    HeadSize = 2
    IntMax = 5
    BodySize = {1}
    MaxFrame = 2
    MaxDown = 2
INVARIANT WholeFrames
CHECK_DEADLOCK FALSE
