SPECIFICATION FairSpec
CONSTANTS
    HeadSize = 2
    IntMax = 5
    BodySize = {1}
    MaxFrame = 5
    MaxDown = 2
INVARIANT Aligned
INVARIANT AckIsAwaited
INVARIANT LoggedInIsReal
INVARIANT SessionIsKnown
PROPERTY MenuRespected
PROPERTY LoginReturns
CHECK_DEADLOCK FALSE
