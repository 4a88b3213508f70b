SPECIFICATION FairSpec
CONSTANTS
    Thread = {t1, t2}
    Handle = {h1, h2, h3}
    NoHandle = NoHandle
    MinSize = 1
    MaxSize = 1
    t1 = t1
    t2 = t2
    h1 = h1
    h2 = h2
    h3 = h3
INVARIANT Placed
INVARIANT SizeAccounted
INVARIANT SizeBounded
INVARIANT NoMissedReturn
PROPERTY ShutdownJoins
