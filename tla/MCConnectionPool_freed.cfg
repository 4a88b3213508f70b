SPECIFICATION Spec
CONSTANTS
    Thread = {t1, t2, t3}
    Handle = {h1, h2, h3}
    NoHandle = NoHandle
    MinSize = 1
    MaxSize = 2
    t1 = t1
    t2 = t2
    t3 = t3
    h1 = h1
    h2 = h2
    h3 = h3
SYMMETRY Symmetry
INVARIANT ReturnedIsLive
