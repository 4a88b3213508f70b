SPECIFICATION Spec
CONSTANTS
    User = {u1, u2}
    Client = {c1, c2}
    MaxGroup = 2
    NoUser = NoUser
    Faults = {"mysql", "redis", "kill"}
    u1 = u1
    u2 = u2
    c1 = c1
    c2 = c2
SYMMETRY Symmetry
INVARIANT FriendsMutual
INVARIANT CreatorIsMaker
PROPERTY AddresseesSettled
CONSTRAINT OnePart
CONSTRAINT OneLarge
