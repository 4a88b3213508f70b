SPECIFICATION MCSpec
CONSTANTS
    Byte <- Boundary
    Long = 9
    LongNumber = 2
    Short = 5
    LargeInteger = 11000
    Octet <- SomeOctets
    MaxKey = 4
    MaxBytes = 5
INVARIANT DumpAccepts
INVARIANT CodepointIsMeant
INVARIANT ScansUtf8
INVARIANT RoundTrip
INVARIANT ParseIsGrammar
INVARIANT DumpParses
INVARIANT KeyIsKept
INVARIANT BinaryRoundTrip
INVARIANT PatchReaches
INVARIANT FlattenReturns
