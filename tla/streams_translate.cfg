SPECIFICATION Spec
CONSTANTS
    Index = {1, 2, 3}
    MaxChunks = 3
    MaxAttempts = 2
INVARIANTS
    TypeOK
    OneEnding
    HonestEnd
    NothingLost
    Attributed
    AllClosed
    FinishKept
