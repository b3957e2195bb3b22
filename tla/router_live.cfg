SPECIFICATION FairSpec
CONSTANTS
    r1 = r1
    r2 = r2
    Req = {r1}
    Model <- OneModel
    Redirect <- RedirectOne
    Channel <- AB
    Row <- RowsAB
    ChannelOf <- ChannelAB
    Serves <- ServesAB
    NoSystem = {2}
    Unsupported = {}
    RoundRobin = FALSE
    RoundRobinKeys = {"a"}
    InitKeys <- KeysAAB
    BadEntry = {}
    Cooldown = 1
    MaxTime = 2
    MaxEdits = 1
INVARIANTS
    TypeOK
PROPERTIES
    FailedKeyRests
    RequestsEnd
