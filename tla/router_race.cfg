SPECIFICATION Spec
CONSTANTS
    r1 = r1
    r2 = r2
    Req = {r1, r2}
    Model <- OneModel
    Redirect <- RedirectOne
    Channel <- AB
    Row <- RowsAB
    ChannelOf <- ChannelAB
    Serves <- ServesAB
    NoSystem = {2}
    Unsupported = {}
    RoundRobin = TRUE
    RoundRobinKeys = {"a"}
    InitKeys <- KeysAAB
    BadEntry = {}
    Cooldown = 1
    MaxTime = 2
    MaxEdits = 0
INVARIANTS
    StartsBalanced
PROPERTIES
    ImplementsDispatch
SYMMETRY TwoRequests
