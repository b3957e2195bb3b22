SPECIFICATION Spec
CONSTANTS
    r1 = r1
    r2 = r2
    Req = {r1}
    Model <- ThreeModels
    Redirect <- RedirectOld
    Channel <- Four
    Row <- RowsFour
    ChannelOf <- ChannelFour
    Serves <- ServesFour
    NoSystem = {3}
    Unsupported = {"c"}
    RoundRobin = FALSE
    RoundRobinKeys = {}
    InitKeys <- KeysFour
    BadEntry = {6}
    Cooldown = 1
    MaxTime = 1
    MaxEdits = 0
INVARIANTS
    SingleSource
    RetryDiscipline
    OutcomeReported
    AttemptsBounded
    FailoverCoversRoutes
