SPECIFICATION FairSpec
CONSTANTS
    g1 = g1
    g2 = g2
    a1 = a1
    a2 = a2
    Id = {1}
    Type = {"auto", "anthropic", "openai"}
    Addr = {"x"}
    ModelName = {"m"}
    Admin = {a1}
    Goroutine = {g1}
    InitChan <- OneOpenAI
    HealthCheck = TRUE
    MaxFailures = 2
    MaxRequests = 2
    MaxFlips = 2

INVARIANTS
    TypeOK
    StatusEarned
PROPERTIES
    ProbesEnd
    DownRecovers
