SPECIFICATION Spec
CONSTANTS
    g1 = g1
    g2 = g2
    a1 = a1
    a2 = a2
    Id = {1, 2}
    Type = {"auto", "anthropic"}
    Addr = {"x"}
    ModelName = {"m", "n"}
    Admin = {a1, a2}
    Goroutine = {g1, g2}
    InitChan <- OneAuto
    HealthCheck = FALSE
    MaxFailures = 2
    MaxRequests = 3
    MaxFlips = 0
SYMMETRY Symmetric
INVARIANTS
    OneProbe
    NoOrphans
    SyncExact
