SPECIFICATION Spec
CONSTANTS
    b1 = b1
    b2 = b2
    c = c
    Browser = {b1, b2}
    Name = {"root", "ann", "bob"}
    AdminName = "root"
    Uid = {1, 2, 3}
    Tid = {1, 2}
    Channel = {c}
    KeepsSessions = TRUE
    InitDB <- TwoAdmins
    MaxOps = 6
SYMMETRY TwoBrowsers
CHECK_DEADLOCK FALSE
PROPERTIES
    StartRestores
    DeletionKeepsAdmin
    ImportRestores
