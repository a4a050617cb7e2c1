SPECIFICATION Spec
CONSTANTS
    codex = codex
    runboard = runboard
    typo = typo
    p1 = p1
    p2 = p2
    p3 = p3
    p4 = p4
    Apps <- MCApps
    Registered <- MCRegistered
    NoApp = NoApp
    Pids <- MCPids
    NoPid = NoPid
    Terminals <- MCTerminals
    Commands <- MCConsoleOnly
    WriteMayFail = FALSE
    DiesInTime = TRUE
INVARIANTS
    DisplayExclusive
CHECK_DEADLOCK FALSE
