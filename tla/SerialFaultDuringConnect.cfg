SPECIFICATION Spec
CONSTANTS
    codex = codex
    runboard = runboard
    t1 = t1
    t2 = t2
    BoardApps <- MCBoardApps
    Offered <- MCOffered
    CallKinds <- MCWindowCalls
    FrameFirst <- MCFrameFirst
    TransportIds <- MCTransportIds
    Qtopia = Qtopia
    NoApp = NoApp
    NoTransport = NoTransport
    WriteMayTimeOut = FALSE
INVARIANT
    ConnectedHasTransport
CHECK_DEADLOCK FALSE
