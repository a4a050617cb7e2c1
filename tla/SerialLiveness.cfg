SPECIFICATION FairSpec
CONSTANTS
    codex = codex
    runboard = runboard
    t1 = t1
    t2 = t2
    BoardApps <- MCFrameFirst
    Offered <- MCQtopiaOnly
    CallKinds <- MCCalls
    FrameFirst <- MCFrameFirst
    TransportIds <- MCTransportIds
    Qtopia = Qtopia
    NoApp = NoApp
    NoTransport = NoTransport
    WriteMayTimeOut = TRUE
PROPERTIES
    LockReleased
    FaultCleaned
    ProviderDeathSurfaces
CHECK_DEADLOCK FALSE
