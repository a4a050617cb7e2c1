SPECIFICATION Spec
CONSTANTS
    w1 = w1
    w2 = w2
    Workers <- MCWorkers
    NoWorker = NoWorker
    Sequences = 3
    MaxWire = 5
INVARIANTS
    AnswersFresh
    TextInOrder
    StopMarkerKept
    WorkersStopped
PROPERTIES
    LoopEnds
    KeepsLifecycle
CHECK_DEADLOCK FALSE
