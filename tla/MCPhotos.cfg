SPECIFICATION MCSpec
CONSTANTS
    Photos = {p1}
    Workers = {w1, w2}
    Requests = {r1}
    NoOne = NoOne
    Over = Over
    MaxAttempts = 2
    BatchSize = 1
SYMMETRY WorkerSymmetry
INVARIANTS
    TypeOK
    CompletedWasDone
    ErasedObjectIsQueued
PROPERTIES
    QueuesKeepPromise
CHECK_DEADLOCK FALSE
