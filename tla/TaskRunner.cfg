SPECIFICATION Spec
CONSTANTS
    Threads = {w1, w2, w3}
    MaxTasks = 4
INVARIANTS
    TypeOK
    InOrderOnce
    NoLostWakeup
    OneFurtherTaskEach
PROPERTIES
    ShutdownCompletes
    EveryTaskRuns
