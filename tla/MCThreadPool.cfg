CONSTANTS
    Kind = {"shutdown", "monitor", "signal"}
    Worker = {w1, w2, w3}
    Client = {main, other}
    Item = {i1, i2}
    Pill = Pill
    NULL = NULL
SPECIFICATION LiveSpec
INVARIANTS EachItemInOnePlace OnePillPerWorker NobodyLocksADestroyedPool
PROPERTIES ImplementsWorkPool AcceptedIsExecuted ShutdownCompletes
\* the pool is destroyed, or the clients call nothing any more
CHECK_DEADLOCK FALSE
