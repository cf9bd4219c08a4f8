CONSTANTS
    Thread = {t1, t2, t3}
    Event = {ev}
    AutoEvent = {auto}
    Semaphore = {sem}
    Limit = 2
    Unit = {1, 2}
    Main = Main
    NULL = NULL
SPECIFICATION SyncLiveSpec
INVARIANTS Placement NobodyWaitsInVain
PROPERTIES NoOvertaking NoBarging ImplementsUThread ReadyRuns
\* an assertion of ut_run that fails aborts the process
CHECK_DEADLOCK FALSE
