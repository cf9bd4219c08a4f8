CONSTANTS
    Kind = {"memory", "fifo", "program", "region"}
    c1 = c1
    c2 = c2
    c3 = c3
    Server = Server
    requests = requests
    NULL = NULL
    Client <- Clients
    Proc <- Processes
    Chan <- Channels
    Msg <- Messages
    Capacity <- Sizes
    Cast <- Casts
    LEN = 2
    FileSizes = {2, 4}
    Tasks = {1, 2, 3}
    ITERATIONS = 2
    NTHREADS = 2
    NVALS = 4
    NITERS = 1
SPECIFICATION Spec
INVARIANTS RepliesMatch ServerSurvives ResultsAreRight LinesComeOutOnce RegionsHold
PROPERTIES RequestsAreFifo EverybodyEnds
\* every client has ended and the server waits for a request; every program has ended
CHECK_DEADLOCK FALSE
