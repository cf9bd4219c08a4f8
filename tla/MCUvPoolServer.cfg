CONSTANTS
    c1 = c1
    c2 = c2
    c3 = c3
    Client <- Clients
    Fd = {4, 5, 6}
    listenfd = 3
    NITERS = 1
    NULL = NULL
    Kind = {"uvpool"}
    Population <- Populations
    FOPEN_MAX = 3
    FD_SETSIZE = 6
    w1 = w1
    w2 = w2
    Worker = {w1, w2}
SPECIFICATION Spec
INVARIANT ResponseGoesToItsSender
\* the server waits for a client
CHECK_DEADLOCK FALSE
