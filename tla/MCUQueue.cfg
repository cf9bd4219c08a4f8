CONSTANTS
    a = a
    b = b
    c = c
    d = d
    elem_avaiable = elem_avaiable
    space_avaiable = space_avaiable
    listhead = listhead
    Kind = {"queue", "join", "machine", "list"}
    Program <- Calls4
    Thread <- Threads
    Joiner = {a, b, c}
    Build = {"event", "list"}
    Process = {a, b}
    Version = {"uthread", "uthread0"}
    Event <- NoObject
    AutoEvent <- NoObject
    Semaphore <- BothSemaphores
    Limit = 2
    Unit = {1}
    Main = Main
    NULL = NULL
SPECIFICATION Spec
INVARIANTS UnitsAddUp JoinsAreSound LinksAgree ResumesAsItLeft
PROPERTIES ImplementsFifo ProgramEnds MachineImplementsUThread
\* the program ends
CHECK_DEADLOCK FALSE
