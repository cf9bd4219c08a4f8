CONSTANTS
    Thread = {t1, t2, t3}
    Message = {m1, m2, m3}
    max_size = 2
    NULL = NULL
SPECIFICATION Spec
INVARIANTS PlacesAddUp
PROPERTY StepIsFifo
\* every message was put and taken, or free() aborted the process
CHECK_DEADLOCK FALSE
