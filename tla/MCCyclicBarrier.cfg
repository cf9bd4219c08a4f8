CONSTANTS
    Thread = {t1, t2, t3}
    RoundMod = 2
    Phases = 5
SPECIFICATION LiveSpec
INVARIANTS NobodyPassesEarly OneSerialThread
PROPERTY AllPhasesDone
\* every thread went through its phases
CHECK_DEADLOCK FALSE
