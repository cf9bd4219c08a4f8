\* Three ranges, three calls; sizes below, at and between multiples of three.
\* The first latch with a signal more than it waits for.
CONSTANTS
    Kind = {"adder", "first"}
    main = main
    Waiter = {main}
    Signaller <- Items
    initial = 3
    Calls = 3
    Size = {0, 3, 4, 6, 8}
    FirstSignaller = {s1, s2, s3, s4}
    FirstWaiter = {w1, w2, w3}
    first_initial = 3
SPECIFICATION AddersSpec
INVARIANTS SumIsComplete NoItemOutlivesTheCall LatchesOpenInTime
PROPERTY EveryCallReturns
\* main has made its calls
CHECK_DEADLOCK FALSE
