\* Two producers of two values, two consumers and batches of two, on a
\* channel of one slot and one of three.
SPECIFICATION FairSpec
CONSTANTS
    P = 2
    C = 2
    Per = 2
    Batch = 2
    Capacities = {1, 3}
INVARIANT EndsCleanly
PROPERTIES
    Terminates
    ImplementsExactlyOnce
