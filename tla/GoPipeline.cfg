\* Two producers and two consumers, a channel without a buffer and one with
\* two slots; spsc has one of each, mpsc one consumer.
SPECIFICATION FairSpec
CONSTANTS
    P = 2
    C = 2
    Per = 3
    Capacities = {0, 2}
INVARIANTS
    CloseIsSafe
    NobodyWritesWhatIsRead
PROPERTIES
    Terminates
    ImplementsExactlyOnce
