\* Two producers, one borrowing or two owning consumers, a channel without a
\* buffer and one with two slots.
SPECIFICATION FairSpec
CONSTANTS
    P = 2
    C = 2
    Per = 3
    Capacities = {0, 2}
INVARIANTS
    EndsCleanly
PROPERTIES
    Terminates
    ImplementsExactlyOnce
