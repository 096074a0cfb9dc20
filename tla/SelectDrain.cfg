\* Three values a channel: taken one by one or in batches of two, in any order
\* or biased, from channels of one and of two slots.
SPECIFICATION FairSpec
CONSTANTS
    Half = 3
    Batch = 2
    Capacities = {1, 2}
INVARIANT DrainedInOrder
PROPERTIES
    Terminates
    ImplementsExactlyOnce
