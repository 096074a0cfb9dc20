\* Two workers and four chunks: a batch of two is on the move while the other
\* worker sweeps, steals and checks.
SPECIFICATION FairSpec
CONSTANTS
    Threads = 2
    Chunks = {c1, c2, c3, c4}
INVARIANTS
    TypeOK
    ChunksConserved
    NoEarlyQuit
    ClockCoversWork
PROPERTIES
    Terminates
    ImplementsExactlyOnce
