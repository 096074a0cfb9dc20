\* The sizes and sampling intervals of MCPrograms.cfg; two samples are enough.
SPECIFICATION PingPongSpec
CONSTANTS
    MaxRounds = 6
    MaxEvery = 4
INVARIANT PercentilesAreNearest
