\* No symmetry: the run checks liveness.
SPECIFICATION FairSpec
CONSTANTS
    i1 = i1
    i2 = i2
    i3 = i3
    Plans <- MCPlans
    Checksums = {right, wrong}
    Right = right
    NoChecksum = none
    Grain = 2
INVARIANTS
    FairRounds
    NothingMissing
    ShownAgree
    HonestMajorityWins
    KillLosesOnlySkips
    BoldIsEarned
    IntervalsAreRight
PROPERTY Terminates
