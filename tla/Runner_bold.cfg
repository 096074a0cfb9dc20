\* What is written above the table of medians, of a group with a failed run.
SPECIFICATION Spec
CONSTANTS
    i1 = i1
    i2 = i2
    i3 = i3
    Plans <- MCPlans
    Checksums = {right, wrong}
    Right = right
    NoChecksum = none
    Grain = 2
INVARIANT BoldCoverage
