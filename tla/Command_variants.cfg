\* One variant and one size are enough.
SPECIFICATION CommandSpec
CONSTANTS
    Word = 16
    MaxVariants = 1
    Sizes = {5}
    Threads = 2
    MAX_OS_THREADS = 8
    CpuTasks = 4
    CpuRounds = 3
    CpuBlock = 4
INVARIANT VariantsRanAsAsked
