\* PingPong: every size up to 6 and every sampling interval up to 4: no round,
\* one, a last round that is timed and one that is not.
\* ForkJoin: three tasks, chunks of up to seven items, some of them empty or
\* short, and two increments each in the mutex workload.
\* Command: up to two variants together, sizes that nothing divides and that
\* make the sums wrap a word of four bits, and a crossbeam that takes eight
\* threads.
SPECIFICATION MCSpec
CONSTANTS
    MaxRounds = 6
    MaxEvery = 4
    Word = 16
    N = 3
    MaxSize = 7
    Times = 2
    MaxVariants = 2
    Sizes = {0, 5, 14}
    Threads = 2
    MAX_OS_THREADS = 8
    CpuTasks = 4
    CpuRounds = 3
    CpuBlock = 4
INVARIANTS
    OneToken
    NothingLost
    SampledWhileIdle
    NameSaysWhatRuns
    AcceptedRanAsAsked
    ChecksumAsExpected
PROPERTIES
    HangUpIsHeard
    Terminates
