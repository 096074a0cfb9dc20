# Verification of the runtime benchmark suite

The repository measures Tokio, crossbeam and Go on nine concurrent workloads. Five programs
implement the workloads, a Python runner starts them again and again, and a Python report turns the
rows of `raw.jsonl` into medians and charts. A benchmark is worth something only if every run did
all the work it was asked to do and nothing else: a channel that loses a value, a pool that stops
early, a clock started late or a wrong run that is averaged in produce a number that looks like any
other. Most of the properties here say that this does not happen, in whatever order threads, tasks
and messages come.

This directory holds TLA+ modules that model the code, TLC configurations that check them on small
instances, and TLAPS proofs. Source locations below are relative to the repository's root.

## 1. Inventory

| Part | Source | State it keeps | Operations | What is hard |
|---|---|---|---|---|
| crossbeam pool (`cpu`) | `rust/crossbeam-bench/src/main.rs` 233-298, `StartLine` 31-49 | injector, one deque per worker, `remaining`, start time, per-thread sums | push, pop, steal batch and pop, steal, retry, count, stop, join | a batch on the move is in no queue; steals lose races; stopping on a counter |
| crossbeam channels | same, 68-155 | channel, senders, receivers, start line | spawn, go, send, recv, drop, join | main thread's own handles; end of stream; rendezvous; a thread that the system refuses |
| go channels | `go/main.go` 44-121 | channel, two WaitGroups, slots for the sums | send, receive, close, Done, Wait | who closes, and when; plain slots read after Wait |
| tokio channels | `tokio-bench`, `tokio-tuned-bench`, `tokio-variants-bench` | channel, cloned handles, per-task buffer | spawn, send, recv, try_recv, recv_many, drop, await | tasks run during set-up; a buffer left at the end |
| spawn without handles | `tokio-tuned-bench/src/lib.rs` 205-249, `tokio-variants-bench/src/lib.rs` 428-465 | slots, count, Notify, two passes | store, count, notify_one, check, notified, sum, reset | lost wake-up; a notification left over from the first pass; Relaxed slots |
| select | all five programs | two channels, open flags | poll, win, lose, end | the receive that loses; a branch that has ended; batches |
| pingpong | all five programs | token, two channels of one slot, samples | send, recv, hang up, percentiles | only the hang-up ends pong; samples preallocated; ranks of few samples |
| idle | all five programs | two counters, gate, Notify | count, block, sample, close, finish | when is the memory sampled; check against notify |
| spawn, cpu, mutex | all five programs, `common` | handles or slots and WaitGroup, two passes, a locked counter | spawn, result, join, again, lock | remainders of chunks; slots of the pass before; read and write of the counter |
| variants | `runner/run.py` 40-56, 255-287, `tokio-variants-bench` | two tables and the branches | resolve, check, dispatch | the three have to agree |
| runner: commands and checksums | `runner/run.py` | tables of cases and parameters | build a command, parse its output, verify | defaults of five programs, closed forms of sums that wrap |
| runner: the loop | `runner/run.py` 188-226, 357-378, 406-444, 499-513 | plan, active implementations, rows, file | run one, record, drop, skip | failures in the middle of a round; Ctrl-C; kill; unflushed rows |
| report: summary | `runner/report.py` 55-120 | rows | settle unverified checksums, status of a group | majority; partial data; one wrong run |
| report: statistics | `runner/report.py` 154-180, 504-547 | none | median, its interval, clear best | few runs, ties, rounding, two directions |
| harness | `rust/common/src/lib.rs`, `go/harness.go` | none | parse, print, percentiles, chunk bounds, `cpu_range` | sizes that nothing divides; zero |
| builds, machine checks | `runner/run.py` | none shared with the loop | | I/O; not modelled |
| rendering, flame graphs, results | `runner/report.py`, `report_template.html`, `flamegraph.py`, `results/` | none | | not modelled |

How the parts interact. The runner starts one program at a time, with its parameters on the command
line, waits for it or for the timeout, takes the last line of its output, and checks that it echoes
what was asked. It compares the checksum with one of its own (or leaves the run unverified), appends
the row to `raw.jsonl` and flushes it. `report.py` reads the file, possibly after the runner was
stopped. Inside a program the main thread (or the workload's task) starts threads or tasks, which
share channels, deques, counters, slots or a lock, and makes the report when all are joined.

`PROJECT.json` lists, under `hazards`, each place where this can go wrong in a way a test would hardly
reach, and the properties that cover it.

## 2. Modules

| Module | Models | Runs |
|---|---|---|
| `ExactlyOnce` | the promise of a workload: a fixed set of units of work, each accounted for once in the checksum, the report made after all of them | (abstract) |
| `StealPool` | crossbeam `cpu`, `hash_worker`, `find_task`, `StartLine` | `StealPool` |
| `ScopedPipeline` | crossbeam `spsc`, `many_to_one`, `mpmc`, `produce`, `consume` | `ScopedPipeline` |
| `GoPipeline` | Go `spsc`, `manyToOne`, `mpmc`, `produce`, `consume` | `GoPipeline` |
| `TaskPipeline` | the same workloads in the three tokio programs | `TaskPipeline` |
| `LastTaskWakes` | `spawn`, `spawn_once`, `record` of the tuned program, `spawn_without_handles` of the variants | `LastTaskWakes_x86`, `LastTaskWakes_relaxed` |
| `SelectDrain` | the select workload of all programs | `SelectDrain` |
| `PingPong` | the pingpong workload of all programs, and the percentiles of its samples | `Programs`, `PingPong_percentiles` |
| `ForkJoin` | spawn (both passes), cpu and mutex where they are a plain fork and join, and idle | `Programs` |
| `Harness` | `chunk_bounds`, `cpu_range`, as pure operators | (used by `ForkJoin`, `Command`) |
| `Command` | from the name of an implementation and a case to the command line, the program's arguments, the workload it runs and the verdict on its row: `resolve_impl`, `bench_command`, `Args::parse`, `check_variants`, `with_channel!`, `run_one`, `verify`, `expected_checksum` | `Programs`, `Command_variants` |
| `MCPrograms` | `PingPong`, `ForkJoin` and `Command` one after another | `Programs` |
| `Statistics` | `median`, `median_ci`, `clear_best`, as operators on integers | (used by `Summary`) |
| `Summary` | `resolve_unverified` and `summarise`, as operators on rows | (used by `Runner`) |
| `Runner`, `MCRunner` | `main`'s loop and `run_config`, and what a report made at any time says | `Runner`, `Runner_bold` |
| `*Proofs` | theorems about the module of that name; `WorkloadProofs` about `ForkJoin` and `PingPong`, with lemmas on division and remainders; `RunnerProofs` about `Runner` with `Summary`, and about `Command` | |

Each module's header says what the model abstracts. `PROJECT.json` maps every definition to its
lines. Conventions shared by the modules:

- A thread, task or goroutine is a program counter; one action is one operation other threads can
  see. Loops of private computation are not split.
- A wrapping sum is modelled by what is in it (how often each unit, or a sequence of values): the
  sum of the code is commutative, so this tells apart everything the checksum can and more. `Command`
  is the exception: there the sums are numbers, of a small word, as it is about closed forms.
- Channels, deques, `Notify`, WaitGroups and locks are external. They are modelled by what their
  documentation promises the caller: a channel is a bounded queue that ends when its senders are
  gone or it is closed, a `Notify` keeps one permit, an operation on a deque is atomic and may be
  told to retry.
- Operators introduced as "mistakes" are plausible errors in one operation. They are no part of a
  specification; each shows that a property can tell the code from a broken version of it.

### State and actions, module by module

**StealPool.** `injector`, `local`, `remaining`, `sum`, `started` are the code's; `moving` is a batch
between `steal_batch_and_pop` taking it out of the injector and the deque showing it, `hand` the
chunk `find_task` has returned; `pc`, `victim` and `retry` are positions in the loops of `find_task`.
`Arrive` and `Go` are the barrier and the clock of `StartLine::go`. `PopLocal`, `TakeBatch`,
`FinishBatch`, `Steal` and the actions that find a queue empty or have to retry are `find_task`;
`Hash`, `Count`, `Quit` and `Snooze` are `hash_worker`; `Join` and `Report` the main thread.

**ScopedPipeline.** Who holds a sender or a receiver is explicit, the main thread included, and so
are borrowed receivers (`many_to_one` lends the consumer a reference). Threads start at the start
line. `Handoff` is a rendezvous channel, where a send and a receive are one step. `SpawnRefused` is a
thread that the system does not give: `scope.spawn` panics, and the scope waits for the threads
before it, which wait at the start line for one that never comes. `Stuck` is that state, which only
the runner's timeout ends.

**GoPipeline.** The same with goroutines, which start at once; a channel that is closed by the
producer (spsc) or by the main goroutine after the producers' WaitGroup; and slots for the sums,
which are stored without synchronisation before `wg.Done`.

**TaskPipeline.** `SpawnConsumer`, `DropRx`, `SpawnProducer`, `DropTx` and `Join` are the workload's
task, with which the spawned tasks are interleaved. `Recv`, `TryRecv`, `StopBatch`, `AddBuffered` and
`BufferEmpty` are the three ways to consume: one value at a time, draining what is queued, and
filling a buffer first.

**LastTaskWakes.** Two passes share slots, count and `Notify`; the last task of the first may still
have its `notify_one` to do while the second runs. `Sum` reads the slots: with `Strong` what has
been counted is visible, otherwise any of it may be missing.

**SelectDrain.** One select is a sequence of steps, as the branches are polled one after another
while the producers go on: `NotReady`, until `Ready` or `Closed`, or `Wake` when all were found not
ready. `Add` is what the branch then does.

**PingPong.** The code's `n`, `i` and `v` are `trips`, `trip` and `last`. `HangUp` is ping
returning; `owned` says whether its receiver goes with its sender (tokio) or is only borrowed or never closed (crossbeam, Go). `percentile` is `latency_percentiles`,
applied to the samples at the end.

**ForkJoin.** `pattern` is the shape of the workload: "handles" (spawn and cpu of tokio and
crossbeam) joins one handle after another, "slots" (Go) waits for the WaitGroup and reads the slots,
"mutex" counts under a lock, where the increment is two steps; "scope" and "notify" are idle, with
`CountParked`, the gate, and `Check`, the wait and the last task's notification for the tokio
programs. `twice` is spawn, whose first pass is thrown away: what the second starts from is `Fresh`,
as for the first.

**Command.** One behaviour is one run of a program. `startedBy` and `ours` say who started it and
whether the binary is of this source; `asked` is the implementation, case and size; `command` the
program with its flags; `args` and `variants` what it has parsed; `report` what it printed, with
the variants in its name (`label`) and those that its workload looked at (`acting`); `row` what the
runner made of it. The tables of both sides are written out as they are in the sources. With
`--no-build` the binary may be of another source. Such a build does one thing otherwise (`ParseElse`): an
argument has another value, it runs another workload, or it makes something else of `--variant`: it
ignores it, takes it for other variants, or does not know it; and it may echo all of its parameters but
one that the workload reads, or none (`Echoes`). Nothing is modelled of a build that prints what it did not do: the
runner has nothing else to go by, and the harness promises "the workload parameters this run actually
used" (`rust/common/src/lib.rs` 115).

**Statistics, Summary, Runner.** A row is what the runner writes for a run. `RunOne` is a whole
iteration of `run_config`'s inner loop, from starting the binary to removing the implementation, with
every result `run_one` and `verify` can give. `SkipRow` and `Prepare` are the memory check of `main`,
`Interrupt` is Ctrl-C, which leaves what Python has buffered to be written, and `Kill` is one that
does not. `Rank` is the loop of `median_ci` over the tails of a binomial distribution, which are
counted in outcomes of coin tosses so that all numbers are integers.

## 3. What is checked

All bounds are constants in the `.cfg` files, or in `MCRunner`. `Programs` checks three models that share
no variable: `MCPrograms` runs them one after another, each from all its initial states while the others
have only one, so that every state of each is reached and the product of two of them is not.

| Run | Instance | Properties |
|---|---|---|
| `StealPool` | 2 workers, 4 chunks; batches of any size up to all | `TypeOK`; `ChunksConserved`: no chunk in two places, hashed twice or lost, and `remaining` counts exactly what is not counted yet; `NoEarlyQuit`; `ClockCoversWork`; `Terminates`; `ImplementsExactlyOnce` |
| `ScopedPipeline` | 2 producers of 3 values, 1 or 2 consumers, capacity 0 and 2, any thread refused | `EndsCleanly`: a run short of a thread does not begin, no consumer leaves early, no producer panics; `Terminates`: the report, or the known hang; `ImplementsExactlyOnce` |
| `GoPipeline` | 2 producers of 3 values, 1 or 2 consumers, capacity 0 and 2 | `CloseIsSafe`: closed once and after the last send; `NobodyWritesWhatIsRead`: the slots are read after the last is written, and the report has every value sent, once; `Terminates`; `ImplementsExactlyOnce` |
| `TaskPipeline` | 2 producers of 2 values, 2 consumers, batches of 2, capacity 1 and 3, all styles | `EndsCleanly`; `Terminates`; `ImplementsExactlyOnce` |
| `LastTaskWakes_x86` | 3 tasks a pass, stores seen in order | `NoLostWakeup`; `OneExtraCheck`; `PassesApart`; `Terminates`; `ImplementsExactlyOnce` |
| `LastTaskWakes_relaxed` | 2 tasks, Relaxed as the language defines it | `SumComplete` is violated (see Findings) |
| `SelectDrain` | 3 values a channel, one or up to 2 at a time, capacity 1 and 2, biased or not | `DrainedInOrder`: what is received of a channel is what was sent on it, from its first value on and in order; `Terminates`; `ImplementsExactlyOnce` |
| `Programs` | `PingPong`: up to 6 rounds, every 1st to 4th sampled | `OneToken`: the token is in one place, its value is the number of hops, samples fit; `HangUpIsHeard`: pong ends once ping has |
| | `ForkJoin`: 3 tasks, up to 7 items, 2 increments each | `NothingLost`: every item and every increment is in the report once, in the second pass too; `SampledWhileIdle`; `Terminates` |
| | `Command`: every combination of up to 2 variants, 13 cases, sizes 0, 5 and 14, words of 16 values, 8 OS threads; started by the runner from this or another build, or by hand with odd flags | `NameSaysWhatRuns`: of this source, runner and program agree, nothing panics but for `--capacity 0`, no accepted variant is without effect; `AcceptedRanAsAsked`: of any build, the accepted rows are of the work asked for; `ChecksumAsExpected` |
| `PingPong_percentiles` | `PingPong` as in `Programs` | `PercentilesAreNearest` is violated (see Findings) |
| `Command_variants` | `Command` with single variants and one size | `VariantsRanAsAsked` is violated (see Findings) |
| `Runner` | 2 implementations in 2 configurations, checksums known, memory may be short; 3 implementations in one, checksums unknown, 2 repetitions; 2 implementations of speeds 1 to 4, 2 repetitions; 1 implementation, 10 repetitions; every result of every run; stopped anywhere | `FairRounds`; `NothingMissing`; `ShownAgree`; `HonestMajorityWins`; `KillLosesOnlySkips`; `BoldIsEarned`; `IntervalsAreRight`; `Terminates` |
| `Runner_bold` | the same | `BoldCoverage` is violated (see Findings) |

Why the bounds are enough to be interesting. In `StealPool` two workers suffice for a batch of
several chunks to be on the move while another worker sweeps every queue, for an owner and a thief
to want the same chunk, and for a victim to be oneself; four chunks let two batches follow each
other. In the pipelines two producers interleave values, three values exceed the larger capacity so
producers block and wake, and two consumers take turns. Batches of two are filled, left short, and
hit exactly. With three tasks and up to seven items `ForkJoin` has full chunks, a short one and empty
ones. In `Command` 14 is divided by neither the producers, the workers nor the chunks, its sums wrap a
word of 16, and it is more than crossbeam's cap on threads, while 5 is less; three variants together
would add nothing, as `check_variants` looks at one or two at a time. The `Runner` plans have a warm-up
round, a second configuration that must start with everybody again, three voters, so that one wrong
implementation loses and two can tie or win, runs whose intervals touch, overlap and are apart, and,
with ten repetitions of which any may fail, every number of runs for which the interval changes its
shape. The proofs remove the bounds where there are some.

Fairness. Threads, tasks and goroutines are weakly fair, each on its own: the operating system and
the runtimes schedule whatever stays runnable. In `StealPool` three steps need strong fairness: a
worker that tries a steal again and again while there is something to take succeeds at some time
(crossbeam's `Retry` means somebody else won, and there are finitely many chunks to win), and a load
sees the last decrement at some time. The consumer of `SelectDrain` is one task and nothing is
assumed of the branch that is polled first. In `ForkJoin` nothing is assumed of who gets the lock.
In `ScopedPipeline` the system need not refuse a thread. `Command` checks safety only: it is one
straight line. `Runner` assumes only that the runner goes on, since a run that hangs is ended by the
timeout; when it is stopped is up to the environment.

`ImplementsExactlyOnce` is a refinement: `ExactlyOnce` is instantiated with the units of the
workload, those that are accounted for and whether the report has been made, and its specification is
checked as a property. It forbids that a unit is no longer accounted for or only after the report, and
a report without all units. Accounted for is what is in the sums, except in `LastTaskWakes`, where it is
what the tasks of the timed pass have stored in their slots. What the sum then takes from the slots is
`SumComplete`.

### Findings

- `LastTaskWakes_relaxed`. The comment on `Completion` in `rust/tokio-tuned-bench/src/lib.rs` compares
  it with Go's results slice and WaitGroup. `WaitGroup.Done` happens before `Wait` returns, but here
  slots and count are accessed with `Ordering::Relaxed`, which orders nothing: a spawner that sees the
  complete count at its check, without having waited, may by the language's rules miss a slot. On
  x86, where the suite was run, increments are full barriers and stores are seen in order, so the
  sum is complete (`StrongSumIsComplete`).
- `Runner_bold`. Above the medians the report says that bold marks a clear best, whose "{coverage}
  confidence interval for the median doesn't overlap the next best's", with the coverage of a median
  of `--reps` runs (`runner/report.py` 390-395). A group of which runs failed is "partial" and still
  shown, and is compared with the interval of the runs it has: of two runs one may have failed, and the
  other, whose interval has no width and a coverage of 0, is bold. What bold does promise is
  `BoldIsEarned`: it goes to one implementation at most, and with fewer than six runs each of its
  runs beats each of the next best's, or of one of those with the next best median.

- `PingPong_percentiles`. Both harnesses call `percentile` "nearest-rank" (`rust/common/src/lib.rs` 212,
  `go/harness.go` 136), which is the least rank `k` with `k >= n * p`. The code takes the sorted sample of
  index `floor(n * p)`, counted from 0, which is the next one when `n * p` is whole: p50 of two samples is
  the larger. That is as far as it goes (`PercentileIsOneAbove`): it is always a sample, and otherwise the
  nearest rank. Products are exact in the model and doubles in the code.
- `Command_variants`. `run_one` says "first make sure the binary ran what was asked" (`runner/run.py` 435)
  and compares workload, threads, size and parameters, but neither the name nor the variants. Another
  build that ignores `--variant batch`, and names itself "tokio", is recorded as "tokio+batch".
  `AcceptedRanAsAsked` claims the variants only of programs of this source.

Observations that are not disagreements:

- Without a majority `report.py` accepts no checksum at all; two checksums can both have more than
  half of the implementations only if an implementation printed both, and then the first in the file
  wins. `clear_best` compares the first with the second by median only: with three implementations
  the third's interval may overlap too.
- A group of a runner that was stopped is shown as "partial", like one whose implementation failed
  after some runs. Rows of deliberate skips are the only ones that are not flushed, and so the only
  ones a kill can lose.
- By hand, `tokio-bench` and `crossbeam-bench` ignore `--variant`, while the Go program refuses it; from
  the runner neither is given one.
- A workload named twice on the runner's command line is measured twice, into the same groups.
- A thread that the system refuses ends crossbeam's idle and spawn with a panic, but leaves the
  workloads with a start line waiting until the timeout.

## 4. What is proved

The theorems hold for every value of the constants that the module's named ASSUME allows (at least
one worker, task, producer and consumer; finitely many chunks; sizes and capacities in `Nat`, and in
`Command` sizes that fit a word). Each
proof is `Init => IInv`, `IInv` is preserved by every step, and the property follows from `IInv`; there
is one lemma per conjunct of `IInv`, with a case for each action that can disturb it.

| Module | Theorem | Statement |
|---|---|---|
| `StealPoolProofs` | `TypeCorrect`, `ChunksAreConserved`, `WorkersStopInTime`, `ClockCovers` | the invariants of the run; in particular `remaining` never goes below zero and wraps |
| | `ReportedSumIsExact` | `Spec => []ReportExact` |
| | `Refinement` | `Spec => ImplementsExactlyOnce` |
| `ScopedPipelineProofs` | `PipelineEndsCleanly` | `Spec => []EndsCleanly` |
| | `Refinement` | `Spec => ImplementsExactlyOnce` |
| `GoPipelineProofs` | `NobodyPanics`, `SlotsAreReadLast` | `CloseIsSafe`, `NobodyWritesWhatIsRead` |
| | `Refinement` | `Spec => ImplementsExactlyOnce` |
| `TaskPipelineProofs` | `PipelineEndsCleanly` | `Spec => []EndsCleanly` |
| | `Refinement` | `Spec => ImplementsExactlyOnce` |
| `LastTaskWakesProofs` | `WakeupIsNotLost`, `AtMostOneExtraCheck`, `PassesAreApart` | the invariants of the run, with or without `Strong` |
| | `StrongSumIsComplete` | `Strong` implies `SumComplete` |
| | `Refinement` | `Spec => ImplementsExactlyOnce` |
| `SelectDrainProofs` | `EachInOrder` | `Spec => []DrainedInOrder` |
| | `Refinement` | `Spec => ImplementsExactlyOnce` |
| `WorkloadProofs` | `ChunksPartition` | every item is in exactly one range of `chunk_bounds` |
| | `NothingIsLost`, `SampledIdle` | `NothingLost`, `SampledWhileIdle` of `ForkJoin` |
| | `TokenIsOne` | `OneToken` of `PingPong` |
| | `PercentileIsOneAbove` | `percentile` is a sample, of the nearest rank or, when the share is whole, of the next |
| `RunnerProofs` | `RoundsAreFair`, `KillKeepsRuns` | `FairRounds`, `KillLosesOnlySkips` |
| | `MajorityWins`, `ReportIsTrue`, `ShownRunsAgree` | `HonestMajorityWins`, `NothingMissing`, `ShownAgree` |
| | `OneIsBold`, `BoldRunsWin` | `BoldIsOne`, `BoldIsEarned` |
| | `IntervalsCover` | `IntervalsAreRight` |
| | `ReportsAreTrue`, `RowsAreAsAsked` | `NameSaysWhatRuns`, `AcceptedRanAsAsked` of `Command` |
| | `SumsAreRight` | `ChecksumAsExpected` of `Command` |

Each `*Proofs` module also has `Inductive`, `Spec => []IInv`. `PingPong` and `Command` share no name with
`ForkJoin` and `Runner`, so that one module extends both of a pair and proves theorems about each; the
invariant of `Command` is that of `CommandInductive`, and that of `PingPong` is a step of `TokenIsOne`.

Some of the operators are recursive functions and folds (`factorial`, `Rank`, the hash of an item, the
sums of the workloads and of the coverage), and what they come to is shown for every number. The
library's induction theorems take a predicate as a parameter, which the backends cannot instantiate;
`InductionSet` takes a set of naturals in its place, the set of the numbers for which the claim holds,
and follows from there being a least element, by `WFMin`. That a recursive function exists at all is
shown by exhibiting it: `Factorial` and `MixedIsAWord` glue partial functions together, and a fold
(`AtMostCounts`, `TotalCounts`) is the size of a set that grows by as much as the fold adds, whichever
element is taken next.

The inductive invariants, and why they are needed.

*StealPool.* `NoEarlyQuit` is not inductive: that `remaining` is zero says something about chunks
only if `remaining` is known to be their number. `IInv` therefore joins: `TypeOK`; `HandOK`, a worker
holds exactly one chunk while it hashes and counts it and none otherwise, and a batch moves only
while it is being moved; `HeldOnce`, every chunk is in one place at most; `RemainingCounts`,
`remaining` is the number of chunks that are in some place; `HashedOnce`, a chunk that is pending is
in nobody's sum and any other in exactly one; `Stopped`, if a worker has stopped or been joined,
`remaining` is zero; `TotalIsJoined`, the total is the sum over the workers joined so far; and
`ClockRuns`. `Count` is the step where the parts meet: by `HeldOnce` the chunk in the hand is in no
other place, so its going away makes the set smaller by exactly one, as the decrement does the
counter. The refinement maps `Hash` to `Account`, `Report` to `Report` and all else to a stutter.

*The pipelines.* That a consumer which finds the channel empty and without senders leaves nothing
behind needs to know where every value is. `InOnePlace` says it: a value is not sent yet, or once in
the channel, or once in one sum, and in no two of these. `Positions` ties who is spawned to where the
main thread is; `Handles` (Rust) says exactly who holds a sender and a receiver in each position,
`Groups` and `Closes` (Go) that each WaitGroup is the number of goroutines that have not called Done
and that the channel is closed exactly when the code that closes it has run; `Leaving` says what has
been done by whoever has left. The cardinalities behind `Groups` change by one with each `Done`, which
is where `FS_RemoveElement` comes in. In `ScopedPipeline` `Joins` adds that the total is what the
consumers joined so far have received. In `TaskPipeline` there is one more place, the buffer of a
consumer, and `Leaving` says that it is empty whenever its consumer waits or has left. In `GoPipeline` the
report adds up the slots of the consumers, each written once. When all are written, each value sent is in
just one slot (`AllReceived`), and a sum with one term that is not 0 is that term (`SumOfOne`, by the
smallest set for which the fold would say otherwise), so the report has every value once. The
refinements map the step that adds a value to `Account`.

*LastTaskWakes.* `CountIsOfPass` says that the count is the number of tasks of the current pass that
have counted, whatever is left of the pass before; `OneNotifier`, that only one task a pass sees the
last count; `WakeupToCome`, that while the spawner waits and the count is complete, the notifier of
this pass or a permit is still there; `Leftovers`, what the notifier of the first pass may still do
in the second; `SpawnerWaits`, that the passes do not overlap otherwise.

*ForkJoin.* `Patterns` says which variables a workload touches at all, `Spawned` that tasks exist up
to the one being spawned, `Results` and `Sums` that the result of a task is its chunk when it is there
and that the sum is that of the handles joined so far (`ChunksPartition` makes it complete), `Increments`
that the counter is the number of increments made, the holder's being still to be written, and `Gate`
that the counters of idle are the numbers of tasks that have counted, so a full count means that
nobody is yet to come.

*PingPong.* `Token` says that exactly one of ping, pong and the two channels has the token, and
`Samples` that the number of samples times the interval is between the number of rounds played and that
plus one interval, which with `CeilingDivision` bounds it by what was allocated.

*SelectDrain.* `Sending` says that a channel holds the next values that were sent on it, those after the
ones taken; `Ordered` and `Complete` that what was received of a channel, added up or still in the
consumer's buffer, is in order and is everything up to the one taken last; and `Positions` when a
branch may be disabled: its producer has returned and its channel is empty, so that with both disabled
nothing is missing. The receive that loses must not change any of this, which is what makes it safe to
drop its future.

*Runner.* What the report says depends on all rows of a group, so `IInv` describes the whole log.
`OneByOne` says that the rows of an implementation in a configuration are one a round, in the order of the
rounds, and that none follows a failed one; `Gapless`, that no round is left out before one that has a row; `Judged`, that the verdict on a row fits
what it printed; `Progress`, which rows of the configuration being run there are, from the round and
from who is still to run in it; `InOrder`, that configurations are run one after another and are
settled when they are left: everybody has all rounds or a failure in them. `FairRounds` then needs that an
initial segment of the naturals is as long as it has elements, `NothingMissing` that as many measured rows as
repetitions means one of each. `MajorityWins` and `ShownRunsAgree` are about the log alone: a checksum that
more than half of the implementations printed was printed by one of the honest ones, all of whose runs are
right (`MajorityAccepted`). `OneIsBold` needs that a median is a number, that is, that the k-th smallest of k
or more values exists (`NthExists`).

*The interval of a median.* `median_ci` counts by binomials how likely n fair coins show at most j heads. The
proofs count outcomes, an outcome being the set of the tosses that showed heads: there are 2^n of them
(`PowerOfTwo`), as many with k heads as `choose` says (`Binomial`, by Pascal's rule), as many with j tails as
with j heads (`HeadsAndTails`), and so the outcomes strictly between the two ranks are all but twice those of
the tail (`BetweenTails`), which is `IntervalsAreRight`. The rank stops at the last tail that is small enough
(`RankStops`). Of fewer than six tosses none is: `Rank` is 1 (`RankOfFew`), the interval is from the smallest
to the largest run (`IntervalOfFew`), and intervals that do not overlap are runs that do not: `BoldRunsWin`.

*Command.* `Commanded` says that what the runner starts is the command line of what was asked for;
`Passed`, that the program's arguments are what it parsed, or one thing else in another build, and that
variants were checked before the workload ran; `EndedAs`, in which ways a program may end and what it
prints then; `JudgedAs`, that a row is accepted only of a program that printed what was asked for, and
never marked wrong. The rest is about the tables: `Tables` that a case
has every parameter its workload reads, none of them zero where it is divided by; `SameVariants` that the
two tables agree; `ChannelKnown` that `with_channel!` has an arm for every channel chosen; and `AllAct` that
each variant `check_variants` lets pass is one its workload looks at.

*The checksums.* `ChecksumRight` compares what each workload adds up with the runner's closed form. A sum is
the number of its units (`TotalCounts`), hence additive on disjoint sets, and a wrapping sum is the same
whether its terms wrap before or after (`WrapsOnce`). So a running total tells what a sum comes to
(`RunningTotal`): what k producers send is 0 up to e * k - 1 (`SentTotal`), of which the sum is the triangle
(`Triangle`); what k workers count is e * k (`CountedTotal`), which fits a word because the size does, a u64 in
the code and an assumption here; and the ranges of the tasks and the blocks of the runner are both all of
the items (`ChunksTotal`, `BlocksTotal`).

Only model-checked: all liveness (`Terminates`, `HangUpIsHeard`), which needs fairness and `ENABLED`.

## 5. What is not modelled

- The machine: CPU affinity, caches, timers, memory. Durations and RSS are measured and never
  decide what a program does, apart from the pauses of `idle` and the runner's memory check.
- The constants of the hash (its kernel is a permutation of a small word in `Harness`), the variation
  (`cv_pct`), which is only displayed, and formatting and parsing of JSON lines and command lines, of
  which the meaning is modelled: which argument has which value, and what is refused.
- Panics other than those the models contain or exclude: a thread that is refused, a send without
  receivers, a division by zero, a channel that cannot have a capacity of 0.
- Weak memory, except for the slots of `LastTaskWakes`. The other Relaxed accesses are counters that
  are only compared with their final value and are followed by a join or a gate.
- Select on rendezvous channels, which the runner's cases do not have.
- Builds, the order of CPUs, quiet waits, metadata, rendering, flame graphs: I/O that shares no state
  with what is modelled.

## 6. Plan

Done: the modules above, their runs, and the proofs listed in section 4.

What is left, in the order of its worth:

1. `Runner` over several workloads, with `Command`'s `Applicable` deciding who takes part in a
   configuration, so that the two compose.
