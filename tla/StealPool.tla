------------------------------ MODULE StealPool ------------------------------
(***************************************************************************)
(* The work-stealing pool of crossbeam's cpu workload                      *)
(* (crossbeam-bench/src/main.rs: cpu, hash_worker, find_task, StartLine).  *)
(*                                                                         *)
(* The main thread queues every chunk in a global injector, starts Threads *)
(* workers that wait for each other at a start line, joins them in order   *)
(* and adds up their sums.  A worker looks for a chunk in its own deque,   *)
(* then in the injector, from which it moves a batch to its deque, then in *)
(* the deque of every worker.  It stops when `remaining` is zero.          *)
(*                                                                         *)
(* The deques are crossbeam-deque's: an operation on one is atomic and may *)
(* be told to retry when it lost a race for an item, except that moving a  *)
(* batch is two steps, taking it out of the injector and making it visible *)
(* in the deque, between which the batch is in neither queue.              *)
(*                                                                         *)
(* A sum of chunk checksums is a wrapping sum, which is commutative and    *)
(* associative, so a sum is modelled by the number of times each chunk is  *)
(* in it.                                                                  *)
(***************************************************************************)
EXTENDS Integers, FiniteSets

CONSTANTS Threads,    \* number of workers (--threads)
          Chunks      \* the chunks the range is cut into (--tasks)

ASSUME ThreadsAssumption == Threads \in Nat \ {0}
ASSUME ChunksAssumption == IsFiniteSet(Chunks)

Workers == 1 .. Threads

VARIABLES
    pc,         \* where each worker is
    started,    \* StartLine.start: whether the clock has been started
    injector,   \* the global queue
    local,      \* each worker's own deque
    moving,     \* the batch a worker is moving: in neither queue
    hand,       \* the chunk a worker holds, as a set of at most one
    victim,     \* the next worker a sweep of the stealers will try
    retry,      \* whether that sweep has met a Retry
    remaining,  \* the chunks not yet counted as hashed
    sum,        \* each worker's sum
    joined,     \* the next worker the main thread will join
    total,      \* the main thread's sum of sums
    reported    \* whether the report has been made

queues == <<injector, local, moving>>
search == <<victim, retry>>
main   == <<joined, total, reported>>
vars   == <<pc, started, queues, hand, search, remaining, sum, main>>

Nothing == [c \in Chunks |-> 0]

PCs == {"spawned", "barrier", "find", "global", "batch", "sweep",
        "hash", "count", "check", "done"}

TypeOK ==
    /\ pc \in [Workers -> PCs]
    /\ started \in BOOLEAN
    /\ injector \in SUBSET Chunks
    /\ local \in [Workers -> SUBSET Chunks]
    /\ moving \in [Workers -> SUBSET Chunks]
    /\ hand \in [Workers -> SUBSET Chunks]
    /\ victim \in [Workers -> 1 .. Threads + 1]
    /\ retry \in [Workers -> BOOLEAN]
    /\ remaining \in Nat
    /\ sum \in [Workers -> [Chunks -> Nat]]
    /\ joined \in 1 .. Threads + 1
    /\ total \in [Chunks -> Nat]
    /\ reported \in BOOLEAN

-----------------------------------------------------------------------------
(* cpu: everything is queued before the workers exist.                     *)

Init ==
    /\ pc = [w \in Workers |-> "spawned"]
    /\ started = FALSE
    /\ injector = Chunks
    /\ local = [w \in Workers |-> {}]
    /\ moving = [w \in Workers |-> {}]
    /\ hand = [w \in Workers |-> {}]
    /\ victim = [w \in Workers |-> 1]
    /\ retry = [w \in Workers |-> FALSE]
    /\ remaining = Cardinality(Chunks)
    /\ sum = [w \in Workers |-> Nothing]
    /\ joined = 1
    /\ total = Nothing
    /\ reported = FALSE

Goto(w, from, to) ==
    /\ pc[w] = from
    /\ pc' = [pc EXCEPT ![w] = to]

AllArrived == \A w \in Workers : pc[w] # "spawned"

-----------------------------------------------------------------------------
(* Mistakes.  Each of these is an operation below with one thing wrong,    *)
(* and breaks the property it is named with; none is part of Spec.         *)

\* ClockCoversWork: a barrier that lets the first comers through.
GoBeforeAll(w) ==
    /\ Goto(w, "barrier", "find")
    /\ started' = TRUE
    /\ UNCHANGED <<queues, hand, search, remaining, sum, main>>

\* ChunksConserved: a batch counted when it is taken.
TakeBatchAndCount(w) ==
    /\ Goto(w, "global", "batch")
    /\ \E batch \in SUBSET injector :
          /\ batch # {}
          /\ injector' = injector \ batch
          /\ moving' = [moving EXCEPT ![w] = batch]
          /\ remaining' = remaining - Cardinality(batch)
    /\ UNCHANGED <<started, local, hand, search, sum, main>>

\* TypeOK: a chunk counted twice.
CountTwice(w) ==
    /\ Goto(w, "count", "find")
    /\ remaining' = remaining - 2
    /\ hand' = [hand EXCEPT ![w] = {}]
    /\ UNCHANGED <<started, queues, search, sum, main>>

\* Terminates: a chunk not counted.
CountNothing(w) ==
    /\ Goto(w, "count", "find")
    /\ hand' = [hand EXCEPT ![w] = {}]
    /\ UNCHANGED <<started, queues, search, remaining, sum, main>>

\* NoEarlyQuit: stop on empty queues.
QuitOnEmptyQueues(w) ==
    /\ injector = {}
    /\ Goto(w, "check", "done")
    /\ UNCHANGED <<started, queues, hand, search, remaining, sum, main>>

\* ImplementsExactlyOnce: report before anyone was joined.
ReportEarly ==
    /\ ~reported
    /\ started
    /\ reported' = TRUE
    /\ UNCHANGED <<pc, started, queues, hand, search, remaining, sum, joined, total>>

-----------------------------------------------------------------------------
(* StartLine.go: the barrier, then the first worker through reads the      *)
(* clock.                                                                  *)

Arrive(w) ==
    /\ Goto(w, "spawned", "barrier")
    /\ UNCHANGED <<started, queues, hand, search, remaining, sum, main>>

Go(w) ==
    /\ AllArrived
    /\ Goto(w, "barrier", "find")
    /\ started' = TRUE
    /\ UNCHANGED <<queues, hand, search, remaining, sum, main>>

(* find_task: the worker's own deque first.                                *)

PopLocal(w) ==
    /\ Goto(w, "find", "hash")
    /\ \E c \in local[w] :
          /\ local' = [local EXCEPT ![w] = @ \ {c}]
          /\ hand' = [hand EXCEPT ![w] = {c}]
    /\ UNCHANGED <<started, injector, moving, search, remaining, sum, main>>

LocalEmpty(w) ==
    /\ local[w] = {}
    /\ Goto(w, "find", "global")
    /\ UNCHANGED <<started, queues, hand, search, remaining, sum, main>>

(* Injector::steal_batch_and_pop: the batch leaves the injector, ...       *)

TakeBatch(w) ==
    /\ Goto(w, "global", "batch")
    /\ \E batch \in SUBSET injector :
          /\ batch # {}
          /\ injector' = injector \ batch
          /\ moving' = [moving EXCEPT ![w] = batch]
    /\ UNCHANGED <<started, local, hand, search, remaining, sum, main>>

(* ... one chunk of it is returned and the rest shows up in the deque.     *)

FinishBatch(w) ==
    /\ Goto(w, "batch", "hash")
    /\ \E c \in moving[w] :
          /\ hand' = [hand EXCEPT ![w] = {c}]
          /\ local' = [local EXCEPT ![w] = @ \cup (moving[w] \ {c})]
          /\ moving' = [moving EXCEPT ![w] = {}]
    /\ UNCHANGED <<started, injector, search, remaining, sum, main>>

(* Otherwise the stealers are tried one after the other; a Retry of the    *)
(* injector is remembered unless one of them succeeds.                     *)

Sweep(w, r) ==
    /\ Goto(w, "global", "sweep")
    /\ victim' = [victim EXCEPT ![w] = 1]
    /\ retry' = [retry EXCEPT ![w] = r]
    /\ UNCHANGED <<started, queues, hand, remaining, sum, main>>

InjectorEmpty(w) == injector = {} /\ Sweep(w, FALSE)

InjectorRetry(w) == injector # {} /\ Sweep(w, TRUE)

Steal(w) ==
    /\ victim[w] \in Workers
    /\ Goto(w, "sweep", "hash")
    /\ \E c \in local[victim[w]] :
          /\ local' = [local EXCEPT ![victim[w]] = @ \ {c}]
          /\ hand' = [hand EXCEPT ![w] = {c}]
    /\ UNCHANGED <<started, injector, moving, search, remaining, sum, main>>

NextVictim(w, r) ==
    /\ pc[w] = "sweep"
    /\ victim[w] \in Workers
    /\ victim' = [victim EXCEPT ![w] = @ + 1]
    /\ retry' = [retry EXCEPT ![w] = r]
    /\ UNCHANGED <<pc, started, queues, hand, remaining, sum, main>>

VictimEmpty(w) ==
    /\ victim[w] \in Workers
    /\ local[victim[w]] = {}
    /\ NextVictim(w, retry[w])

VictimRetry(w) ==
    /\ victim[w] \in Workers
    /\ local[victim[w]] # {}
    /\ NextVictim(w, TRUE)

(* The whole lookup is repeated, from the injector on, after a Retry, and  *)
(* finds nothing if there was none.                                        *)

SweepAgain(w) ==
    /\ victim[w] = Threads + 1
    /\ retry[w]
    /\ Goto(w, "sweep", "global")
    /\ UNCHANGED <<started, queues, hand, search, remaining, sum, main>>

FoundNothing(w) ==
    /\ victim[w] = Threads + 1
    /\ ~retry[w]
    /\ Goto(w, "sweep", "check")
    /\ UNCHANGED <<started, queues, hand, search, remaining, sum, main>>

(* hash_worker: the chunk is hashed into the sum, then counted, ...        *)

Hash(w) ==
    /\ Goto(w, "hash", "count")
    /\ sum' = [sum EXCEPT ![w] = [c \in Chunks |->
                  IF c \in hand[w] THEN @[c] + 1 ELSE @[c]]]
    /\ UNCHANGED <<started, queues, hand, search, remaining, main>>

Count(w) ==
    /\ Goto(w, "count", "find")
    /\ remaining' = remaining - 1
    /\ hand' = [hand EXCEPT ![w] = {}]
    /\ UNCHANGED <<started, queues, search, sum, main>>

(* ... and a worker that found nothing stops or waits a little.  The load  *)
(* is Relaxed: it may return a value that is no longer the current one, so *)
(* a worker may see a nonzero count when the count is zero already.        *)

Quit(w) ==
    /\ remaining = 0
    /\ Goto(w, "check", "done")
    /\ UNCHANGED <<started, queues, hand, search, remaining, sum, main>>

Snooze(w) ==
    /\ Goto(w, "check", "find")
    /\ UNCHANGED <<started, queues, hand, search, remaining, sum, main>>

(* cpu: the workers are joined in order and the report is made; it reads   *)
(* the start line's clock and panics if no worker has set it.              *)

Join ==
    /\ joined \in Workers
    /\ pc[joined] = "done"
    /\ total' = [c \in Chunks |-> total[c] + sum[joined][c]]
    /\ joined' = joined + 1
    /\ UNCHANGED <<pc, started, queues, hand, search, remaining, sum, reported>>

Report ==
    /\ joined = Threads + 1
    /\ ~reported
    /\ started
    /\ reported' = TRUE
    /\ UNCHANGED <<pc, started, queues, hand, search, remaining, sum, joined, total>>

(* The process has exited.                                                 *)

Exited ==
    /\ reported
    /\ UNCHANGED vars

Worker(w) ==
    \/ Arrive(w) \/ Go(w)
    \/ PopLocal(w) \/ LocalEmpty(w)
    \/ TakeBatch(w) \/ FinishBatch(w) \/ InjectorEmpty(w) \/ InjectorRetry(w)
    \/ Steal(w) \/ VictimEmpty(w) \/ VictimRetry(w)
    \/ SweepAgain(w) \/ FoundNothing(w)
    \/ Hash(w) \/ Count(w) \/ Quit(w) \/ Snooze(w)

Next ==
    \/ \E w \in Workers : Worker(w)
    \/ Join
    \/ Report
    \/ Exited

Spec == Init /\ [][Next]_vars

(* Fairness.  The operating system schedules every runnable thread.  A     *)
(* deque operation is told to retry only when another thread's operation   *)
(* won, and there are finitely many chunks to win, so one that is tried    *)
(* again and again with work there succeeds; a decrement becomes visible   *)
(* to the loads of the other threads in a finite time.                     *)

Fairness ==
    /\ \A w \in Workers :
          /\ WF_vars(Worker(w))
          /\ SF_vars(TakeBatch(w))
          /\ SF_vars(Steal(w))
          /\ SF_vars(Quit(w))
    /\ WF_vars(Join)
    /\ WF_vars(Report)

FairSpec == Spec /\ Fairness

-----------------------------------------------------------------------------
(* What must be true of the pool.                                          *)

\* What a worker has taken and not counted yet.
Held(w) == local[w] \cup moving[w] \cup hand[w]

\* The chunks `remaining` is there to count.
Uncounted == injector \cup UNION {Held(w) : w \in Workers}

\* Whether a worker has still to hash a chunk.
StillToHash(w, c) ==
    c \in local[w] \cup moving[w] \/ (pc[w] = "hash" /\ c \in hand[w])

\* Whether a chunk is in some queue, in a batch on the move or in a hand.
Pending(c) == c \in injector \/ \E w \in Workers : StillToHash(w, c)

(* A chunk is never in two places: popping, stealing and moving a batch    *)
(* hand it over, so no two workers can be about to hash it.                *)
HeldOnce ==
    \A w \in Workers :
        /\ injector \cap Held(w) = {}
        /\ local[w] \cap moving[w] = {}
        /\ local[w] \cap hand[w] = {}
        /\ moving[w] \cap hand[w] = {}
        /\ \A v \in Workers \ {w} : Held(w) \cap Held(v) = {}

(* No chunk is lost or hashed twice, whichever way it travelled: either it *)
(* is still pending and in nobody's sum, or it is in the sum of exactly    *)
(* one worker, exactly once.                                               *)
HashedOnce ==
    \A c \in Chunks :
        IF Pending(c)
        THEN \A w \in Workers : sum[w][c] = 0
        ELSE \E w \in Workers :
                /\ sum[w][c] = 1
                /\ \A v \in Workers \ {w} : sum[v][c] = 0

(* The counter the workers stop on counts the chunks that are not done     *)
(* yet, those being moved between two queues included, whatever the        *)
(* interleaving of hashing and counting: it cannot reach zero early, and   *)
(* cannot go below zero and wrap.                                          *)
RemainingCounts == remaining = Cardinality(Uncounted)

(* No chunk is lost, duplicated, hashed twice or miscounted on its way from*)
(* the injector to a worker's sum.                                         *)
ChunksConserved == HeldOnce /\ HashedOnce /\ RemainingCounts

(* A worker stops only when every chunk of every worker has been hashed:   *)
(* it is never lost to the pool while a batch is in neither queue, the     *)
(* case for which hash_worker does not stop on empty queues.               *)
NoEarlyQuit ==
    \A w \in Workers : pc[w] = "done" => \A c \in Chunks : ~Pending(c)

(* The sum that is reported has every chunk in it exactly once: the main   *)
(* thread joins every worker before it reports, and no worker adds to its  *)
(* sum after it was joined.                                                *)
ReportExact == reported => total = [c \in Chunks |-> 1]

(* The clock covers all the work: it is running before the first chunk     *)
(* leaves the injector, and no chunk leaves it while a worker has not      *)
(* reached the barrier.                                                    *)
ClockCoversWork == injector # Chunks => started /\ AllArrived

(* The pool always finishes: no worker waits for work that will not come,  *)
(* sweeps forever, or misses the last decrement.                           *)
Terminates == <>reported

(* The pool does what every workload promises.                             *)
HashedSet ==
    {c \in Chunks : \E w \in Workers :
        sum[w][c] = 1 /\ \A v \in Workers \ {w} : sum[v][c] = 0}

EO == INSTANCE ExactlyOnce WITH
        units <- Chunks, accounted <- HashedSet, reported <- reported

(* Each chunk enters the checksum once, and the report comes after all.    *)
ImplementsExactlyOnce == EO!Spec
=============================================================================
