----------------------------- MODULE GoPipeline -----------------------------
(***************************************************************************)
(* Go's channel workloads (go/main.go): spsc, manyToOne and mpmc, which    *)
(* share produce and consume.                                              *)
(*                                                                         *)
(* A Go channel knows nothing of its users: it is closed by a call, once,  *)
(* and a send after that panics.  In manyToOne and mpmc the main goroutine *)
(* closes it, when the producers' WaitGroup says that they are done; in    *)
(* spsc the only producer does, and one WaitGroup counts both goroutines.  *)
(* A consumer adds up in a local variable and stores it in a slot of the   *)
(* main goroutine's before it calls Done; the main goroutine reads the     *)
(* slots without a lock, once the consumers' Wait has returned.            *)
(*                                                                         *)
(* Goroutines run as soon as they exist.  Values and sums are modelled as  *)
(* in ScopedPipeline.                                                      *)
(***************************************************************************)
EXTENDS Integers, Sequences, Functions

CONSTANTS P,          \* number of producers of manyToOne and mpmc
          C,          \* number of mpmc's consumers
          Per,        \* values each producer sends
          Capacities  \* of the channel; 0 is an unbuffered channel

ASSUME GoPipelineAssumption ==
    /\ P \in Nat \ {0}
    /\ C \in Nat \ {0}
    /\ Per \in Nat
    /\ Capacities \subseteq Nat

VARIABLES
    workload,   \* "spsc", "mpsc" (manyToOne) or "mpmc", and
    capacity,   \* --capacity, for the whole run
    mainpc,     \* where the main goroutine is
    ppc, cpc,   \* where each producer and each consumer is
    wg,         \* the counter of each WaitGroup
    chan,       \* what is in the channel
    closed,     \* how often the channel has been closed
    next,       \* the next value each producer sends
    local,      \* s of each consumer
    slot,       \* sums, which the consumers store and the main goroutine reads
    total,      \* the sum of the sums that were read
    reported    \* whether the report has been made

setup    == <<workload, capacity>>
routines == <<ppc, cpc>>
queue    == <<chan, closed>>
sums     == <<local, slot, total>>
vars     == <<setup, mainpc, routines, wg, queue, next, sums, reported>>

NumProducers == IF workload = "spsc" THEN 1 ELSE P
NumConsumers == IF workload = "mpmc" THEN C ELSE 1

Producers == 1 .. P
Consumers == 1 .. C
Values    == Producers \X (1 .. Per)
ToSend    == (1 .. NumProducers) \X (1 .. Per)
Nothing   == [v \in Values |-> 0]

\* The WaitGroup of a producer; a consumer's is "consumers".
ProducersGroup == IF workload = "spsc" THEN "consumers" ELSE "producers"

TypeOK ==
    /\ workload \in {"spsc", "mpsc", "mpmc"}
    /\ capacity \in Capacities
    /\ mainpc \in {"consumers", "producers", "wait", "close", "sums", "reported"}
    /\ ppc \in [Producers -> {"new", "send", "close", "done", "end"}]
    /\ cpc \in [Consumers -> {"new", "recv", "store", "done", "end"}]
    /\ wg \in [{"producers", "consumers"} -> 0 .. P + C]
    /\ chan \in Seq(Values)
    /\ Len(chan) <= capacity
    /\ closed \in 0 .. P + 1
    /\ next \in [Producers -> 1 .. Per + 1]
    /\ local \in [Consumers -> [Values -> Nat]]
    /\ slot \in [Consumers -> [Values -> Nat]]
    /\ DOMAIN total = Values
    /\ reported \in BOOLEAN

Init ==
    /\ workload \in {"spsc", "mpsc", "mpmc"}
    /\ capacity \in Capacities
    /\ mainpc = "consumers"
    /\ ppc = [p \in Producers |-> "new"]
    /\ cpc = [c \in Consumers |-> "new"]
    /\ wg = [g \in {"producers", "consumers"} |-> 0]
    /\ chan = <<>>
    /\ closed = 0
    /\ next = [p \in Producers |-> 1]
    /\ local = [c \in Consumers |-> Nothing]
    /\ slot = [c \in Consumers |-> Nothing]
    /\ total = Nothing
    /\ reported = FALSE

-----------------------------------------------------------------------------
Sending(p) == ppc[p] = "send" /\ next[p] <= Per

Add(c, v) == local' = [local EXCEPT ![c][v] = @ + 1]

PStep(p, from, to) == ppc[p] = from /\ ppc' = [ppc EXCEPT ![p] = to]
CStep(c, from, to) == cpc[c] = from /\ cpc' = [cpc EXCEPT ![c] = to]

(* Mistakes.  Each of these is an operation below with one thing wrong,    *)
(* and breaks the property it is named with; none is part of Spec.         *)

\* CloseIsSafe: the main goroutine closes without waiting.
WaitForNobody ==
    /\ mainpc = "wait"
    /\ mainpc' = IF workload = "spsc" THEN "sums" ELSE "close"
    /\ UNCHANGED <<setup, routines, wg, queue, next, sums, reported>>

\* NobodyWritesWhatIsRead: Done before the sum is stored.
DoneThenStore(c) ==
    /\ closed > 0
    /\ chan = <<>>
    /\ CStep(c, "recv", "store")
    /\ wg' = [wg EXCEPT !["consumers"] = @ - 1]
    /\ UNCHANGED <<setup, mainpc, ppc, queue, next, sums, reported>>

\* Terminates: a consumer that goes on receiving zero values from a closed
\* channel.
RangeIgnoresClose(c) ==
    /\ closed > 0
    /\ chan = <<>>
    /\ cpc[c] = "recv"
    /\ UNCHANGED vars

\* ImplementsExactlyOnce: report without waiting for the consumers.
ReadSumsEarly ==
    /\ mainpc = "sums"
    /\ mainpc' = "reported"
    /\ total' = [v \in Values |-> SumFunction([c \in Consumers |-> slot[c][v]])]
    /\ reported' = TRUE
    /\ UNCHANGED <<setup, routines, wg, queue, next, local, slot>>

-----------------------------------------------------------------------------
(* The main goroutine counts a goroutine before it starts it.  (spsc       *)
(* starts the producer first, which makes no difference: neither can be    *)
(* told from one that has not been scheduled.)                             *)

StartConsumers ==
    /\ mainpc = "consumers"
    /\ mainpc' = "producers"
    /\ wg' = [wg EXCEPT !["consumers"] = IF workload = "spsc" THEN 2 ELSE NumConsumers]
    /\ cpc' = [c \in Consumers |-> IF c <= NumConsumers THEN "recv" ELSE "new"]
    /\ UNCHANGED <<setup, ppc, queue, next, sums, reported>>

StartProducers ==
    /\ mainpc = "producers"
    /\ mainpc' = "wait"
    /\ wg' = IF workload = "spsc" THEN wg ELSE [wg EXCEPT !["producers"] = P]
    /\ ppc' = [p \in Producers |-> IF p <= NumProducers THEN "send" ELSE "new"]
    /\ UNCHANGED <<setup, cpc, queue, next, sums, reported>>

\* producers.Wait()
WaitProducers ==
    /\ mainpc = "wait"
    /\ wg["producers"] = 0
    /\ mainpc' = IF workload = "spsc" THEN "sums" ELSE "close"
    /\ UNCHANGED <<setup, routines, wg, queue, next, sums, reported>>

Close ==
    /\ mainpc = "close"
    /\ mainpc' = "sums"
    /\ closed' = closed + 1
    /\ UNCHANGED <<setup, routines, wg, chan, next, sums, reported>>

\* consumers.Wait(), the sum of the sums and the report.
ReadSums ==
    /\ mainpc = "sums"
    /\ wg["consumers"] = 0
    /\ mainpc' = "reported"
    /\ total' = [v \in Values |-> SumFunction([c \in Consumers |-> slot[c][v]])]
    /\ reported' = TRUE
    /\ UNCHANGED <<setup, routines, wg, queue, next, local, slot>>

(* produce.  A send on a closed channel panics, which is what              *)
(* NeverSendOnClosed excludes.                                             *)

Send(p) ==
    /\ Sending(p)
    /\ closed = 0
    /\ Len(chan) < capacity
    /\ chan' = Append(chan, <<p, next[p]>>)
    /\ next' = [next EXCEPT ![p] = @ + 1]
    /\ UNCHANGED <<setup, mainpc, routines, wg, closed, sums, reported>>

\* An unbuffered channel: from a waiting sender to a waiting receiver.
Handoff(p, c) ==
    /\ capacity = 0
    /\ closed = 0
    /\ Sending(p)
    /\ cpc[c] = "recv"
    /\ Add(c, <<p, next[p]>>)
    /\ next' = [next EXCEPT ![p] = @ + 1]
    /\ UNCHANGED <<setup, mainpc, routines, wg, queue, slot, total, reported>>

SentAll(p) ==
    /\ next[p] > Per
    /\ PStep(p, "send", IF workload = "spsc" THEN "close" ELSE "done")
    /\ UNCHANGED <<setup, mainpc, cpc, wg, queue, next, sums, reported>>

ProducerClose(p) ==
    /\ PStep(p, "close", "done")
    /\ closed' = closed + 1
    /\ UNCHANGED <<setup, mainpc, cpc, wg, chan, next, sums, reported>>

ProducerDone(p) ==
    /\ PStep(p, "done", "end")
    /\ wg' = [wg EXCEPT ![ProducersGroup] = @ - 1]
    /\ UNCHANGED <<setup, mainpc, cpc, queue, next, sums, reported>>

(* consume                                                                 *)

Recv(c) ==
    /\ cpc[c] = "recv"
    /\ chan # <<>>
    /\ Add(c, Head(chan))
    /\ chan' = Tail(chan)
    /\ UNCHANGED <<setup, mainpc, routines, wg, closed, next, slot, total, reported>>

\* The channel is closed and empty.
RangeEnds(c) ==
    /\ closed > 0
    /\ chan = <<>>
    /\ CStep(c, "recv", "store")
    /\ UNCHANGED <<setup, mainpc, ppc, wg, queue, next, sums, reported>>

StoreSum(c) ==
    /\ CStep(c, "store", "done")
    /\ slot' = [slot EXCEPT ![c] = local[c]]
    /\ UNCHANGED <<setup, mainpc, ppc, wg, queue, next, local, total, reported>>

ConsumerDone(c) ==
    /\ CStep(c, "done", "end")
    /\ wg' = [wg EXCEPT !["consumers"] = @ - 1]
    /\ UNCHANGED <<setup, mainpc, ppc, queue, next, sums, reported>>

Exited ==
    /\ reported
    /\ UNCHANGED vars

Producer(p) ==
    \/ Send(p) \/ SentAll(p) \/ ProducerClose(p) \/ ProducerDone(p)
    \/ \E c \in Consumers : Handoff(p, c)

Consumer(c) == Recv(c) \/ RangeEnds(c) \/ StoreSum(c) \/ ConsumerDone(c)

MainRoutine == StartConsumers \/ StartProducers \/ WaitProducers \/ Close \/ ReadSums

Next ==
    \/ \E p \in Producers : Producer(p)
    \/ \E c \in Consumers : Consumer(c)
    \/ MainRoutine
    \/ Exited

Spec == Init /\ [][Next]_vars

(* The Go scheduler runs every runnable goroutine in the end.              *)
Fairness ==
    /\ \A p \in Producers : WF_vars(Producer(p))
    /\ \A c \in Consumers : WF_vars(Consumer(c))
    /\ WF_vars(MainRoutine)

FairSpec == Spec /\ Fairness

-----------------------------------------------------------------------------
(* What must be true of the pipeline.                                      *)

Received(v)  == \E c \in Consumers : local[c][v] # 0

\* The consumer that has v in its sum, if it is there once and nowhere else.
ReceivedOnce(v) ==
    \E c \in Consumers :
        /\ local[c][v] = 1
        /\ \A d \in Consumers \ {c} : local[d][v] = 0

(* No producer gets to a send after the channel was closed: the close      *)
(* waits for the Done of every producer, which comes after its last send.  *)
NeverSendOnClosed == closed > 0 => \A p \in Producers : ~Sending(p)

(* The channel is not closed twice, which would panic: the producer closes *)
(* it only when it is the only one and the main goroutine does not.        *)
ClosedOnce ==
    /\ closed <= 1
    /\ closed = 1 => mainpc # "close" /\ \A p \in Producers : ppc[p] # "close"

(* Nobody panics on the closed channel.                                    *)
CloseIsSafe == TypeOK /\ NeverSendOnClosed /\ ClosedOnce

(* The main goroutine reads the slots without a lock: when it gets to it   *)
(* no consumer still has a sum to store, and none is missing.  So what it  *)
(* adds up and reports is every value that was to be sent, once.           *)
NobodyWritesWhatIsRead ==
    (mainpc = "sums" /\ wg["consumers"] = 0) \/ mainpc = "reported" =>
        /\ \A c \in Consumers : cpc[c] \in {"new", "end"}
        /\ slot = local
        /\ reported => total = [v \in Values |-> IF v \in ToSend THEN 1 ELSE 0]

(* Every run ends: nobody waits for a close or a Done that never comes.    *)
Terminates == <>reported

EO == INSTANCE ExactlyOnce WITH
        units <- ToSend,
        accounted <- {v \in Values : ReceivedOnce(v)},
        reported <- reported

(* The pipeline does what every workload promises: each value enters the   *)
(* checksum once, and the report comes after all of them.                  *)
ImplementsExactlyOnce == EO!Spec
=============================================================================
