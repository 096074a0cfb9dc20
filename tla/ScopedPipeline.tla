--------------------------- MODULE ScopedPipeline ---------------------------
(***************************************************************************)
(* Crossbeam's channel workloads (crossbeam-bench/src/main.rs): spsc,      *)
(* many_to_one and mpmc, which share produce, consume and StartLine.       *)
(*                                                                         *)
(* The main thread creates a bounded channel, spawns scoped threads that   *)
(* each hold a handle on it, drops the handles it does not need, joins the *)
(* producers and then the consumers, and adds up what the consumers        *)
(* received.  Nothing but the number of handles ends the run: a consumer   *)
(* stops when the channel is empty and has no sender left, and a send      *)
(* panics when it has no receiver left.  The operating system may refuse   *)
(* any of the threads.                                                     *)
(*                                                                         *)
(* mpmc:         C consumers, each of which owns a clone of rx             *)
(* many_to_one:  one consumer, which borrows the main thread's rx          *)
(* spsc:         many_to_one with P = 1 (its threads are spawned in the    *)
(*               other order, and nothing runs before both exist)          *)
(*                                                                         *)
(* The i-th value of producer p is <<p, i>> (the code sends the integer    *)
(* p * per + i), and a wrapping sum of values is modelled by the number of *)
(* times each value is in it.                                              *)
(***************************************************************************)
EXTENDS Integers, Sequences

CONSTANTS P,          \* number of producers (--producers)
          C,          \* number of mpmc's consumers (--consumers)
          Per,        \* values each producer sends (size / producers)
          Capacities  \* of the channel; 0 is a rendezvous channel

ASSUME PipelineAssumption ==
    /\ P \in Nat \ {0}
    /\ C \in Nat \ {0}
    /\ Per \in Nat
    /\ Capacities \subseteq Nat

Producers == 1 .. P
Consumers == 1 .. C
Main      == 0
Values    == Producers \X (1 .. Per)
Nothing   == [v \in Values |-> 0]

VARIABLES
    workload,   \* "mpmc" or "mpsc", and
    capacity,   \* --capacity, for the whole run
    ppc, cpc,   \* where each producer and each consumer is
    mainpc,     \* where the main thread is
    started,    \* StartLine.start: whether the clock has been started
    senders,    \* who holds a Sender
    receivers,  \* who holds a Receiver
    chan,       \* what is in the channel
    next,       \* the next value each producer sends
    sum,        \* what each consumer received
    joined,     \* how many threads have been joined, producers first
    total,      \* the main thread's sum of sums
    reported    \* whether the report has been made

setup   == <<workload, capacity>>
threads == <<ppc, cpc>>
handles == <<senders, receivers>>
result  == <<joined, total, reported>>
vars    == <<setup, threads, mainpc, started, handles, chan, next, sum, result>>

NumConsumers == IF workload = "mpmc" THEN C ELSE 1
RxBorrowed   == workload # "mpmc"

TypeOK ==
    /\ workload \in {"mpmc", "mpsc"}
    /\ capacity \in Capacities
    /\ ppc \in [Producers -> {"new", "barrier", "send", "end"}]
    /\ cpc \in [Consumers -> {"absent", "new", "barrier", "recv", "end"}]
    /\ mainpc \in {"consumers", "producers", "join", "refused"}
    /\ started \in BOOLEAN
    /\ senders \in SUBSET (Producers \cup {Main})
    /\ receivers \in SUBSET (Consumers \cup {Main})
    /\ chan \in Seq(Values)
    /\ Len(chan) <= capacity
    /\ next \in [Producers -> 1 .. Per + 1]
    /\ sum \in [Consumers -> [Values -> Nat]]
    /\ joined \in 0 .. P + C
    /\ total \in [Values -> Nat]
    /\ reported \in BOOLEAN

Init ==
    /\ workload \in {"mpmc", "mpsc"}
    /\ capacity \in Capacities
    /\ ppc = [p \in Producers |-> "new"]
    /\ cpc = [c \in Consumers |-> IF c <= NumConsumers THEN "new" ELSE "absent"]
    /\ mainpc = "consumers"
    /\ started = FALSE
    /\ senders = {Main}
    /\ receivers = {Main}
    /\ chan = <<>>
    /\ next = [p \in Producers |-> 1]
    /\ sum = [c \in Consumers |-> Nothing]
    /\ joined = 0
    /\ total = Nothing
    /\ reported = FALSE

-----------------------------------------------------------------------------
AllArrived ==
    /\ \A p \in Producers : ppc[p] # "new"
    /\ \A c \in Consumers : cpc[c] # "new"

Sending(p) == ppc[p] = "send" /\ next[p] <= Per

Add(c, v) == sum' = [sum EXCEPT ![c][v] = @ + 1]

(* Mistakes.  Each of these is an operation below with one thing wrong,    *)
(* and breaks the property it is named with; none is part of Spec.         *)

\* Terminates: a consumer that takes the end of the channel for a passing
\* error and tries again.
ConsumerRetries(c) ==
    /\ cpc[c] = "recv"
    /\ chan = <<>>
    /\ senders = {}
    /\ UNCHANGED vars

\* EndsCleanly: a consumer that leaves when the channel is empty.
ConsumerEndOnEmpty(c) ==
    /\ cpc[c] = "recv"
    /\ chan = <<>>
    /\ cpc' = [cpc EXCEPT ![c] = "end"]
    /\ receivers' = receivers \ {c}
    /\ UNCHANGED <<setup, ppc, mainpc, started, senders, chan, next, sum, result>>

\* ImplementsExactlyOnce: report when the producers are joined.
ReportAfterProducers ==
    /\ joined >= P
    /\ started
    /\ ~reported
    /\ reported' = TRUE
    /\ UNCHANGED <<setup, threads, mainpc, started, handles, chan, next, sum, joined, total>>

-----------------------------------------------------------------------------
(* The main thread spawns the consumers in order, drops its rx unless they *)
(* borrow it, spawns the producers in order and drops its tx.  The first   *)
(* thing a thread does is wait at the start line, so one that exists is at *)
(* the barrier.                                                            *)

SpawnConsumer(c) ==
    /\ mainpc = "consumers"
    /\ cpc[c] = "new"
    /\ \A d \in 1 .. c - 1 : cpc[d] # "new"
    /\ cpc' = [cpc EXCEPT ![c] = "barrier"]
    /\ receivers' = IF RxBorrowed THEN receivers ELSE receivers \cup {c}
    /\ UNCHANGED <<setup, ppc, mainpc, started, senders, chan, next, sum, result>>

DropRx ==
    /\ mainpc = "consumers"
    /\ \A c \in Consumers : cpc[c] # "new"
    /\ mainpc' = "producers"
    /\ receivers' = IF RxBorrowed THEN receivers ELSE receivers \ {Main}
    /\ UNCHANGED <<setup, threads, started, senders, chan, next, sum, result>>

SpawnProducer(p) ==
    /\ mainpc = "producers"
    /\ ppc[p] = "new"
    /\ \A q \in 1 .. p - 1 : ppc[q] # "new"
    /\ ppc' = [ppc EXCEPT ![p] = "barrier"]
    /\ senders' = senders \cup {p}
    /\ UNCHANGED <<setup, cpc, mainpc, started, receivers, chan, next, sum, result>>

DropTx ==
    /\ mainpc = "producers"
    /\ \A p \in Producers : ppc[p] # "new"
    /\ mainpc' = "join"
    /\ senders' = senders \ {Main}
    /\ UNCHANGED <<setup, threads, started, receivers, chan, next, sum, result>>

(* scope.spawn panics when there is no thread to be had.  The main thread  *)
(* unwinds, which drops the handles it owns, and then the scope waits for  *)
(* the threads it has: those at the barrier, which waits for all.          *)
SpawnRefused ==
    /\ \/ mainpc = "consumers" /\ \E c \in Consumers : cpc[c] = "new"
       \/ mainpc = "producers" /\ \E p \in Producers : ppc[p] = "new"
    /\ mainpc' = "refused"
    /\ senders' = senders \ {Main}
    /\ receivers' = IF RxBorrowed THEN receivers ELSE receivers \ {Main}
    /\ UNCHANGED <<setup, threads, started, chan, next, sum, result>>

\* Until the runner's timeout ends the process.
Stuck == mainpc = "refused" /\ UNCHANGED vars

(* StartLine.go: every thread waits for all, the first one through starts  *)
(* the clock.                                                              *)

ProducerGo(p) ==
    /\ AllArrived
    /\ ppc[p] = "barrier"
    /\ ppc' = [ppc EXCEPT ![p] = "send"]
    /\ started' = TRUE
    /\ UNCHANGED <<setup, cpc, mainpc, handles, chan, next, sum, result>>

ConsumerGo(c) ==
    /\ AllArrived
    /\ cpc[c] = "barrier"
    /\ cpc' = [cpc EXCEPT ![c] = "recv"]
    /\ started' = TRUE
    /\ UNCHANGED <<setup, ppc, mainpc, handles, chan, next, sum, result>>

(* produce and consume.                                                    *)

Send(p) ==
    /\ Sending(p)
    /\ Len(chan) < capacity
    /\ receivers # {}
    /\ chan' = Append(chan, <<p, next[p]>>)
    /\ next' = [next EXCEPT ![p] = @ + 1]
    /\ UNCHANGED <<setup, threads, mainpc, started, handles, sum, result>>

Recv(c) ==
    /\ cpc[c] = "recv"
    /\ chan # <<>>
    /\ Add(c, Head(chan))
    /\ chan' = Tail(chan)
    /\ UNCHANGED <<setup, threads, mainpc, started, handles, next, result>>

(* A channel of capacity 0 passes a value from a waiting sender straight   *)
(* to a waiting receiver.                                                  *)
Handoff(p, c) ==
    /\ capacity = 0
    /\ Sending(p)
    /\ cpc[c] = "recv"
    /\ Add(c, <<p, next[p]>>)
    /\ next' = [next EXCEPT ![p] = @ + 1]
    /\ UNCHANGED <<setup, threads, mainpc, started, handles, chan, result>>

(* The thread's own handle goes when its function returns.                 *)
ProducerEnd(p) ==
    /\ ppc[p] = "send"
    /\ next[p] > Per
    /\ ppc' = [ppc EXCEPT ![p] = "end"]
    /\ senders' = senders \ {p}
    /\ UNCHANGED <<setup, cpc, mainpc, started, receivers, chan, next, sum, result>>

ConsumerEnd(c) ==
    /\ cpc[c] = "recv"
    /\ chan = <<>>
    /\ senders = {}
    /\ cpc' = [cpc EXCEPT ![c] = "end"]
    /\ receivers' = receivers \ {c}
    /\ UNCHANGED <<setup, ppc, mainpc, started, senders, chan, next, sum, result>>

(* The producers are joined in order, then the consumers, whose sums are   *)
(* added up; the report needs a started clock.                             *)

JoinProducer ==
    /\ mainpc = "join"
    /\ joined < P
    /\ ppc[joined + 1] = "end"
    /\ joined' = joined + 1
    /\ UNCHANGED <<setup, threads, mainpc, started, handles, chan, next, sum, total, reported>>

JoinConsumer ==
    /\ mainpc = "join"
    /\ joined \in P .. P + NumConsumers - 1
    /\ cpc[joined - P + 1] = "end"
    /\ total' = [v \in Values |-> total[v] + sum[joined - P + 1][v]]
    /\ joined' = joined + 1
    /\ UNCHANGED <<setup, threads, mainpc, started, handles, chan, next, sum, reported>>

Report ==
    /\ joined = P + NumConsumers
    /\ started
    /\ ~reported
    /\ reported' = TRUE
    /\ UNCHANGED <<setup, threads, mainpc, started, handles, chan, next, sum, joined, total>>

Exited ==
    /\ reported
    /\ UNCHANGED vars

Producer(p) ==
    \/ ProducerGo(p) \/ Send(p) \/ ProducerEnd(p)
    \/ \E c \in Consumers : Handoff(p, c)

Consumer(c) == ConsumerGo(c) \/ Recv(c) \/ ConsumerEnd(c)

MainThread ==
    \/ \E c \in Consumers : SpawnConsumer(c)
    \/ \E p \in Producers : SpawnProducer(p)
    \/ DropRx \/ DropTx
    \/ JoinProducer \/ JoinConsumer \/ Report

Next ==
    \/ \E p \in Producers : Producer(p)
    \/ \E c \in Consumers : Consumer(c)
    \/ MainThread \/ SpawnRefused
    \/ Exited \/ Stuck

Spec == Init /\ [][Next]_vars

(* Every thread that can run is scheduled in the end; a blocked send or    *)
(* receive is retried when the channel changes.  No fairness between the   *)
(* threads waiting on one channel is assumed.                              *)
Fairness ==
    /\ \A p \in Producers : WF_vars(Producer(p))
    /\ \A c \in Consumers : WF_vars(Consumer(c))
    /\ WF_vars(MainThread)

FairSpec == Spec /\ Fairness

-----------------------------------------------------------------------------
(* What must be true of the pipeline.                                      *)

Sent(v)      == v[2] < next[v[1]]
InChannel(v) == \E i \in DOMAIN chan : chan[i] = v
Received(v)  == \E c \in Consumers : sum[c][v] # 0

(* `tx.send(i).unwrap()` never panics: as long as a producer has something *)
(* to send somebody can receive it, also when every consumer owns its      *)
(* receiver and drops it on the way out.                                   *)
SendCannotFail == \A p \in Producers : Sending(p) => receivers # {}

(* A consumer leaves only when everything has been sent and received: the  *)
(* main thread's own Sender, and those of producers that have not started, *)
(* keep the channel open until then.                                       *)
DrainedBeforeEnd ==
    \A c \in Consumers : cpc[c] = "end" =>
        \A v \in Values : Received(v) /\ ~InChannel(v)

(* A thread that is refused leaves nothing half done: those that started   *)
(* stay at the barrier, and no value moves and no report is made.          *)
NobodyStartsShort ==
    /\ started => mainpc \in {"producers", "join"} /\ AllArrived
    /\ mainpc = "refused" =>
          /\ \A p \in Producers : ppc[p] \in {"new", "barrier"}
          /\ \A c \in Consumers : cpc[c] \in {"absent", "new", "barrier"}
          /\ chan = <<>> /\ ~reported

(* From the first spawn to the report: nobody starts before all are there, *)
(* no send fails, no value is left behind, and every value is in the       *)
(* report once.                                                            *)
EndsCleanly ==
    /\ TypeOK
    /\ NobodyStartsShort
    /\ SendCannotFail /\ DrainedBeforeEnd
    /\ reported => total = [v \in Values |-> 1]

(* Every run that gets its threads ends: none waits for a handle that is   *)
(* never dropped, and no consumer or producer for one that has left.       *)
Terminates == <>(reported \/ mainpc = "refused")

ReceivedSet ==
    {v \in Values : \E c \in Consumers :
        sum[c][v] = 1 /\ \A d \in Consumers \ {c} : sum[d][v] = 0}

EO == INSTANCE ExactlyOnce WITH
        units <- Values, accounted <- ReceivedSet, reported <- reported

(* The pipeline does what every workload promises: each value enters the   *)
(* checksum once, and the report comes after all of them.                  *)
ImplementsExactlyOnce == EO!Spec
=============================================================================
