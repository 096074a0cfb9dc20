---------------------------- MODULE TaskPipeline ----------------------------
(***************************************************************************)
(* spsc, many_to_one and mpmc of the three tokio programs (tokio-bench,    *)
(* tokio-tuned-bench, tokio-variants-bench), on any of their channels.     *)
(*                                                                         *)
(* Unlike crossbeam's threads, tasks run as soon as they are spawned:      *)
(* values move while the workload is still spawning, and handles are moved *)
(* into the tasks or cloned and dropped meanwhile.  The programs differ in *)
(* what a consumer does once a receive has woken it:                       *)
(*   "one"    adds the value and awaits the next (consume)                 *)
(*   "drain"  adds what is queued as well, up to Batch (drain_sum)         *)
(*   "batch"  moves it to a buffer, up to Batch, and then adds the buffer  *)
(*            (recv_batch, tokio's recv_many)                              *)
(* A "join" pair runs both sides in one task: its runs are among these.    *)
(***************************************************************************)
EXTENDS Integers, Sequences

CONSTANTS P, C,        \* number of producers and of mpmc's consumers
          Per,         \* values each producer sends
          Batch,       \* BATCH
          Capacities   \* of the channel (tokio's mpsc and async-channel
                       \* refuse 0)

ASSUME TaskPipelineAssumption ==
    /\ {P, C, Batch} \subseteq Nat \ {0}
    /\ Per \in Nat
    /\ Capacities \subseteq Nat \ {0}

Producers == 1 .. P
Consumers == 1 .. C
Main      == 0
Styles    == {"one", "drain", "batch"}

VARIABLES
    workload, style, capacity,  \* for the whole run
    main,       \* what the workload's task is doing
    ppc, cpc,   \* where each producer and each consumer is
    senders,    \* who holds a Sender
    receivers,  \* who holds a Receiver
    chan,       \* what is in the channel
    next,       \* the next value each producer sends
    taken,      \* how many values the consumer took in this wake-up
    buf,        \* the buffer of each consumer
    sum         \* how often each consumer has added up each value

setup   == <<workload, style, capacity>>
tasks   == <<main, ppc, cpc>>
handles == <<senders, receivers>>
local   == <<taken, buf, sum>>
vars    == <<setup, tasks, handles, chan, next, local>>

NumProducers == IF workload = "spsc" THEN 1 ELSE P
NumConsumers == IF workload = "mpmc" THEN C ELSE 1
Values       == Producers \X (1 .. Per)
ToSend       == (1 .. NumProducers) \X (1 .. Per)
Nothing      == [v \in Values |-> 0]

TypeOK ==
    /\ workload \in {"spsc", "mpsc", "mpmc"} /\ style \in Styles /\ capacity \in Capacities
    /\ main \in {"consumers", "producers", "join", "reported"}
    /\ ppc \in [Producers -> {"new", "send", "end"}]
    /\ cpc \in [Consumers -> {"new", "recv", "more", "add", "end"}]
    /\ senders \subseteq Producers \cup {Main}
    /\ receivers \subseteq Consumers \cup {Main}
    /\ chan \in Seq(Values) /\ Len(chan) <= capacity
    /\ next \in [Producers -> 1 .. Per + 1]
    /\ taken \in [Consumers -> 0 .. Batch]
    /\ buf \in [Consumers -> Seq(Values)]
    /\ \A c \in Consumers : Len(buf[c]) <= taken[c]
    /\ sum \in [Consumers -> [Values -> Nat]]

\* spsc spawns its producer first.
Init ==
    /\ workload \in {"spsc", "mpsc", "mpmc"}
    /\ style \in Styles
    /\ capacity \in Capacities
    /\ main = IF workload = "spsc" THEN "producers" ELSE "consumers"
    /\ ppc = [p \in Producers |-> "new"]
    /\ cpc = [c \in Consumers |-> "new"]
    /\ senders = {Main}
    /\ receivers = {Main}
    /\ chan = <<>>
    /\ next = [p \in Producers |-> 1]
    /\ taken = [c \in Consumers |-> 0]
    /\ buf = [c \in Consumers |-> <<>>]
    /\ sum = [c \in Consumers |-> Nothing]

-----------------------------------------------------------------------------
Goto(c, from, to) == cpc[c] = from /\ cpc' = [cpc EXCEPT ![c] = to]

Spawned(pc, n) == \A i \in 1 .. n : pc[i] # "new"

Sending(p) == ppc[p] = "send" /\ next[p] <= Per

Add(c, v) == sum' = [sum EXCEPT ![c][v] = @ + 1]

\* Takes the oldest value, and adds or keeps it.
Take(c) ==
    /\ chan # <<>>
    /\ chan' = Tail(chan)
    /\ IF style = "batch"
       THEN /\ buf' = [buf EXCEPT ![c] = Append(@, Head(chan))]
            /\ UNCHANGED sum
       ELSE /\ Add(c, Head(chan))
            /\ UNCHANGED buf

(* Mistakes.  Each of these is an operation below with one thing wrong,    *)
(* and breaks the property it is named with; none is part of Spec.         *)

\* EndsCleanly: what is in the buffer when the channel ends is forgotten.
StopBatchAtEnd(c) ==
    /\ taken[c] = Batch \/ chan = <<>>
    /\ Goto(c, "more", IF senders = {} /\ chan = <<>> THEN "end" ELSE "add")
    /\ UNCHANGED <<setup, main, ppc, handles, chan, next, local>>

\* ImplementsExactlyOnce: the buffer is added up and not emptied.
AddBufferedKeeping(c) ==
    /\ cpc[c] = "add"
    /\ buf[c] # <<>>
    /\ Add(c, Head(buf[c]))
    /\ UNCHANGED <<setup, tasks, handles, chan, next, taken, buf>>

\* Terminates: a consumer that polls a channel which has ended.
ConsumerPolls(c) ==
    /\ cpc[c] = "recv"
    /\ chan = <<>>
    /\ senders = {}
    /\ UNCHANGED vars

-----------------------------------------------------------------------------
(* The workload's task.  A receiver that only one task needs is moved      *)
(* there, like spsc's sender; the others are cloned, and the original is   *)
(* dropped when all tasks of its kind are spawned.                         *)

SpawnConsumer(c) ==
    /\ main = "consumers"
    /\ c <= NumConsumers
    /\ cpc[c] = "new"
    /\ Spawned(cpc, c - 1)
    /\ cpc' = [cpc EXCEPT ![c] = "recv"]
    /\ receivers' = (receivers \cup {c}) \ IF workload = "mpmc" THEN {} ELSE {Main}
    /\ UNCHANGED <<setup, main, ppc, senders, chan, next, local>>

DropRx ==
    /\ main = "consumers"
    /\ Spawned(cpc, NumConsumers)
    /\ main' = IF workload = "spsc" THEN "join" ELSE "producers"
    /\ receivers' = receivers \ {Main}
    /\ UNCHANGED <<setup, ppc, cpc, senders, chan, next, local>>

SpawnProducer(p) ==
    /\ main = "producers"
    /\ p <= NumProducers
    /\ ppc[p] = "new"
    /\ Spawned(ppc, p - 1)
    /\ ppc' = [ppc EXCEPT ![p] = "send"]
    /\ senders' = (senders \cup {p}) \ IF workload = "spsc" THEN {Main} ELSE {}
    /\ UNCHANGED <<setup, main, cpc, receivers, chan, next, local>>

DropTx ==
    /\ main = "producers"
    /\ Spawned(ppc, NumProducers)
    /\ main' = IF workload = "spsc" THEN "consumers" ELSE "join"
    /\ senders' = senders \ {Main}
    /\ UNCHANGED <<setup, ppc, cpc, receivers, chan, next, local>>

\* Every handle has been awaited: the sums are added up and reported.
Join ==
    /\ main = "join"
    /\ \A p \in 1 .. NumProducers : ppc[p] = "end"
    /\ \A c \in 1 .. NumConsumers : cpc[c] = "end"
    /\ main' = "reported"
    /\ UNCHANGED <<setup, ppc, cpc, handles, chan, next, local>>

(* produce.  A send fails, and the producer panics, when no receiver is    *)
(* left, which EndsCleanly excludes.                                       *)

Send(p) ==
    /\ Sending(p)
    /\ Len(chan) < capacity
    /\ receivers # {}
    /\ chan' = Append(chan, <<p, next[p]>>)
    /\ next' = [next EXCEPT ![p] = @ + 1]
    /\ UNCHANGED <<setup, tasks, handles, local>>

ProducerEnd(p) ==
    /\ ppc[p] = "send"
    /\ next[p] > Per
    /\ ppc' = [ppc EXCEPT ![p] = "end"]
    /\ senders' = senders \ {p}
    /\ UNCHANGED <<setup, main, cpc, receivers, chan, next, local>>

(* consume, drain_sum, recv_batch                                          *)

\* The awaited receive.
Recv(c) ==
    /\ Goto(c, "recv", IF style = "one" THEN "recv" ELSE "more")
    /\ Take(c)
    /\ taken' = [taken EXCEPT ![c] = IF style = "one" THEN 0 ELSE 1]
    /\ UNCHANGED <<setup, main, ppc, handles, next>>

\* Another value, if it is there already.
TryRecv(c) ==
    /\ cpc[c] = "more"
    /\ taken[c] < Batch
    /\ Take(c)
    /\ taken' = [taken EXCEPT ![c] = @ + 1]
    /\ UNCHANGED <<setup, tasks, handles, next>>

StopBatch(c) ==
    /\ taken[c] = Batch \/ chan = <<>>
    /\ Goto(c, "more", IF style = "batch" THEN "add" ELSE "recv")
    /\ taken' = IF style = "batch" THEN taken ELSE [taken EXCEPT ![c] = 0]
    /\ UNCHANGED <<setup, main, ppc, handles, chan, next, buf, sum>>

AddBuffered(c) ==
    /\ cpc[c] = "add"
    /\ buf[c] # <<>>
    /\ Add(c, Head(buf[c]))
    /\ buf' = [buf EXCEPT ![c] = Tail(@)]
    /\ UNCHANGED <<setup, tasks, handles, chan, next, taken>>

BufferEmpty(c) ==
    /\ buf[c] = <<>>
    /\ Goto(c, "add", "recv")
    /\ taken' = [taken EXCEPT ![c] = 0]
    /\ UNCHANGED <<setup, main, ppc, handles, chan, next, buf, sum>>

ConsumerEnd(c) ==
    /\ chan = <<>>
    /\ senders = {}
    /\ Goto(c, "recv", "end")
    /\ receivers' = receivers \ {c}
    /\ UNCHANGED <<setup, main, ppc, senders, chan, next, local>>

Exited == main = "reported" /\ UNCHANGED vars

Producer(p) == Send(p) \/ ProducerEnd(p)

Consumer(c) ==
    \/ Recv(c) \/ TryRecv(c) \/ StopBatch(c)
    \/ AddBuffered(c) \/ BufferEmpty(c) \/ ConsumerEnd(c)

Workload ==
    \/ \E c \in Consumers : SpawnConsumer(c)
    \/ \E p \in Producers : SpawnProducer(p)
    \/ DropRx \/ DropTx \/ Join

Next ==
    \/ \E p \in Producers : Producer(p)
    \/ \E c \in Consumers : Consumer(c)
    \/ Workload
    \/ Exited

Spec == Init /\ [][Next]_vars

(* The runtime polls every task that has been woken, in the end.           *)
FairSpec ==
    /\ Spec
    /\ \A p \in Producers : WF_vars(Producer(p))
    /\ \A c \in Consumers : WF_vars(Consumer(c))
    /\ WF_vars(Workload)

-----------------------------------------------------------------------------
Added(v) == \E c \in Consumers : sum[c][v] # 0

AddedOnce(v) ==
    \E c \in Consumers :
        /\ sum[c][v] = 1
        /\ \A d \in Consumers \ {c} : sum[d][v] = 0

(* `tx.send(i).await.unwrap()` cannot fail: while a producer has something *)
(* to send somebody holds a receiver, although the workload drops its own  *)
(* one while producers run.                                                *)
SendCannotFail == \A p \in Producers : Sending(p) => receivers # {}

(* No consumer leaves before every value has been received and added, even *)
(* when it finds the channel empty before the first producer is spawned.   *)
DrainedBeforeEnd ==
    \A c \in Consumers : cpc[c] = "end" =>
        \A v \in ToSend : Added(v) \/ \E d \in Consumers \ {c} :
            \E i \in DOMAIN buf[d] : buf[d][i] = v

(* Handles end the run cleanly: no send fails and nothing is left behind   *)
(* in the channel or in the buffer of a consumer that has left.            *)
EndsCleanly == TypeOK /\ SendCannotFail /\ DrainedBeforeEnd

(* Every run ends, whatever the consumers do between two receives.         *)
Terminates == <>(main = "reported")

EO == INSTANCE ExactlyOnce WITH
        units <- ToSend,
        accounted <- {v \in Values : AddedOnce(v)},
        reported <- main = "reported"

(* Each value enters one sum, once, before the report.                     *)
ImplementsExactlyOnce == EO!Spec
=============================================================================
