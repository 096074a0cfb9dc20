------------------------ MODULE ScopedPipelineProofs ------------------------
(***************************************************************************)
(* Proofs about ScopedPipeline, for any number of producers, consumers and *)
(* values, any capacity, and whichever thread is refused.                  *)
(***************************************************************************)
EXTENDS ScopedPipeline, SequenceTheorems, TLAPS

\* Who exists, by where the main thread is.  A refused thread never exists, so
\* the others never leave the barrier.
Positions ==
    /\ mainpc = "consumers" => \A p \in Producers : ppc[p] = "new"
    /\ mainpc \in {"producers", "join"} => \A c \in Consumers : cpc[c] # "new"
    /\ mainpc = "join" => \A p \in Producers : ppc[p] # "new"
    /\ mainpc = "refused" => ~AllArrived
    /\ \A c \in Consumers : cpc[c] = "absent" <=> c > NumConsumers
    /\ \A p \in Producers : ppc[p] \in {"send", "end"} => started
    /\ \A c \in Consumers : cpc[c] \in {"recv", "end"} => started
    /\ started => AllArrived

\* Who owns a handle on the channel.
Handles ==
    /\ senders = {p \in Producers : ppc[p] \in {"barrier", "send"}}
                   \cup IF mainpc \in {"consumers", "producers"} THEN {Main} ELSE {}
    /\ receivers = IF RxBorrowed THEN {Main}
                   ELSE {c \in Consumers : cpc[c] \in {"barrier", "recv"}}
                          \cup IF mainpc = "consumers" THEN {Main} ELSE {}

\* Producers leave when they have sent everything, consumers when nobody can
\* send any more and the channel is empty.
Leaving ==
    /\ \A p \in Producers : ppc[p] \in {"new", "barrier"} => next[p] = 1
    /\ \A p \in Producers : ppc[p] = "end" => next[p] = Per + 1
    /\ \A c \in Consumers : cpc[c] = "end" => senders = {} /\ chan = <<>>
    /\ \A c \in Consumers : cpc[c] = "absent" => \A v \in Values : sum[c][v] = 0

Queued(v) == \E i \in 1 .. Len(chan) : chan[i] = v

ReceivedOnce(v) ==
    \E c \in Consumers :
        /\ sum[c][v] = 1
        /\ \A d \in Consumers \ {c} : sum[d][v] = 0

\* A value is unsent, or once in the channel, or once in one consumer's sum.
InOnePlace ==
    /\ \A i, j \in 1 .. Len(chan) : chan[i] = chan[j] => i = j
    /\ \A v \in Values :
          /\ v[2] >= next[v[1]] => ~Queued(v)
          /\ v[2] >= next[v[1]] \/ Queued(v) => \A c \in Consumers : sum[c][v] = 0
          /\ v[2] < next[v[1]] => Queued(v) \/ ReceivedOnce(v)

\* The total is what the joined consumers, which have left, received.
Joins ==
    /\ joined > 0 => mainpc = "join"
    /\ joined <= P + NumConsumers
    /\ reported => joined = P + NumConsumers
    /\ \A c \in Consumers : P + c <= joined => cpc[c] = "end"
    /\ \A v \in Values :
          total[v] = IF \E c \in Consumers : P + c <= joined /\ sum[c][v] # 0 THEN 1 ELSE 0

IInv ==
    /\ TypeOK
    /\ Positions
    /\ Handles
    /\ Leaving
    /\ InOnePlace
    /\ Joins

-----------------------------------------------------------------------------

USE PipelineAssumption

LEMMA NumbersOfThreads ==
    /\ NumConsumers \in 1 .. C
    /\ 1 \in Producers /\ 1 \in Consumers
    /\ Producers \subseteq Nat \ {0} /\ Consumers \subseteq Nat \ {0}
    /\ Main \notin Producers /\ Main \notin Consumers
BY DEF NumConsumers, Producers, Consumers, Main

LEMMA Types ==
    ASSUME TypeOK
    PROVE  /\ ppc \in [Producers -> {"new", "barrier", "send", "end"}]
           /\ cpc \in [Consumers -> {"absent", "new", "barrier", "recv", "end"}]
           /\ workload \in {"mpmc", "mpsc"}
           /\ mainpc \in {"consumers", "producers", "join", "refused"}
           /\ started \in BOOLEAN
           /\ next \in [Producers -> 1 .. Per + 1]
           /\ joined \in 0 .. P + C
BY DEF TypeOK

LEMMA SumTypes ==
    ASSUME TypeOK
    PROVE  /\ sum \in [Consumers -> [Values -> Nat]]
           /\ total \in [Values -> Nat]
           /\ chan \in Seq(Values) /\ Len(chan) \in Nat
           /\ capacity \in Nat /\ Len(chan) <= capacity
BY DEF TypeOK

\* Every step is one of these.
LEMMA NextCases ==
    ASSUME [Next]_vars
    PROVE  \/ \E c \in Consumers : SpawnConsumer(c) \/ ConsumerGo(c) \/ Recv(c) \/ ConsumerEnd(c)
           \/ \E p \in Producers : SpawnProducer(p) \/ ProducerGo(p) \/ Send(p) \/ ProducerEnd(p)
           \/ \E p \in Producers, c \in Consumers : Handoff(p, c)
           \/ DropRx \/ DropTx \/ SpawnRefused
           \/ JoinProducer \/ JoinConsumer \/ Report
           \/ UNCHANGED vars
BY DEF Next, Producer, Consumer, MainThread, Exited, Stuck

LEMMA InitIInv == Init => IInv
<1>. SUFFICES ASSUME Init PROVE IInv
  OBVIOUS
<1>a. Nothing \in [Values -> Nat] /\ \A v \in Values : Nothing[v] = 0
  BY DEF Nothing
<1>1. TypeOK
  <2>1. /\ started \in BOOLEAN /\ reported \in BOOLEAN
        /\ senders \in SUBSET (Producers \cup {Main})
        /\ receivers \in SUBSET (Consumers \cup {Main})
    BY DEF Init
  <2>2. joined \in 0 .. P + C /\ next \in [Producers -> 1 .. Per + 1]
    BY DEF Init
  <2>3. chan \in Seq(Values) /\ Len(chan) <= capacity
    <3>1. chan = <<>> /\ Len(chan) = 0 /\ capacity \in Nat
      BY DEF Init
    <3>. QED  BY <3>1
  <2>4. sum \in [Consumers -> [Values -> Nat]] /\ total \in [Values -> Nat]
    BY <1>a DEF Init
  <2>5. /\ ppc \in [Producers -> {"new", "barrier", "send", "end"}]
        /\ cpc \in [Consumers -> {"absent", "new", "barrier", "recv", "end"}]
        /\ mainpc \in {"consumers", "producers", "join", "refused"}
        /\ workload \in {"mpmc", "mpsc"} /\ capacity \in Capacities
    BY DEF Init
  <2>. QED  BY <2>1, <2>2, <2>3, <2>4, <2>5, Zenon DEF TypeOK
<1>2. Positions
  BY NumbersOfThreads DEF Init, Positions
<1>3. Handles
  BY DEF Init, Handles
<1>4. Leaving
  BY <1>a DEF Init, Leaving
<1>5. InOnePlace
  BY <1>a DEF Init, InOnePlace, Queued, Values, Producers
<1>6. Joins
  BY <1>a, NumbersOfThreads DEF Init, Joins
<1>. QED  BY <1>1, <1>2, <1>3, <1>4, <1>5, <1>6 DEF IInv

\* The start line is passed when all threads have arrived, and they stay.
LEMMA NextPositions == IInv /\ [Next]_vars => Positions'
<1>. SUFFICES ASSUME IInv, [Next]_vars PROVE Positions'
  OBVIOUS
<1>0. TypeOK /\ Positions
  BY DEF IInv
<1>a. /\ ppc \in [Producers -> {"new", "barrier", "send", "end"}]
      /\ cpc \in [Consumers -> {"absent", "new", "barrier", "recv", "end"}]
      /\ mainpc \in {"consumers", "producers", "join", "refused"}
      /\ started \in BOOLEAN
  BY <1>0, Types
<1>b. ASSUME UNCHANGED workload PROVE NumConsumers' = NumConsumers
  BY <1>b DEF NumConsumers
<1>1. ASSUME NEW c \in Consumers, SpawnConsumer(c) PROVE Positions'
  <2>1. /\ UNCHANGED <<workload, ppc, mainpc, started>> /\ mainpc = "consumers"
        /\ cpc[c] = "new" /\ cpc'[c] = "barrier"
        /\ \A d \in Consumers \ {c} : cpc'[d] = cpc[d]
    BY <1>a, <1>1 DEF SpawnConsumer, setup
  <2>2. ~started
    BY <1>0, <2>1 DEF Positions, AllArrived
  <2>. QED  BY <1>0, <1>a, <1>b, <2>1, <2>2 DEF Positions, AllArrived
<1>2. ASSUME NEW p \in Producers, SpawnProducer(p) PROVE Positions'
  <2>1. /\ UNCHANGED <<workload, cpc, mainpc, started>> /\ mainpc = "producers"
        /\ ppc[p] = "new" /\ ppc'[p] = "barrier"
        /\ \A q \in Producers \ {p} : ppc'[q] = ppc[q]
    BY <1>a, <1>2 DEF SpawnProducer, setup
  <2>2. ~started
    BY <1>0, <2>1 DEF Positions, AllArrived
  <2>. QED  BY <1>0, <1>a, <1>b, <2>1, <2>2 DEF Positions, AllArrived
<1>3. CASE DropRx
  <2>1. /\ UNCHANGED <<workload, ppc, cpc, started>>
        /\ mainpc = "consumers" /\ mainpc' = "producers"
        /\ \A c \in Consumers : cpc[c] # "new"
    BY <1>3 DEF DropRx, setup, threads
  <2>. QED  BY <1>0, <1>b, <2>1 DEF Positions, AllArrived
<1>4. CASE DropTx
  <2>1. /\ UNCHANGED <<workload, ppc, cpc, started>>
        /\ mainpc = "producers" /\ mainpc' = "join"
        /\ \A p \in Producers : ppc[p] # "new"
    BY <1>4 DEF DropTx, setup, threads
  <2>. QED  BY <1>0, <1>b, <2>1 DEF Positions, AllArrived
<1>5. CASE SpawnRefused
  <2>1. /\ UNCHANGED <<workload, ppc, cpc, started>> /\ mainpc' = "refused"
        /\ ~AllArrived
    BY <1>5 DEF SpawnRefused, setup, threads, AllArrived
  <2>. QED  BY <1>0, <1>b, <2>1 DEF Positions, AllArrived
<1>6. ASSUME NEW p \in Producers, ProducerGo(p) PROVE Positions'
  <2>1. /\ UNCHANGED <<workload, cpc, mainpc>> /\ started' /\ AllArrived
        /\ ppc[p] = "barrier" /\ ppc'[p] = "send"
        /\ \A q \in Producers \ {p} : ppc'[q] = ppc[q]
    BY <1>a, <1>6 DEF ProducerGo, setup
  <2>. QED  BY <1>0, <1>b, <2>1 DEF Positions, AllArrived
<1>7. ASSUME NEW c \in Consumers, ConsumerGo(c) PROVE Positions'
  <2>1. /\ UNCHANGED <<workload, ppc, mainpc>> /\ started' /\ AllArrived
        /\ cpc[c] = "barrier" /\ cpc'[c] = "recv"
        /\ \A d \in Consumers \ {c} : cpc'[d] = cpc[d]
    BY <1>a, <1>7 DEF ConsumerGo, setup
  <2>. QED  BY <1>0, <1>b, <2>1 DEF Positions, AllArrived
<1>8. ASSUME NEW p \in Producers, ProducerEnd(p) PROVE Positions'
  <2>1. /\ UNCHANGED <<workload, cpc, mainpc, started>>
        /\ ppc[p] = "send" /\ ppc'[p] = "end"
        /\ \A q \in Producers \ {p} : ppc'[q] = ppc[q]
    BY <1>a, <1>8 DEF ProducerEnd, setup
  <2>. QED  BY <1>0, <1>b, <2>1 DEF Positions, AllArrived
<1>9. ASSUME NEW c \in Consumers, ConsumerEnd(c) PROVE Positions'
  <2>1. /\ UNCHANGED <<workload, ppc, mainpc, started>>
        /\ cpc[c] = "recv" /\ cpc'[c] = "end"
        /\ \A d \in Consumers \ {c} : cpc'[d] = cpc[d]
    BY <1>a, <1>9 DEF ConsumerEnd, setup
  <2>. QED  BY <1>0, <1>b, <2>1 DEF Positions, AllArrived
<1>10. ASSUME UNCHANGED <<workload, ppc, cpc, mainpc, started>> PROVE Positions'
  BY <1>0, <1>b, <1>10 DEF Positions, AllArrived
<1>11. ASSUME NEW p \in Producers, NEW c \in Consumers, Send(p) \/ Handoff(p, c) \/ Recv(c)
       PROVE  Positions'
  BY <1>10, <1>11 DEF Send, Handoff, Recv, setup, threads
<1>12. CASE JoinProducer \/ JoinConsumer \/ Report \/ UNCHANGED vars
  BY <1>10, <1>12 DEF JoinProducer, JoinConsumer, Report, vars, setup, threads
<1>. QED
  BY <1>1, <1>2, <1>3, <1>4, <1>5, <1>6, <1>7, <1>8, <1>9, <1>11, <1>12, NextCases,
     NumbersOfThreads

\* A thread owns its handle from its spawn to its end.
LEMMA NextHandles == IInv /\ [Next]_vars => Handles'
<1>. SUFFICES ASSUME IInv, [Next]_vars PROVE Handles'
  OBVIOUS
<1>0. TypeOK /\ Positions /\ Handles
  BY DEF IInv
<1>a. /\ ppc \in [Producers -> {"new", "barrier", "send", "end"}]
      /\ cpc \in [Consumers -> {"absent", "new", "barrier", "recv", "end"}]
  BY <1>0, Types
<1>b. ASSUME UNCHANGED workload PROVE RxBorrowed' = RxBorrowed
  BY <1>b DEF RxBorrowed
<1>1. ASSUME NEW c \in Consumers, SpawnConsumer(c) PROVE Handles'
  <2>1. /\ UNCHANGED <<workload, ppc, mainpc, senders>>
        /\ receivers' = IF RxBorrowed THEN receivers ELSE receivers \cup {c}
        /\ cpc[c] = "new" /\ cpc'[c] = "barrier"
        /\ \A d \in Consumers \ {c} : cpc'[d] = cpc[d]
    BY <1>a, <1>1 DEF SpawnConsumer, setup
  <2>. QED  BY <1>0, <1>b, <2>1 DEF Handles
<1>2. ASSUME NEW p \in Producers, SpawnProducer(p) PROVE Handles'
  <2>1. /\ UNCHANGED <<workload, cpc, mainpc, receivers>>
        /\ senders' = senders \cup {p}
        /\ ppc[p] = "new" /\ ppc'[p] = "barrier"
        /\ \A q \in Producers \ {p} : ppc'[q] = ppc[q]
    BY <1>a, <1>2 DEF SpawnProducer, setup
  <2>. QED  BY <1>0, <1>b, <2>1 DEF Handles
<1>3. CASE DropRx
  <2>1. /\ UNCHANGED <<workload, ppc, cpc, senders>>
        /\ mainpc = "consumers" /\ mainpc' = "producers"
        /\ receivers' = IF RxBorrowed THEN receivers ELSE receivers \ {Main}
    BY <1>3 DEF DropRx, setup, threads
  <2>. QED  BY <1>0, <1>b, <2>1, NumbersOfThreads DEF Handles
<1>4. CASE DropTx
  <2>1. /\ UNCHANGED <<workload, ppc, cpc, receivers>>
        /\ mainpc = "producers" /\ mainpc' = "join"
        /\ senders' = senders \ {Main}
    BY <1>4 DEF DropTx, setup, threads
  <2>. QED  BY <1>0, <1>b, <2>1, NumbersOfThreads DEF Handles
<1>5. CASE SpawnRefused
  <2>1. /\ UNCHANGED <<workload, ppc, cpc>>
        /\ mainpc' = "refused"
        /\ senders' = senders \ {Main}
        /\ receivers' = IF RxBorrowed THEN receivers ELSE receivers \ {Main}
    BY <1>5 DEF SpawnRefused, setup, threads
  <2>. QED  BY <1>0, <1>b, <2>1, NumbersOfThreads DEF Handles
<1>6. ASSUME NEW p \in Producers, ProducerGo(p) PROVE Handles'
  <2>1. /\ UNCHANGED <<workload, cpc, mainpc, senders, receivers>>
        /\ ppc[p] = "barrier" /\ ppc'[p] = "send"
        /\ \A q \in Producers \ {p} : ppc'[q] = ppc[q]
    BY <1>a, <1>6 DEF ProducerGo, setup, handles
  <2>2. {q \in Producers : ppc'[q] \in {"barrier", "send"}}
          = {q \in Producers : ppc[q] \in {"barrier", "send"}}
    BY <2>1
  <2>. QED  BY <1>0, <1>b, <2>1, <2>2 DEF Handles
<1>7. ASSUME NEW c \in Consumers, ConsumerGo(c) PROVE Handles'
  <2>1. /\ UNCHANGED <<workload, ppc, mainpc, senders, receivers>>
        /\ cpc[c] = "barrier" /\ cpc'[c] = "recv"
        /\ \A d \in Consumers \ {c} : cpc'[d] = cpc[d]
    BY <1>a, <1>7 DEF ConsumerGo, setup, handles
  <2>2. {d \in Consumers : cpc'[d] \in {"barrier", "recv"}}
          = {d \in Consumers : cpc[d] \in {"barrier", "recv"}}
    BY <2>1
  <2>. QED  BY <1>0, <1>b, <2>1, <2>2 DEF Handles
<1>8. ASSUME NEW p \in Producers, ProducerEnd(p) PROVE Handles'
  <2>1. /\ UNCHANGED <<workload, cpc, mainpc, receivers>>
        /\ senders' = senders \ {p}
        /\ ppc'[p] = "end"
        /\ \A q \in Producers \ {p} : ppc'[q] = ppc[q]
    BY <1>a, <1>8 DEF ProducerEnd, setup
  <2>2. {q \in Producers : ppc'[q] \in {"barrier", "send"}}
          = {q \in Producers : ppc[q] \in {"barrier", "send"}} \ {p}
    BY <2>1
  <2>3. p # Main
    BY NumbersOfThreads
  <2>. QED  BY <1>0, <1>b, <2>1, <2>2, <2>3 DEF Handles
<1>9. ASSUME NEW c \in Consumers, ConsumerEnd(c) PROVE Handles'
  <2>1. /\ UNCHANGED <<workload, ppc, mainpc, senders>>
        /\ receivers' = receivers \ {c}
        /\ cpc'[c] = "end"
        /\ \A d \in Consumers \ {c} : cpc'[d] = cpc[d]
    BY <1>a, <1>9 DEF ConsumerEnd, setup
  <2>2. {d \in Consumers : cpc'[d] \in {"barrier", "recv"}}
          = {d \in Consumers : cpc[d] \in {"barrier", "recv"}} \ {c}
    BY <2>1
  <2>3. c # Main
    BY NumbersOfThreads
  <2>. QED  BY <1>0, <1>b, <2>1, <2>2, <2>3 DEF Handles
<1>10. ASSUME UNCHANGED <<workload, ppc, cpc, mainpc, senders, receivers>> PROVE Handles'
  BY <1>0, <1>b, <1>10 DEF Handles
<1>11. ASSUME NEW p \in Producers, NEW c \in Consumers, Send(p) \/ Handoff(p, c) \/ Recv(c)
       PROVE  Handles'
  BY <1>10, <1>11 DEF Send, Handoff, Recv, setup, threads, handles
<1>12. CASE JoinProducer \/ JoinConsumer \/ Report \/ UNCHANGED vars
  BY <1>10, <1>12 DEF JoinProducer, JoinConsumer, Report, vars, setup, threads, handles
<1>. QED
  BY <1>1, <1>2, <1>3, <1>4, <1>5, <1>6, <1>7, <1>8, <1>9, <1>11, <1>12, NextCases,
     NumbersOfThreads

\* When nobody can send any more everything has been sent.
LEMMA NoSenderLeft ==
    ASSUME IInv, NEW c \in Consumers, cpc[c] \in {"recv", "end"}, senders = {}
    PROVE  \A p \in Producers : next[p] = Per + 1
<1>1. TypeOK /\ Positions /\ Handles /\ Leaving
  BY DEF IInv
<1>2. AllArrived
  BY <1>1 DEF Positions
<1>3. ASSUME NEW p \in Producers PROVE ppc[p] = "end"
  BY <1>1, <1>2, Types DEF Handles, AllArrived
<1>. QED  BY <1>1, <1>3 DEF Leaving

LEMMA NextLeaving == IInv /\ [Next]_vars => Leaving'
<1>. SUFFICES ASSUME IInv, [Next]_vars PROVE Leaving'
  OBVIOUS
<1>0. TypeOK /\ Positions /\ Handles /\ Leaving
  BY DEF IInv
<1>a. /\ ppc \in [Producers -> {"new", "barrier", "send", "end"}]
      /\ cpc \in [Consumers -> {"absent", "new", "barrier", "recv", "end"}]
      /\ next \in [Producers -> 1 .. Per + 1]
  BY <1>0, Types
<1>1. ASSUME NEW c \in Consumers, SpawnConsumer(c) \/ ConsumerGo(c) PROVE Leaving'
  <2>1. /\ UNCHANGED <<ppc, senders, chan, next, sum>>
        /\ cpc[c] # "absent" /\ cpc'[c] \in {"barrier", "recv"}
        /\ \A d \in Consumers \ {c} : cpc'[d] = cpc[d]
    BY <1>a, <1>1 DEF SpawnConsumer, ConsumerGo, handles
  <2>. QED  BY <1>0, <2>1 DEF Leaving
<1>2. ASSUME NEW p \in Producers, SpawnProducer(p) PROVE Leaving'
  <2>1. /\ UNCHANGED <<cpc, chan, next, sum>>
        /\ mainpc = "producers"
        /\ ppc[p] = "new" /\ ppc'[p] = "barrier"
        /\ \A q \in Producers \ {p} : ppc'[q] = ppc[q]
    BY <1>a, <1>2 DEF SpawnProducer
  <2>2. \A c \in Consumers : cpc[c] # "end"
    BY <1>0, <2>1 DEF Positions, AllArrived
  <2>. QED  BY <1>0, <2>1, <2>2 DEF Leaving
<1>3. CASE DropRx \/ DropTx \/ SpawnRefused
  <2>1. /\ UNCHANGED <<ppc, cpc, chan, next, sum>>
        /\ senders = {} => senders' = {}
    BY <1>3 DEF DropRx, DropTx, SpawnRefused, threads
  <2>. QED  BY <1>0, <2>1 DEF Leaving
<1>4. ASSUME NEW p \in Producers, ProducerGo(p) PROVE Leaving'
  <2>1. /\ UNCHANGED <<cpc, senders, chan, next, sum>>
        /\ ppc'[p] = "send"
        /\ \A q \in Producers \ {p} : ppc'[q] = ppc[q]
    BY <1>a, <1>4 DEF ProducerGo, handles
  <2>. QED  BY <1>0, <2>1 DEF Leaving
<1>5. ASSUME NEW p \in Producers, ProducerEnd(p) PROVE Leaving'
  <2>1. /\ UNCHANGED <<cpc, chan, next, sum>>
        /\ senders = {} => senders' = {}
        /\ ppc'[p] = "end" /\ next[p] = Per + 1
        /\ \A q \in Producers \ {p} : ppc'[q] = ppc[q]
    BY <1>a, <1>5 DEF ProducerEnd
  <2>. QED  BY <1>0, <2>1 DEF Leaving
<1>6. ASSUME NEW c \in Consumers, ConsumerEnd(c) PROVE Leaving'
  <2>1. /\ UNCHANGED <<ppc, senders, chan, next, sum>>
        /\ cpc'[c] = "end" /\ senders = {} /\ chan = <<>>
        /\ \A d \in Consumers \ {c} : cpc'[d] = cpc[d]
    BY <1>a, <1>6 DEF ConsumerEnd
  <2>. QED  BY <1>0, <2>1 DEF Leaving
<1>7. ASSUME NEW p \in Producers, NEW c \in Consumers, Send(p) \/ Handoff(p, c)
      PROVE  Leaving'
  <2>1. /\ UNCHANGED <<ppc, cpc, senders>>
        /\ ppc[p] = "send" /\ \A q \in Producers \ {p} : next'[q] = next[q]
        /\ \A d \in Consumers : cpc[d] # "recv" => sum'[d] = sum[d]
    BY <1>0, <1>a, <1>7, SumTypes DEF Send, Handoff, Sending, Add, threads, handles
  <2>2. p \in senders
    BY <1>0, <2>1 DEF Handles
  <2>. QED  BY <1>0, <2>1, <2>2 DEF Leaving
<1>8. ASSUME NEW c \in Consumers, Recv(c) PROVE Leaving'
  <2>1. /\ UNCHANGED <<ppc, cpc, senders, next>> /\ chan # <<>>
        /\ \A d \in Consumers : cpc[d] # "recv" => sum'[d] = sum[d]
    BY <1>0, <1>8, SumTypes DEF Recv, Add, threads, handles
  <2>. QED  BY <1>0, <2>1 DEF Leaving
<1>9. CASE JoinProducer \/ JoinConsumer \/ Report \/ UNCHANGED vars
  BY <1>0, <1>9 DEF JoinProducer, JoinConsumer, Report, vars, threads, handles, Leaving
<1>. QED
  BY <1>1, <1>2, <1>3, <1>4, <1>5, <1>6, <1>7, <1>8, <1>9, NextCases, NumbersOfThreads

-----------------------------------------------------------------------------
(* A value moves from its producer to the channel and on to a consumer, or *)
(* straight to the consumer.                                               *)

LEMMA Pairs ==
    /\ \A v \in Values : v[1] \in Producers /\ v[2] \in 1 .. Per /\ v = <<v[1], v[2]>>
    /\ \A p \in Producers, i \in 1 .. Per :
          <<p, i>> \in Values /\ <<p, i>>[1] = p /\ <<p, i>>[2] = i
BY DEF Values

\* The value a producer sends next has not been sent.
LEMMA NextIsUnsent ==
    ASSUME IInv, NEW p \in Producers, Sending(p)
    PROVE  /\ <<p, next[p]>> \in Values
           /\ ~Queued(<<p, next[p]>>)
           /\ \A c \in Consumers : sum[c][<<p, next[p]>>] = 0
<1>1. TypeOK /\ InOnePlace
  BY DEF IInv
<1>2. next[p] \in 1 .. Per
  BY <1>1, Types DEF Sending
<1>. QED  BY <1>1, <1>2, Pairs DEF InOnePlace

\* With `next` one further, one more value is sent.
LEMMA OneMoreSent ==
    ASSUME TypeOK, NEW p \in Producers, Sending(p), next' = [next EXCEPT ![p] = @ + 1],
           NEW v \in Values
    PROVE  v[2] < next'[v[1]] <=> v[2] < next[v[1]] \/ v = <<p, next[p]>>
<1>1. /\ v[1] \in Producers /\ v[2] \in 1 .. Per /\ v = <<v[1], v[2]>>
      /\ next[p] \in 1 .. Per + 1 /\ next[v[1]] \in 1 .. Per + 1
  BY Pairs, Types
<1>2. CASE v[1] = p
  <2>1. next'[v[1]] = next[p] + 1
    BY <1>2, Types
  <2>2. v = <<p, next[p]>> <=> v[2] = next[p]
    BY <1>1, <1>2
  <2>. QED  BY <1>1, <1>2, <2>1, <2>2
<1>3. CASE v[1] # p
  <2>1. next'[v[1]] = next[v[1]]
    BY <1>1, <1>3, Types
  <2>2. v # <<p, next[p]>>
    BY <1>1, <1>3
  <2>. QED  BY <2>1, <2>2
<1>. QED  BY <1>2, <1>3

LEMMA SendKeeps ==
    ASSUME IInv, NEW p \in Producers, Send(p)
    PROVE  InOnePlace'
<1>0. TypeOK /\ InOnePlace /\ Sending(p)
  BY DEF IInv, Send
<1>. DEFINE u == <<p, next[p]>>
<1>1. /\ u \in Values /\ ~Queued(u)
      /\ \A c \in Consumers : sum[c][u] = 0
  BY <1>0, NextIsUnsent
<1>2. /\ chan' = Append(chan, u) /\ sum' = sum
      /\ next' = [next EXCEPT ![p] = @ + 1]
  BY DEF Send
<1>3. /\ Len(chan') = Len(chan) + 1 /\ chan'[Len(chan) + 1] = u
      /\ \A i \in 1 .. Len(chan) : chan'[i] = chan[i]
      /\ Len(chan) \in Nat
  BY <1>0, <1>1, <1>2, SumTypes, AppendProperties
<1>. HIDE DEF u
<1>4. \A i, j \in 1 .. Len(chan') : chan'[i] = chan'[j] => i = j
  BY <1>0, <1>1, <1>3 DEF InOnePlace, Queued
<1>5. ASSUME NEW v \in Values PROVE Queued(v)' <=> Queued(v) \/ v = u
  BY <1>3 DEF Queued
<1>6. ASSUME NEW v \in Values PROVE ReceivedOnce(v)' <=> ReceivedOnce(v)
  BY <1>2 DEF ReceivedOnce
<1>7. ASSUME NEW v \in Values
      PROVE  /\ v[2] < next'[v[1]] <=> v[2] < next[v[1]] \/ v = u
             /\ v[2] \in Nat /\ next[v[1]] \in Nat /\ next'[v[1]] \in Nat
  <2>1. v[1] \in Producers /\ v[2] \in Nat
    BY Pairs
  <2>2. next \in [Producers -> Nat] /\ next' \in [Producers -> Nat]
    BY <1>0, <1>2, Types
  <2>. QED  BY <1>0, <1>2, <2>1, <2>2, OneMoreSent DEF u
<1>8. ASSUME NEW v \in Values
      PROVE  /\ v[2] >= next'[v[1]] => ~Queued(v)'
             /\ v[2] >= next'[v[1]] \/ Queued(v)' => \A c \in Consumers : sum'[c][v] = 0
             /\ v[2] < next'[v[1]] => Queued(v)' \/ ReceivedOnce(v)'
  BY <1>0, <1>1, <1>2, <1>5, <1>6, <1>7 DEF InOnePlace
<1>. QED  BY <1>4, <1>8 DEF InOnePlace

\* Both ways to receive: a value that is nowhere else gets into one sum.
LEMMA ReceiveOnce ==
    ASSUME TypeOK, NEW c \in Consumers, NEW u \in Values, Add(c, u),
           \A d \in Consumers : sum[d][u] = 0
    PROVE  /\ ReceivedOnce(u)' /\ ~ReceivedOnce(u)
           /\ \A v \in Values \ {u} :
                 /\ \A d \in Consumers : sum'[d][v] = sum[d][v]
                 /\ ReceivedOnce(v)' <=> ReceivedOnce(v)
<1>1. \A d \in Consumers, v \in Values :
         sum'[d][v] = IF d = c /\ v = u THEN sum[d][v] + 1 ELSE sum[d][v]
  BY SumTypes DEF Add
<1>2. sum'[c][u] = 1 /\ \A d \in Consumers \ {c} : sum'[d][u] = 0
  BY <1>1
<1>3. ReceivedOnce(u)'
  BY <1>2 DEF ReceivedOnce
<1>4. ~ReceivedOnce(u)
  BY DEF ReceivedOnce
<1>5. ASSUME NEW v \in Values \ {u}
      PROVE  /\ \A d \in Consumers : sum'[d][v] = sum[d][v]
             /\ ReceivedOnce(v)' <=> ReceivedOnce(v)
  BY <1>1 DEF ReceivedOnce
<1>. QED  BY <1>3, <1>4, <1>5

LEMMA HandoffKeeps ==
    ASSUME IInv, NEW p \in Producers, NEW c \in Consumers, Handoff(p, c)
    PROVE  InOnePlace'
<1>0. TypeOK /\ InOnePlace /\ Sending(p)
  BY DEF IInv, Handoff
<1>1. PICK u \in Values :
         /\ u = <<p, next[p]>> /\ ~Queued(u)
         /\ \A d \in Consumers : sum[d][u] = 0
  BY <1>0, NextIsUnsent
<1>2. /\ chan' = chan /\ Add(c, u)
      /\ next' = [next EXCEPT ![p] = @ + 1]
  BY <1>1 DEF Handoff
<1>3. ASSUME NEW v \in Values
      PROVE  /\ v[2] < next'[v[1]] <=> v[2] < next[v[1]] \/ v = u
             /\ v[2] \in Nat /\ next[v[1]] \in Nat /\ next'[v[1]] \in Nat
  <2>1. v[1] \in Producers /\ v[2] \in Nat
    BY Pairs
  <2>2. next \in [Producers -> Nat] /\ next' \in [Producers -> Nat]
    BY <1>0, <1>2, Types
  <2>. QED  BY <1>0, <1>1, <1>2, <2>1, <2>2, OneMoreSent
<1>4. /\ ReceivedOnce(u)'
      /\ \A v \in Values \ {u} :
            /\ \A d \in Consumers : sum'[d][v] = sum[d][v]
            /\ ReceivedOnce(v)' <=> ReceivedOnce(v)
  BY <1>0, <1>1, <1>2, ReceiveOnce
<1>5. ASSUME NEW v \in Values PROVE Queued(v)' <=> Queued(v)
  BY <1>2 DEF Queued
<1>6. ASSUME NEW v \in Values
      PROVE  /\ v[2] >= next'[v[1]] => ~Queued(v)'
             /\ v[2] >= next'[v[1]] \/ Queued(v)' => \A d \in Consumers : sum'[d][v] = 0
             /\ v[2] < next'[v[1]] => Queued(v)' \/ ReceivedOnce(v)'
  <2>1. CASE v = u
    BY <1>1, <1>3, <1>4, <1>5, <2>1
  <2>2. CASE v # u
    BY <1>0, <1>3, <1>4, <1>5, <2>2 DEF InOnePlace
  <2>. QED  BY <2>1, <2>2
<1>7. \A i, j \in 1 .. Len(chan') : chan'[i] = chan'[j] => i = j
  BY <1>0, <1>2 DEF InOnePlace
<1>. QED  BY <1>6, <1>7 DEF InOnePlace

LEMMA RecvKeeps ==
    ASSUME IInv, NEW c \in Consumers, Recv(c)
    PROVE  InOnePlace'
<1>0. TypeOK /\ InOnePlace /\ chan # <<>>
  BY DEF IInv, Recv
<1>a. PICK u \in Values : u = Head(chan)
  BY <1>0, SumTypes, HeadTailProperties
<1>1. chan' = Tail(chan) /\ Add(c, u) /\ next' = next
  BY <1>a DEF Recv
<1>2. /\ u = chan[1] /\ Len(chan) \in Nat \ {0}
      /\ Len(chan') = Len(chan) - 1
      /\ \A i \in 1 .. Len(chan') : chan'[i] = chan[i + 1]
  BY <1>0, <1>a, <1>1, SumTypes, HeadTailProperties, EmptySeq
<1>3. Queued(u)
  BY <1>2 DEF Queued
<1>4. \A d \in Consumers : sum[d][u] = 0
  BY <1>0, <1>2, <1>3 DEF InOnePlace
<1>5. /\ ReceivedOnce(u)'
      /\ \A v \in Values \ {u} :
            /\ \A d \in Consumers : sum'[d][v] = sum[d][v]
            /\ ReceivedOnce(v)' <=> ReceivedOnce(v)
  BY <1>0, <1>1, <1>2, <1>4, ReceiveOnce
<1>6. \A i, j \in 1 .. Len(chan') : chan'[i] = chan'[j] => i = j
  <2>. SUFFICES ASSUME NEW i \in 1 .. Len(chan'), NEW j \in 1 .. Len(chan'),
                       chan'[i] = chan'[j]
                PROVE  i = j
    OBVIOUS
  <2>1. i + 1 \in 1 .. Len(chan) /\ j + 1 \in 1 .. Len(chan)
    BY <1>2
  <2>2. chan[i + 1] = chan[j + 1]
    BY <1>2
  <2>3. i + 1 = j + 1
    BY <1>0, <2>1, <2>2 DEF InOnePlace
  <2>. QED  BY <2>3
<1>7. ASSUME NEW v \in Values PROVE Queued(v)' <=> Queued(v) /\ v # u
  <2>1. ASSUME Queued(v)' PROVE Queued(v) /\ v # u
    <3>1. PICK i \in 1 .. Len(chan') : chan'[i] = v
      BY <2>1 DEF Queued
    <3>2. i + 1 \in 1 .. Len(chan) /\ chan[i + 1] = v /\ i + 1 # 1
      BY <1>2, <3>1
    <3>3. 1 \in 1 .. Len(chan)
      BY <1>2
    <3>4. v # chan[1]
      BY <1>0, <3>2, <3>3 DEF InOnePlace
    <3>. QED  BY <1>2, <3>2, <3>4 DEF Queued
  <2>2. ASSUME Queued(v), v # u PROVE Queued(v)'
    <3>1. PICK i \in 1 .. Len(chan) : chan[i] = v
      BY <2>2 DEF Queued
    <3>2. i # 1
      BY <1>2, <2>2, <3>1
    <3>3. i - 1 \in 1 .. Len(chan') /\ chan'[i - 1] = chan[(i - 1) + 1]
      BY <1>2, <3>2
    <3>4. (i - 1) + 1 = i
      OBVIOUS
    <3>. QED  BY <3>1, <3>3, <3>4 DEF Queued
  <2>. QED  BY <2>1, <2>2
<1>8. ASSUME NEW v \in Values
      PROVE  /\ v[2] >= next'[v[1]] => ~Queued(v)'
             /\ v[2] >= next'[v[1]] \/ Queued(v)' => \A d \in Consumers : sum'[d][v] = 0
             /\ v[2] < next'[v[1]] => Queued(v)' \/ ReceivedOnce(v)'
  <2>1. CASE v = u
    <3>1. ~(v[2] >= next[v[1]])
      BY <1>0, <1>2, <1>3, <2>1 DEF InOnePlace
    <3>. QED  BY <1>1, <1>5, <1>7, <2>1, <3>1
  <2>2. CASE v # u
    BY <1>0, <1>1, <1>5, <1>7, <2>2 DEF InOnePlace
  <2>. QED  BY <2>1, <2>2
<1>. QED  BY <1>6, <1>8 DEF InOnePlace

LEMMA NextInOnePlace == IInv /\ [Next]_vars => InOnePlace'
<1>. SUFFICES ASSUME IInv, [Next]_vars PROVE InOnePlace'
  OBVIOUS
<1>1. ASSUME UNCHANGED <<chan, next, sum>> PROVE InOnePlace'
  BY <1>1 DEF IInv, InOnePlace, Queued, ReceivedOnce
<1>2. CASE DropRx \/ DropTx \/ SpawnRefused \/ JoinProducer \/ JoinConsumer \/ Report
           \/ UNCHANGED vars
  BY <1>1, <1>2 DEF DropRx, DropTx, SpawnRefused, JoinProducer, JoinConsumer, Report, vars
<1>3. ASSUME NEW p \in Producers, SpawnProducer(p) \/ ProducerGo(p) \/ ProducerEnd(p)
      PROVE  InOnePlace'
  BY <1>1, <1>3 DEF SpawnProducer, ProducerGo, ProducerEnd
<1>4. ASSUME NEW c \in Consumers, SpawnConsumer(c) \/ ConsumerGo(c) \/ ConsumerEnd(c)
      PROVE  InOnePlace'
  BY <1>1, <1>4 DEF SpawnConsumer, ConsumerGo, ConsumerEnd
<1>. QED
  BY <1>2, <1>3, <1>4, SendKeeps, HandoffKeeps, RecvKeeps, NextCases

-----------------------------------------------------------------------------
(* The main thread's total.                                                *)

\* A consumer leaves when everything has been received.
LEMMA EndedMeansReceived ==
    ASSUME IInv, NEW c \in Consumers, cpc[c] = "end"
    PROVE  /\ chan = <<>>
           /\ \A v \in Values : ReceivedOnce(v)
<1>1. TypeOK /\ Leaving /\ InOnePlace
  BY DEF IInv
<1>2. chan = <<>> /\ senders = {}
  BY <1>1 DEF Leaving
<1>3. ASSUME NEW v \in Values PROVE ReceivedOnce(v)
  <2>1. v[1] \in Producers /\ v[2] \in 1 .. Per
    BY Pairs
  <2>2. next[v[1]] = Per + 1
    BY <1>2, <2>1, NoSenderLeft
  <2>3. ~Queued(v)
    BY <1>2 DEF Queued
  <2>. QED  BY <1>1, <2>1, <2>2, <2>3 DEF InOnePlace
<1>. QED  BY <1>2, <1>3

LEMMA JoinConsumerAdds ==
    ASSUME IInv, JoinConsumer
    PROVE  Joins'
<1>0. TypeOK /\ Joins
  BY DEF IInv
<1>a. /\ joined \in Nat /\ total \in [Values -> Nat] /\ sum \in [Consumers -> [Values -> Nat]]
  BY <1>0, Types, SumTypes
<1>1. PICK c \in Consumers :
         /\ c = joined - P + 1 /\ c <= NumConsumers /\ cpc[c] = "end"
         /\ \A v \in Values : total'[v] = total[v] + sum[c][v]
  <2>1. joined - P + 1 \in 1 .. NumConsumers /\ joined - P + 1 \in Consumers
    BY <1>a, NumbersOfThreads DEF JoinConsumer, Consumers
  <2>2. cpc[joined - P + 1] = "end"
    BY DEF JoinConsumer
  <2>3. \A v \in Values : total'[v] = total[v] + sum[joined - P + 1][v]
    BY DEF JoinConsumer
  <2>. QED  BY <2>1, <2>2, <2>3
<1>2. /\ UNCHANGED <<workload, mainpc, cpc, sum, reported>> /\ mainpc = "join"
      /\ joined' = joined + 1 /\ joined < P + NumConsumers
  BY <1>a, NumbersOfThreads DEF JoinConsumer, setup, threads
<1>3. NumConsumers' = NumConsumers /\ NumConsumers \in Nat
  BY <1>2, NumbersOfThreads DEF NumConsumers
<1>4. \A d \in Consumers : P + d <= joined' <=> P + d <= joined \/ d = c
  BY <1>a, <1>1, <1>2, NumbersOfThreads
<1>5. ASSUME NEW v \in Values
      PROVE  total'[v] = IF \E d \in Consumers : P + d <= joined' /\ sum[d][v] # 0
                         THEN 1 ELSE 0
  <2>1. PICK e \in Consumers : sum[e][v] = 1 /\ \A d \in Consumers \ {e} : sum[d][v] = 0
    BY <1>1, EndedMeansReceived DEF ReceivedOnce
  <2>2. total'[v] = total[v] + sum[c][v]
    BY <1>1
  <2>3. total[v] = IF \E d \in Consumers : P + d <= joined /\ sum[d][v] # 0 THEN 1 ELSE 0
    BY <1>0 DEF Joins
  <2>4. ~(P + c <= joined)
    BY <1>a, <1>1
  <2>5. CASE e = c
    <3>1. total[v] = 0
      BY <2>1, <2>3, <2>4, <2>5
    <3>2. sum[c][v] = 1
      BY <2>1, <2>5
    <3>. QED  BY <1>4, <2>2, <3>1, <3>2
  <2>6. CASE e # c
    <3>1. sum[c][v] = 0
      BY <2>1, <2>6
    <3>2. total'[v] = total[v]
      BY <1>a, <2>2, <3>1
    <3>. QED  BY <1>4, <2>3, <3>1, <3>2
  <2>. QED  BY <2>5, <2>6
<1>6. ~reported
  BY <1>0, <1>2, <1>3 DEF Joins
<1>. QED  BY <1>0, <1>1, <1>2, <1>3, <1>4, <1>5, <1>6, <1>a DEF Joins

LEMMA NextJoins == IInv /\ [Next]_vars => Joins'
<1>. SUFFICES ASSUME IInv, [Next]_vars PROVE Joins'
  OBVIOUS
<1>0. TypeOK /\ Joins /\ Positions
  BY DEF IInv
<1>a. /\ cpc \in [Consumers -> {"absent", "new", "barrier", "recv", "end"}]
      /\ joined \in Nat /\ sum \in [Consumers -> [Values -> Nat]]
  BY <1>0, Types, SumTypes
<1>b. ASSUME UNCHANGED workload PROVE NumConsumers' = NumConsumers
  BY <1>b DEF NumConsumers
<1>1. ASSUME UNCHANGED <<workload, mainpc, joined, reported, total>>,
             \A c \in Consumers : cpc[c] = "end" => cpc'[c] = "end" /\ sum'[c] = sum[c]
      PROVE  Joins'
  <2>1. \A c \in Consumers : P + c <= joined => cpc'[c] = "end" /\ sum'[c] = sum[c]
    BY <1>0, <1>1 DEF Joins
  <2>. QED  BY <1>0, <1>1, <1>b, <2>1 DEF Joins
<1>2. ASSUME NEW c \in Consumers, SpawnConsumer(c) \/ ConsumerGo(c) \/ ConsumerEnd(c)
      PROVE  Joins'
  <2>1. /\ UNCHANGED <<workload, mainpc, joined, reported, total, sum>>
        /\ cpc[c] # "end"
        /\ \A d \in Consumers \ {c} : cpc'[d] = cpc[d]
    BY <1>a, <1>2 DEF SpawnConsumer, ConsumerGo, ConsumerEnd, setup, result
  <2>. QED  BY <1>1, <2>1
<1>3. ASSUME NEW p \in Producers, SpawnProducer(p) \/ ProducerGo(p) \/ ProducerEnd(p)
      PROVE  Joins'
  BY <1>1, <1>3 DEF SpawnProducer, ProducerGo, ProducerEnd, setup, result
<1>4. ASSUME NEW p \in Producers, NEW c \in Consumers, Send(p) \/ Handoff(p, c) \/ Recv(c)
      PROVE  Joins'
  <2>1. /\ UNCHANGED <<workload, mainpc, joined, reported, total, cpc>>
        /\ \A d \in Consumers : cpc[d] = "end" => sum'[d] = sum[d]
    BY <1>a, <1>4 DEF Send, Handoff, Recv, Add, setup, threads, result
  <2>. QED  BY <1>1, <2>1
<1>5. CASE DropRx \/ DropTx \/ SpawnRefused
  <2>1. /\ UNCHANGED <<workload, joined, reported, total, sum, cpc>>
        /\ mainpc # "join"
    BY <1>5 DEF DropRx, DropTx, SpawnRefused, setup, threads, result
  <2>. QED  BY <1>0, <1>b, <2>1 DEF Joins
<1>6. CASE JoinProducer
  <2>1. /\ UNCHANGED <<workload, mainpc, reported, total, sum, cpc>>
        /\ mainpc = "join" /\ joined < P /\ joined' = joined + 1
    BY <1>6 DEF JoinProducer, setup, threads
  <2>2. \A c \in Consumers : ~(P + c <= joined) /\ ~(P + c <= joined')
    BY <1>a, <2>1, NumbersOfThreads
  <2>3. NumConsumers' = NumConsumers /\ NumConsumers \in Nat \ {0}
    BY <1>b, <2>1, NumbersOfThreads
  <2>. QED  BY <1>0, <1>a, <2>1, <2>2, <2>3 DEF Joins
<1>7. CASE JoinConsumer
  BY <1>7, JoinConsumerAdds
<1>8. CASE Report
  BY <1>0, <1>b, <1>8 DEF Report, Joins, setup, threads
<1>9. CASE UNCHANGED vars
  BY <1>1, <1>9 DEF vars, setup, threads, result
<1>. QED
  BY <1>2, <1>3, <1>4, <1>5, <1>6, <1>7, <1>8, <1>9, NextCases, NumbersOfThreads

-----------------------------------------------------------------------------

LEMMA NextTypeOK == IInv /\ [Next]_vars => TypeOK'
<1>. SUFFICES ASSUME IInv, [Next]_vars PROVE TypeOK'
  OBVIOUS
<1>0. TypeOK /\ Joins'
  BY NextJoins DEF IInv
<1>. DEFINE Setup  == workload \in {"mpmc", "mpsc"} /\ capacity \in Capacities
            Places == /\ mainpc \in {"consumers", "producers", "join", "refused"}
                      /\ ppc \in [Producers -> {"new", "barrier", "send", "end"}]
                      /\ cpc \in [Consumers -> {"absent", "new", "barrier", "recv", "end"}]
                      /\ started \in BOOLEAN /\ reported \in BOOLEAN
            Owners == /\ senders \in SUBSET (Producers \cup {Main})
                      /\ receivers \in SUBSET (Consumers \cup {Main})
            Queue  == chan \in Seq(Values) /\ Len(chan) <= capacity
            Nexts  == next \in [Producers -> 1 .. Per + 1]
            Sums   == sum \in [Consumers -> [Values -> Nat]]
            Total  == joined \in 0 .. P + C /\ total \in [Values -> Nat]
<1>1. Setup /\ Places /\ Owners /\ Queue /\ Nexts /\ Sums /\ Total
  BY <1>0, Zenon DEF TypeOK
<1>2. SUFFICES (Setup /\ Places /\ Owners /\ Queue /\ Nexts /\ Sums /\ Total)'
  BY Zenon DEF TypeOK
<1>3. ASSUME NEW c \in Consumers, SpawnConsumer(c) \/ ConsumerGo(c) \/ ConsumerEnd(c)
      PROVE  (Setup /\ Places /\ Owners /\ Queue /\ Nexts /\ Sums /\ Total)'
  <2>1. UNCHANGED <<setup, mainpc, ppc, senders, chan, next, sum, result>>
    BY <1>3 DEF SpawnConsumer, ConsumerGo, ConsumerEnd, handles
  <2>2. Places'
    BY <1>1, <1>3, <2>1 DEF SpawnConsumer, ConsumerGo, ConsumerEnd, result
  <2>3. Owners'
    BY <1>1, <1>3, <2>1 DEF SpawnConsumer, ConsumerGo, ConsumerEnd, handles
  <2>. QED  BY <1>1, <2>1, <2>2, <2>3 DEF setup, result
<1>4. ASSUME NEW p \in Producers, SpawnProducer(p) \/ ProducerGo(p) \/ ProducerEnd(p)
      PROVE  (Setup /\ Places /\ Owners /\ Queue /\ Nexts /\ Sums /\ Total)'
  <2>1. UNCHANGED <<setup, mainpc, cpc, receivers, chan, next, sum, result>>
    BY <1>4 DEF SpawnProducer, ProducerGo, ProducerEnd, handles
  <2>2. Places'
    BY <1>1, <1>4, <2>1 DEF SpawnProducer, ProducerGo, ProducerEnd, result
  <2>3. Owners'
    BY <1>1, <1>4, <2>1 DEF SpawnProducer, ProducerGo, ProducerEnd, handles
  <2>. QED  BY <1>1, <2>1, <2>2, <2>3 DEF setup, result
<1>5. CASE DropRx \/ DropTx \/ SpawnRefused
  <2>1. UNCHANGED <<setup, threads, started, chan, next, sum, result>>
    BY <1>5 DEF DropRx, DropTx, SpawnRefused
  <2>2. mainpc' \in {"consumers", "producers", "join", "refused"}
    BY <1>5 DEF DropRx, DropTx, SpawnRefused
  <2>3. Owners'
    BY <1>1, <1>5 DEF DropRx, DropTx, SpawnRefused
  <2>. QED  BY <1>1, <2>1, <2>2, <2>3 DEF setup, threads, result
<1>6. CASE JoinProducer \/ JoinConsumer \/ Report \/ UNCHANGED vars
  <2>1. UNCHANGED <<setup, threads, mainpc, started, handles, chan, next, sum>>
    BY <1>6 DEF JoinProducer, JoinConsumer, Report, vars
  <2>2. joined' \in 0 .. P + C /\ reported' \in BOOLEAN
    <3>1. joined' \in Nat
      BY <1>1, <1>6 DEF JoinProducer, JoinConsumer, Report, vars, result
    <3>2. PICK n \in 1 .. C : n = NumConsumers'
      BY <2>1, NumbersOfThreads DEF NumConsumers, setup
    <3>3. joined' <= P + n
      BY <1>0, <3>2 DEF Joins
    <3>4. joined' <= P + C
      BY <3>1, <3>3
    <3>5. reported' \in BOOLEAN
      BY <1>1, <1>6 DEF JoinProducer, JoinConsumer, Report, vars, result
    <3>. QED  BY <3>1, <3>4, <3>5
  <2>3. total' \in [Values -> Nat]
    <3>1. CASE JoinConsumer
      <4>1. PICK c \in Consumers : c = joined - P + 1
        BY <1>1, <3>1, NumbersOfThreads DEF JoinConsumer, Consumers
      <4>2. total' = [v \in Values |-> total[v] + sum[c][v]]
        BY <3>1, <4>1 DEF JoinConsumer
      <4>. QED  BY <1>1, <4>2
    <3>2. CASE JoinProducer \/ Report \/ UNCHANGED vars
      BY <1>1, <3>2 DEF JoinProducer, Report, vars, result
    <3>. QED  BY <1>6, <3>1, <3>2
  <2>. QED  BY <1>1, <2>1, <2>2, <2>3 DEF setup, threads, handles
<1>7. ASSUME NEW p \in Producers, Sending(p), next' = [next EXCEPT ![p] = @ + 1] PROVE Nexts'
  <2>1. next[p] + 1 \in 1 .. Per + 1
    BY <1>1, <1>7 DEF Sending
  <2>. QED  BY <1>1, <1>7, <2>1
<1>8. ASSUME NEW c \in Consumers, NEW v \in Values, Add(c, v) PROVE Sums'
  BY <1>1, <1>8 DEF Add
<1>9. ASSUME NEW p \in Producers, Send(p)
      PROVE  (Setup /\ Places /\ Owners /\ Queue /\ Nexts /\ Sums /\ Total)'
  <2>1. UNCHANGED <<setup, threads, mainpc, started, handles, sum, result>>
    BY <1>9 DEF Send
  <2>2. Nexts' /\ <<p, next[p]>> \in Values
    BY <1>7, <1>9, NextIsUnsent DEF Send
  <2>3. /\ chan' \in Seq(Values) /\ Len(chan') = Len(chan) + 1
        /\ Len(chan) < capacity /\ Len(chan) \in Nat /\ capacity \in Nat
    BY <1>0, <1>1, <1>9, <2>2, SumTypes, AppendProperties DEF Send
  <2>. QED  BY <1>1, <2>1, <2>2, <2>3 DEF setup, threads, handles, result
<1>10. ASSUME NEW p \in Producers, NEW c \in Consumers, Handoff(p, c)
       PROVE  (Setup /\ Places /\ Owners /\ Queue /\ Nexts /\ Sums /\ Total)'
  <2>1. UNCHANGED <<setup, threads, mainpc, started, handles, chan, result>>
    BY <1>10 DEF Handoff
  <2>2. Nexts' /\ <<p, next[p]>> \in Values
    BY <1>7, <1>10, NextIsUnsent DEF Handoff
  <2>3. Sums'
    BY <1>8, <1>10, <2>2 DEF Handoff
  <2>. QED  BY <1>1, <2>1, <2>2, <2>3 DEF setup, threads, handles, result
<1>11. ASSUME NEW c \in Consumers, Recv(c)
       PROVE  (Setup /\ Places /\ Owners /\ Queue /\ Nexts /\ Sums /\ Total)'
  <2>1. UNCHANGED <<setup, threads, mainpc, started, handles, next, result>>
    BY <1>11 DEF Recv
  <2>2. /\ Head(chan) \in Values /\ chan' \in Seq(Values) /\ Len(chan') = Len(chan) - 1
        /\ Len(chan) \in Nat /\ capacity \in Nat
    BY <1>0, <1>1, <1>11, SumTypes, HeadTailProperties DEF Recv
  <2>3. Sums'
    BY <1>8, <1>11, <2>2 DEF Recv
  <2>. QED  BY <1>1, <2>1, <2>2, <2>3 DEF setup, threads, handles, result
<1>. QED  BY <1>3, <1>4, <1>5, <1>6, <1>9, <1>10, <1>11, NextCases

\* The invariant holds in every state.
THEOREM Inductive == Spec => []IInv
<1>1. IInv /\ [Next]_vars => IInv'
  BY NextTypeOK, NextPositions, NextHandles, NextLeaving, NextInOnePlace, NextJoins DEF IInv
<1>. QED  BY <1>1, InitIInv, PTL DEF Spec

-----------------------------------------------------------------------------
(* EndsCleanly, part by part.                                              *)

LEMMA IInvNobodyStartsShort == IInv => NobodyStartsShort
<1>. SUFFICES ASSUME IInv PROVE NobodyStartsShort
  OBVIOUS
<1>0. TypeOK /\ Positions /\ Leaving /\ InOnePlace /\ Joins
  BY DEF IInv
<1>1. ASSUME started PROVE mainpc \in {"producers", "join"} /\ AllArrived
  BY <1>0, <1>1, Types, NumbersOfThreads DEF Positions, AllArrived
<1>2. ASSUME mainpc = "refused"
      PROVE  /\ \A p \in Producers : ppc[p] \in {"new", "barrier"}
             /\ \A c \in Consumers : cpc[c] \in {"absent", "new", "barrier"}
             /\ chan = <<>> /\ ~reported
  <2>1. ~started
    BY <1>0, <1>2 DEF Positions
  <2>2. \A p \in Producers : ppc[p] \in {"new", "barrier"}
    BY <1>0, <2>1, Types DEF Positions
  <2>3. \A c \in Consumers : cpc[c] \in {"absent", "new", "barrier"}
    BY <1>0, <2>1, Types DEF Positions
  <2>4. ASSUME NEW v \in Values PROVE ~Queued(v)
    <3>1. v[1] \in Producers /\ v[2] \in 1 .. Per
      BY Pairs
    <3>2. next[v[1]] = 1
      BY <1>0, <2>2, <3>1 DEF Leaving
    <3>. QED  BY <1>0, <3>1, <3>2 DEF InOnePlace
  <2>5. chan = <<>>
    <3>1. SUFFICES ASSUME chan # <<>> PROVE FALSE
      OBVIOUS
    <3>2. chan[1] \in Values /\ 1 \in 1 .. Len(chan)
      BY <1>0, <3>1, SumTypes, HeadTailProperties, EmptySeq
    <3>. QED  BY <2>4, <3>2 DEF Queued
  <2>6. ~reported
    BY <1>0, <1>2, NumbersOfThreads DEF Joins
  <2>. QED  BY <2>2, <2>3, <2>5, <2>6
<1>. QED  BY <1>1, <1>2 DEF NobodyStartsShort

LEMMA IInvSendCannotFail == IInv => SendCannotFail
<1>. SUFFICES ASSUME IInv, NEW p \in Producers, Sending(p) PROVE receivers # {}
  BY DEF SendCannotFail
<1>0. TypeOK /\ Positions /\ Handles /\ Leaving
  BY DEF IInv
<1>1. p \in senders /\ started
  BY <1>0 DEF Sending, Handles, Positions
<1>2. cpc[1] \in {"barrier", "recv"}
  BY <1>0, <1>1, Types, NumbersOfThreads DEF Positions, AllArrived, Leaving
<1>. QED  BY <1>0, <1>2, NumbersOfThreads DEF Handles

LEMMA IInvDrainedBeforeEnd == IInv => DrainedBeforeEnd
<1>. SUFFICES ASSUME IInv, NEW c \in Consumers, cpc[c] = "end", NEW v \in Values
              PROVE  Received(v) /\ ~InChannel(v)
  BY DEF DrainedBeforeEnd
<1>1. chan = <<>> /\ ReceivedOnce(v)
  BY EndedMeansReceived
<1>2. Received(v)
  BY <1>1 DEF ReceivedOnce, Received
<1>. QED  BY <1>1, <1>2 DEF InChannel

\* When the consumers are joined the total has every value once.
LEMMA JoinedMeansReceived ==
    ASSUME IInv, joined = P + NumConsumers
    PROVE  \A v \in Values : ReceivedOnce(v) /\ total[v] = 1
<1>0. TypeOK /\ Positions /\ Leaving /\ Joins
  BY DEF IInv
<1>1. \A c \in Consumers : c <= NumConsumers => P + c <= joined
  BY NumbersOfThreads
<1>2. cpc[1] = "end"
  BY <1>0, <1>1, NumbersOfThreads DEF Joins
<1>3. ASSUME NEW v \in Values PROVE ReceivedOnce(v) /\ total[v] = 1
  <2>1. ReceivedOnce(v)
    BY <1>2, EndedMeansReceived, NumbersOfThreads
  <2>2. PICK c \in Consumers : sum[c][v] = 1
    BY <2>1 DEF ReceivedOnce
  <2>3. cpc[c] # "absent"
    BY <1>0, <2>2 DEF Leaving
  <2>4. c <= NumConsumers
    BY <1>0, <2>3, NumbersOfThreads DEF Positions
  <2>. QED  BY <1>0, <1>1, <2>1, <2>2, <2>4 DEF Joins
<1>. QED  BY <1>3

\* From the first spawn to the report: nobody starts before all are there, no
\* send fails, nothing is left behind and the report has every value once.
THEOREM PipelineEndsCleanly == Spec => []EndsCleanly
<1>1. ASSUME IInv PROVE EndsCleanly
  <2>1. ASSUME reported PROVE total = [v \in Values |-> 1]
    <3>1. \A v \in Values : total[v] = 1
      BY <1>1, <2>1, JoinedMeansReceived DEF IInv, Joins
    <3>2. total \in [Values -> Nat]
      BY <1>1, SumTypes DEF IInv
    <3>. QED  BY <3>1, <3>2
  <2>2. TypeOK
    BY <1>1 DEF IInv
  <2>. QED
    BY <1>1, <2>1, <2>2, IInvNobodyStartsShort, IInvSendCannotFail, IInvDrainedBeforeEnd
       DEF EndsCleanly
<1>. QED  BY <1>1, Inductive, PTL

-----------------------------------------------------------------------------
(* The pipeline implements ExactlyOnce: a consumer's receive is Account,   *)
(* and every other step but Report is a stutter.                           *)

LEMMA ReceivedSetOnce == ReceivedSet = {v \in Values : ReceivedOnce(v)}
BY DEF ReceivedSet, ReceivedOnce

LEMMA ReceiveAccounts ==
    ASSUME IInv, NEW c \in Consumers, NEW u \in Values, Add(c, u), cpc[c] = "recv",
           \A d \in Consumers : sum[d][u] = 0,
           UNCHANGED <<workload, reported>>
    PROVE  EO!Next
<1>0. TypeOK /\ Positions /\ Joins
  BY DEF IInv
<1>1. ~reported
  <2>1. c <= NumConsumers
    BY <1>0, NumbersOfThreads DEF Positions
  <2>2. joined # P + NumConsumers
    BY <1>0, <2>1, NumbersOfThreads DEF Joins
  <2>. QED  BY <1>0, <2>2 DEF Joins
<1>2. /\ ReceivedOnce(u)' /\ ~ReceivedOnce(u)
      /\ \A v \in Values \ {u} : ReceivedOnce(v)' <=> ReceivedOnce(v)
  BY <1>0, ReceiveOnce
<1>3. u \notin ReceivedSet
  BY <1>2, ReceivedSetOnce
<1>4. ReceivedSet' = {v \in Values : ReceivedOnce(v)'}
  BY ReceivedSetOnce DEF ReceivedSet, ReceivedOnce
<1>5. ReceivedSet' = ReceivedSet \cup {u}
  BY <1>2, <1>4, ReceivedSetOnce
<1>6. EO!Account(u)
  BY <1>1, <1>3, <1>5 DEF EO!Account
<1>. QED  BY <1>6 DEF EO!Next

LEMMA HandoffAccounts ==
    ASSUME IInv, NEW p \in Producers, NEW c \in Consumers, Handoff(p, c)
    PROVE  EO!Next
<1>1. PICK u \in Values :
         u = <<p, next[p]>> /\ \A d \in Consumers : sum[d][u] = 0
  BY NextIsUnsent DEF Handoff
<1>. QED  BY <1>1, ReceiveAccounts DEF Handoff, setup, result

LEMMA RecvAccounts ==
    ASSUME IInv, NEW c \in Consumers, Recv(c)
    PROVE  EO!Next
<1>1. PICK u \in Values : u = Head(chan) /\ Queued(u)
  <2>1. /\ Head(chan) \in Values /\ Head(chan) = chan[1] /\ 1 \in 1 .. Len(chan)
    BY SumTypes, HeadTailProperties, EmptySeq DEF IInv, Recv
  <2>. QED  BY <2>1 DEF Queued
<1>2. \A d \in Consumers : sum[d][u] = 0
  BY <1>1 DEF IInv, InOnePlace
<1>. QED  BY <1>1, <1>2, ReceiveAccounts DEF Recv, setup, result

LEMMA ReportReports ==
    ASSUME IInv, Report
    PROVE  EO!Next
<1>1. ReceivedSet = Values
  BY JoinedMeansReceived, ReceivedSetOnce DEF Report
<1>2. ReceivedSet' = ReceivedSet
  BY DEF Report, ReceivedSet
<1>. QED  BY <1>1, <1>2 DEF Report, EO!Next, EO!Report

\* Every value enters the checksum once, and the report comes after all.
THEOREM Refinement == Spec => ImplementsExactlyOnce
<1>1. Init => EO!Init
  <2>1. Init => ReceivedSet = {}
    BY DEF Init, Nothing, ReceivedSet
  <2>. QED  BY <2>1 DEF Init, EO!Init
<1>2. IInv /\ [Next]_vars => [EO!Next]_(EO!vars)
  <2>. SUFFICES ASSUME IInv, [Next]_vars PROVE [EO!Next]_(EO!vars)
    OBVIOUS
  <2>1. ASSUME UNCHANGED <<sum, reported>> PROVE UNCHANGED EO!vars
    BY <2>1 DEF EO!vars, ReceivedSet
  <2>2. CASE DropRx \/ DropTx \/ SpawnRefused \/ JoinProducer \/ JoinConsumer \/ UNCHANGED vars
    BY <2>1, <2>2 DEF DropRx, DropTx, SpawnRefused, JoinProducer, JoinConsumer, vars, result
  <2>3. ASSUME NEW p \in Producers,
               SpawnProducer(p) \/ ProducerGo(p) \/ Send(p) \/ ProducerEnd(p)
        PROVE  UNCHANGED EO!vars
    BY <2>1, <2>3 DEF SpawnProducer, ProducerGo, Send, ProducerEnd, result
  <2>4. ASSUME NEW c \in Consumers, SpawnConsumer(c) \/ ConsumerGo(c) \/ ConsumerEnd(c)
        PROVE  UNCHANGED EO!vars
    BY <2>1, <2>4 DEF SpawnConsumer, ConsumerGo, ConsumerEnd, result
  <2>. QED
    BY <2>2, <2>3, <2>4, HandoffAccounts, RecvAccounts, ReportReports, NextCases
<1>. QED  BY <1>1, <1>2, Inductive, PTL DEF Spec, EO!Spec, ImplementsExactlyOnce
=============================================================================
