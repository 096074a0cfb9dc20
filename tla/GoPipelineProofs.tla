-------------------------- MODULE GoPipelineProofs --------------------------
(***************************************************************************)
(* Proofs about GoPipeline, for any number of producers, consumers and     *)
(* values, and any capacity.                                               *)
(***************************************************************************)
EXTENDS GoPipeline, FiniteSetTheorems, SequenceTheorems, WellFoundedInduction, TLAPS

\* The goroutines that have not called Done.
BusyProducers == {p \in Producers : ppc[p] \notin {"new", "end"}}
BusyConsumers == {c \in Consumers : cpc[c] \notin {"new", "end"}}

\* Who exists, by where the main goroutine is.
Positions ==
    /\ mainpc = "consumers" => \A c \in Consumers : cpc[c] = "new"
    /\ mainpc \in {"consumers", "producers"} => \A p \in Producers : ppc[p] = "new"
    /\ \A p \in 1 .. NumProducers :
          mainpc \notin {"consumers", "producers"} => ppc[p] # "new"
    /\ \A c \in 1 .. NumConsumers : mainpc # "consumers" => cpc[c] # "new"
    /\ \A p \in Producers : p > NumProducers => ppc[p] = "new"
    /\ \A c \in Consumers : c > NumConsumers => cpc[c] = "new"
    /\ \A p \in Producers : ppc[p] = "close" => workload = "spsc"
    /\ workload = "spsc" => mainpc # "close"
    /\ reported <=> mainpc = "reported"

\* A WaitGroup counts the goroutines that have not called Done; spsc's counts
\* its producer with the consumer.
Groups ==
    /\ wg["producers"] = IF workload = "spsc" THEN 0 ELSE Cardinality(BusyProducers)
    /\ wg["consumers"] = Cardinality(BusyConsumers)
          + IF workload = "spsc" /\ mainpc # "consumers" /\ ppc[1] # "end" THEN 1 ELSE 0

\* What the main goroutine has waited for.
Waited ==
    /\ workload # "spsc" /\ mainpc \in {"close", "sums", "reported"} => BusyProducers = {}
    /\ mainpc = "reported" => BusyConsumers = {}

Closes ==
    closed = IF \/ workload = "spsc" /\ ppc[1] \in {"done", "end"}
                \/ workload # "spsc" /\ mainpc \in {"sums", "reported"}
             THEN 1 ELSE 0

\* Producers leave when they have sent everything, consumers when the channel
\* is closed and empty, with their sums stored.
Leaving ==
    /\ \A p \in Producers : ppc[p] = "new" => next[p] = 1
    /\ \A p \in Producers : ppc[p] \in {"close", "done", "end"} => next[p] = Per + 1
    /\ \A c \in Consumers : cpc[c] \in {"store", "done", "end"} => closed > 0 /\ chan = <<>>
    /\ \A c \in Consumers : cpc[c] \in {"new", "done", "end"} => slot[c] = local[c]

InChannel(v) == \E i \in 1 .. Len(chan) : chan[i] = v

\* A value is unsent, or once in the channel, or once in one consumer's sum.
InOnePlace ==
    /\ \A i, j \in 1 .. Len(chan) : chan[i] = chan[j] => i = j
    /\ \A v \in Values :
          /\ v[2] >= next[v[1]] => ~InChannel(v)
          /\ v[2] >= next[v[1]] \/ InChannel(v) => \A c \in Consumers : local[c][v] = 0
          /\ v[2] < next[v[1]] => InChannel(v) \/ ReceivedOnce(v)

IInv ==
    /\ TypeOK
    /\ Positions
    /\ Groups
    /\ Waited
    /\ Closes
    /\ Leaving
    /\ InOnePlace

-----------------------------------------------------------------------------

USE GoPipelineAssumption

LEMMA BusyFinite ==
    /\ IsFiniteSet(BusyProducers) /\ Cardinality(BusyProducers) \in 0 .. P
    /\ IsFiniteSet(BusyConsumers) /\ Cardinality(BusyConsumers) \in 0 .. C
<1>1. /\ IsFiniteSet(1 .. P) /\ Cardinality(1 .. P) = P
      /\ IsFiniteSet(1 .. C) /\ Cardinality(1 .. C) = C
  BY FS_Interval
<1>2. BusyProducers \subseteq 1 .. P /\ BusyConsumers \subseteq 1 .. C
  BY DEF BusyProducers, BusyConsumers, Producers, Consumers
<1>3. IsFiniteSet(BusyProducers) /\ Cardinality(BusyProducers) <= P
  BY <1>1, <1>2, FS_Subset
<1>4. IsFiniteSet(BusyConsumers) /\ Cardinality(BusyConsumers) <= C
  BY <1>1, <1>2, FS_Subset
<1>5. Cardinality(BusyProducers) \in Nat /\ Cardinality(BusyConsumers) \in Nat
  BY <1>3, <1>4, FS_CardinalityType
<1>. QED  BY <1>3, <1>4, <1>5

LEMMA NumbersOfRoutines ==
    /\ NumProducers \in 1 .. P /\ 1 .. NumProducers \subseteq Producers
    /\ NumConsumers \in 1 .. C /\ 1 .. NumConsumers \subseteq Consumers
BY DEF NumProducers, NumConsumers, Producers, Consumers

LEMMA InitIInv == Init => IInv
<1>. SUFFICES ASSUME Init PROVE IInv
  OBVIOUS
<1>1. TypeOK
  <2>1. Nothing \in [Values -> Nat]
    BY DEF Nothing
  <2>2. /\ wg \in [{"producers", "consumers"} -> 0 .. P + C]
        /\ closed \in 0 .. P + 1
        /\ next \in [Producers -> 1 .. Per + 1]
    BY DEF Init
  <2>3. chan \in Seq(Values) /\ Len(chan) = 0 /\ capacity \in Nat
    BY DEF Init
  <2>4. /\ local \in [Consumers -> [Values -> Nat]]
        /\ slot \in [Consumers -> [Values -> Nat]]
        /\ DOMAIN total = Values
    BY <2>1 DEF Init, Nothing
  <2>5. /\ ppc \in [Producers -> {"new", "send", "close", "done", "end"}]
        /\ cpc \in [Consumers -> {"new", "recv", "store", "done", "end"}]
    BY DEF Init
  <2>6. /\ workload \in {"spsc", "mpsc", "mpmc"}
        /\ capacity \in Capacities
        /\ mainpc = "consumers" /\ reported = FALSE
    BY DEF Init
  <2>7. Len(chan) <= capacity
    BY <2>3
  <2>. QED  BY <2>2, <2>3, <2>4, <2>5, <2>6, <2>7, Zenon DEF TypeOK
<1>2. Positions
  BY NumbersOfRoutines DEF Init, Positions
<1>3. BusyProducers = {} /\ BusyConsumers = {}
  BY DEF Init, BusyProducers, BusyConsumers
<1>4. Groups
  BY <1>3, FS_EmptySet DEF Init, Groups
<1>5. Waited
  BY <1>3 DEF Waited
<1>6. Closes
  <2>1. ppc[1] = "new"
    BY DEF Init, Producers
  <2>. QED  BY <2>1 DEF Init, Closes
<1>7. Leaving
  BY DEF Init, Leaving
<1>8. InOnePlace
  BY DEF Init, InOnePlace, InChannel, Nothing, Values, Producers
<1>. QED  BY <1>1, <1>2, <1>4, <1>5, <1>6, <1>7, <1>8 DEF IInv

LEMMA NextPositions == IInv /\ [Next]_vars => Positions'
<1>. SUFFICES ASSUME IInv, [Next]_vars PROVE Positions'
  OBVIOUS
<1>. DEFINE PPC == {"new", "send", "close", "done", "end"}
            CPC == {"new", "recv", "store", "done", "end"}
<1>0. /\ ppc \in [Producers -> PPC] /\ cpc \in [Consumers -> CPC]
      /\ workload \in {"spsc", "mpsc", "mpmc"}
      /\ Positions
  BY DEF IInv, TypeOK
<1>. USE NumbersOfRoutines DEF setup, routines, queue, sums, Positions
<1>1. CASE StartConsumers
  <2>1. /\ mainpc = "consumers" /\ mainpc' = "producers"
        /\ UNCHANGED <<workload, ppc, reported>>
        /\ \A c \in Consumers : cpc'[c] = IF c <= NumConsumers THEN "recv" ELSE "new"
    BY <1>1 DEF StartConsumers
  <2>. QED  BY <1>0, <2>1 DEF NumProducers, NumConsumers, Consumers, Producers
<1>2. CASE StartProducers
  <2>1. /\ mainpc = "producers" /\ mainpc' = "wait"
        /\ UNCHANGED <<workload, cpc, reported>>
        /\ \A p \in Producers : ppc'[p] = IF p <= NumProducers THEN "send" ELSE "new"
    BY <1>2 DEF StartProducers
  <2>. QED  BY <1>0, <2>1 DEF NumProducers, NumConsumers, Consumers, Producers
<1>3. CASE WaitProducers \/ Close \/ ReadSums
  <2>1. /\ mainpc \in {"wait", "close", "sums"}
        /\ mainpc' \in {"close", "sums", "reported"}
        /\ mainpc' = "close" => workload # "spsc"
        /\ mainpc' = "reported" <=> reported'
        /\ UNCHANGED <<workload, ppc, cpc>>
    BY <1>0, <1>3 DEF WaitProducers, Close, ReadSums
  <2>. QED  BY <1>0, <2>1 DEF NumProducers, NumConsumers
<1>4. ASSUME NEW p \in Producers, SentAll(p) \/ ProducerClose(p) \/ ProducerDone(p)
      PROVE  Positions'
  <2>1. /\ UNCHANGED <<workload, mainpc, cpc, reported>>
        /\ ppc[p] # "new" /\ ppc'[p] # "new"
        /\ ppc'[p] = "close" => workload = "spsc"
        /\ \A q \in Producers \ {p} : ppc'[q] = ppc[q]
    BY <1>0, <1>4 DEF SentAll, ProducerClose, ProducerDone, PStep
  <2>2. ppc' \in [Producers -> PPC]
    BY <1>0, <1>4 DEF SentAll, ProducerClose, ProducerDone, PStep
  <2>. QED  BY <1>0, <2>1 DEF NumProducers, NumConsumers
<1>5. ASSUME NEW c \in Consumers, RangeEnds(c) \/ StoreSum(c) \/ ConsumerDone(c)
      PROVE  Positions'
  <2>1. /\ UNCHANGED <<workload, mainpc, ppc, reported>>
        /\ cpc[c] # "new" /\ cpc'[c] # "new"
        /\ \A d \in Consumers \ {c} : cpc'[d] = cpc[d]
    BY <1>0, <1>5 DEF RangeEnds, StoreSum, ConsumerDone, CStep
  <2>. QED  BY <1>0, <2>1 DEF NumProducers, NumConsumers
<1>6. ASSUME UNCHANGED <<workload, mainpc, ppc, cpc, reported>> PROVE Positions'
  BY <1>0, <1>6 DEF NumProducers, NumConsumers
<1>7. ASSUME NEW p \in Producers, NEW c \in Consumers, Send(p) \/ Handoff(p, c) \/ Recv(c)
      PROVE  Positions'
  BY <1>6, <1>7 DEF Send, Handoff, Recv
<1>8. 1 \in Producers /\ 1 \in Consumers
  BY DEF Producers, Consumers
<1>. QED
  BY <1>1, <1>2, <1>3, <1>4, <1>5, <1>6, <1>7, <1>8
     DEF Next, Producer, Consumer, MainRoutine, Exited, vars

\* What a step that is not in the list does not touch.
SameRoutines == UNCHANGED <<workload, mainpc, ppc, cpc, wg>>

\* The steps that move neither a goroutine nor a WaitGroup.
LEMMA MovesValues ==
    ASSUME NEW p \in Producers, NEW c \in Consumers,
           Send(p) \/ Handoff(p, c) \/ Recv(c) \/ UNCHANGED vars
    PROVE  SameRoutines /\ UNCHANGED <<closed, slot, total, reported, capacity>>
BY DEF Send, Handoff, Recv, vars, SameRoutines, setup, routines, queue, sums

\* Every step is one of these.
LEMMA NextCases ==
    ASSUME [Next]_vars
    PROVE  \/ StartConsumers \/ StartProducers \/ WaitProducers \/ Close \/ ReadSums
           \/ \E p \in Producers : SentAll(p) \/ ProducerClose(p) \/ ProducerDone(p)
           \/ \E c \in Consumers : RangeEnds(c) \/ StoreSum(c) \/ ConsumerDone(c)
           \/ \E p \in Producers, c \in Consumers : Send(p) \/ Handoff(p, c) \/ Recv(c)
           \/ UNCHANGED vars
<1>1. 1 \in Producers /\ 1 \in Consumers
  BY DEF Producers, Consumers
<1>. QED  BY <1>1 DEF Next, Producer, Consumer, MainRoutine, Exited

LEMMA Types ==
    ASSUME TypeOK
    PROVE  /\ ppc \in [Producers -> {"new", "send", "close", "done", "end"}]
           /\ cpc \in [Consumers -> {"new", "recv", "store", "done", "end"}]
           /\ workload \in {"spsc", "mpsc", "mpmc"}
           /\ mainpc \in {"consumers", "producers", "wait", "close", "sums", "reported"}
           /\ wg \in [{"producers", "consumers"} -> 0 .. P + C]
           /\ next \in [Producers -> 1 .. Per + 1]
           /\ closed \in 0 .. P + 1
BY DEF TypeOK

\* The WaitGroups follow the goroutines that call Done.
LEMMA NextGroups == IInv /\ [Next]_vars => Groups'
<1>. SUFFICES ASSUME IInv, [Next]_vars PROVE Groups'
  OBVIOUS
<1>0. TypeOK /\ Positions /\ Groups
  BY DEF IInv
<1>a. /\ Cardinality(BusyProducers) \in Nat /\ Cardinality(BusyConsumers) \in Nat
      /\ IsFiniteSet(BusyProducers) /\ IsFiniteSet(BusyConsumers)
  BY BusyFinite
<1>b. 1 \in Producers /\ 1 \in Consumers
  BY DEF Producers, Consumers
<1>1. CASE StartConsumers
  <2>1. /\ mainpc = "consumers" /\ mainpc' = "producers"
        /\ UNCHANGED <<workload, ppc>>
        /\ \A c \in Consumers : cpc'[c] = IF c <= NumConsumers THEN "recv" ELSE "new"
    BY <1>1 DEF StartConsumers, setup
  <2>2. /\ wg'["producers"] = wg["producers"]
        /\ wg'["consumers"] = IF workload = "spsc" THEN 2 ELSE NumConsumers
    BY <1>0, <1>1, Types DEF StartConsumers
  <2>3. BusyProducers' = BusyProducers
    BY <2>1 DEF BusyProducers
  <2>4. BusyConsumers' = 1 .. NumConsumers
    BY <2>1, NumbersOfRoutines DEF BusyConsumers, Consumers
  <2>5. Cardinality(BusyConsumers') = NumConsumers
    BY <2>4, NumbersOfRoutines, FS_Interval
  <2>6. Cardinality(BusyConsumers)' = NumConsumers
    BY <2>5
  <2>7. ppc'[1] = "new"
    BY <1>0, <1>b, <2>1 DEF Positions
  <2>. QED  BY <1>0, <2>1, <2>2, <2>3, <2>6, <2>7, NumbersOfRoutines DEF Groups, NumConsumers
<1>2. CASE StartProducers
  <2>1. /\ mainpc = "producers" /\ mainpc' = "wait"
        /\ UNCHANGED <<workload, cpc>>
        /\ \A p \in Producers : ppc'[p] = IF p <= NumProducers THEN "send" ELSE "new"
    BY <1>2 DEF StartProducers, setup
  <2>2. /\ wg'["producers"] = IF workload = "spsc" THEN wg["producers"] ELSE P
        /\ wg'["consumers"] = wg["consumers"]
    BY <1>0, <1>2, Types DEF StartProducers
  <2>3. BusyConsumers' = BusyConsumers
    BY <2>1 DEF BusyConsumers
  <2>4. BusyProducers' = 1 .. NumProducers
    BY <2>1, NumbersOfRoutines DEF BusyProducers, Producers
  <2>5. Cardinality(BusyProducers)' = NumProducers
    BY <2>4, NumbersOfRoutines, FS_Interval
  <2>6. ppc[1] = "new" /\ ppc'[1] = "send"
    BY <1>0, <1>b, <2>1, NumbersOfRoutines DEF Positions
  <2>. QED  BY <1>0, <2>1, <2>2, <2>3, <2>5, <2>6 DEF Groups, NumProducers
<1>3. CASE WaitProducers \/ Close \/ ReadSums
  <2>1. /\ mainpc # "consumers" /\ mainpc' # "consumers"
        /\ UNCHANGED <<workload, ppc, cpc, wg>>
    BY <1>3 DEF WaitProducers, Close, ReadSums, setup, routines
  <2>. QED  BY <1>0, <2>1 DEF Groups, BusyProducers, BusyConsumers
<1>4. ASSUME NEW p \in Producers, SentAll(p) \/ ProducerClose(p) PROVE Groups'
  <2>1. /\ UNCHANGED <<workload, mainpc, cpc, wg>>
        /\ ppc[p] \notin {"new", "end"} /\ ppc'[p] \notin {"new", "end"}
        /\ \A q \in Producers \ {p} : ppc'[q] = ppc[q]
    BY <1>0, <1>4, Types DEF SentAll, ProducerClose, PStep, setup
  <2>2. BusyProducers' = BusyProducers
    BY <2>1 DEF BusyProducers
  <2>3. BusyConsumers' = BusyConsumers
    BY <2>1 DEF BusyConsumers
  <2>4. ppc'[1] = "end" <=> ppc[1] = "end"
    BY <1>b, <2>1
  <2>. QED  BY <1>0, <2>1, <2>2, <2>3, <2>4 DEF Groups
<1>5. ASSUME NEW p \in Producers, ProducerDone(p) PROVE Groups'
  <2>1. /\ UNCHANGED <<workload, mainpc, cpc>>
        /\ ppc[p] = "done" /\ ppc'[p] = "end"
        /\ \A q \in Producers \ {p} : ppc'[q] = ppc[q]
    BY <1>0, <1>5, Types DEF ProducerDone, PStep, setup
  <2>2. BusyProducers' = BusyProducers \ {p} /\ p \in BusyProducers
    BY <2>1 DEF BusyProducers
  <2>3. Cardinality(BusyProducers)' = Cardinality(BusyProducers) - 1
    BY <1>a, <2>2, FS_RemoveElement
  <2>4. BusyConsumers' = BusyConsumers
    BY <2>1 DEF BusyConsumers
  <2>5. CASE workload = "spsc"
    <3>1. p = 1
      BY <1>0, <2>1, <2>5 DEF Positions, NumProducers, Producers
    <3>2. mainpc # "consumers"
      BY <1>0, <2>1 DEF Positions
    <3>3. /\ wg'["producers"] = wg["producers"]
          /\ wg'["consumers"] = wg["consumers"] - 1
      BY <1>0, <1>5, <2>5, Types DEF ProducerDone, ProducersGroup
    <3>. QED  BY <1>0, <1>a, <2>1, <2>4, <2>5, <3>1, <3>2, <3>3 DEF Groups
  <2>6. CASE workload # "spsc"
    <3>1. /\ wg'["producers"] = wg["producers"] - 1
          /\ wg'["consumers"] = wg["consumers"]
      BY <1>0, <1>5, <2>6, Types DEF ProducerDone, ProducersGroup
    <3>. QED  BY <1>0, <1>a, <2>1, <2>3, <2>4, <2>6, <3>1 DEF Groups
  <2>. QED  BY <2>5, <2>6
<1>6. ASSUME NEW c \in Consumers, RangeEnds(c) \/ StoreSum(c) PROVE Groups'
  <2>1. /\ UNCHANGED <<workload, mainpc, ppc, wg>>
        /\ cpc[c] \notin {"new", "end"} /\ cpc'[c] \notin {"new", "end"}
        /\ \A d \in Consumers \ {c} : cpc'[d] = cpc[d]
    BY <1>0, <1>6, Types DEF RangeEnds, StoreSum, CStep, setup
  <2>2. BusyProducers' = BusyProducers /\ BusyConsumers' = BusyConsumers
    BY <2>1 DEF BusyProducers, BusyConsumers
  <2>. QED  BY <1>0, <2>1, <2>2 DEF Groups
<1>7. ASSUME NEW c \in Consumers, ConsumerDone(c) PROVE Groups'
  <2>1. /\ UNCHANGED <<workload, mainpc, ppc>>
        /\ cpc[c] = "done" /\ cpc'[c] = "end"
        /\ \A d \in Consumers \ {c} : cpc'[d] = cpc[d]
    BY <1>0, <1>7, Types DEF ConsumerDone, CStep, setup
  <2>2. BusyConsumers' = BusyConsumers \ {c} /\ c \in BusyConsumers
    BY <2>1 DEF BusyConsumers
  <2>3. Cardinality(BusyConsumers)' = Cardinality(BusyConsumers) - 1
    BY <1>a, <2>2, FS_RemoveElement
  <2>4. BusyProducers' = BusyProducers
    BY <2>1 DEF BusyProducers
  <2>5. /\ wg'["producers"] = wg["producers"]
        /\ wg'["consumers"] = wg["consumers"] - 1
    BY <1>0, <1>7, Types DEF ConsumerDone
  <2>. QED  BY <1>0, <1>a, <2>1, <2>3, <2>4, <2>5 DEF Groups
<1>8. ASSUME SameRoutines PROVE Groups'
  BY <1>0, <1>8 DEF SameRoutines, Groups, BusyProducers, BusyConsumers
<1>. QED
  BY <1>1, <1>2, <1>3, <1>4, <1>5, <1>6, <1>7, <1>8, <1>b, NextCases, MovesValues

\* Wait returns when nobody is busy.
LEMMA NextWaited == IInv /\ [Next]_vars => Waited'
<1>. SUFFICES ASSUME IInv, [Next]_vars PROVE Waited'
  OBVIOUS
<1>0. TypeOK /\ Positions /\ Groups /\ Waited
  BY DEF IInv
<1>a. /\ Cardinality(BusyProducers) \in Nat /\ Cardinality(BusyConsumers) \in Nat
      /\ IsFiniteSet(BusyProducers) /\ IsFiniteSet(BusyConsumers)
  BY BusyFinite
<1>1. CASE StartConsumers
  BY <1>1 DEF StartConsumers, Waited
<1>2. CASE StartProducers
  BY <1>2 DEF StartProducers, Waited
<1>3. CASE WaitProducers
  <2>1. /\ UNCHANGED <<workload, ppc, cpc>> /\ wg["producers"] = 0
        /\ mainpc' # "reported"
    BY <1>3 DEF WaitProducers, setup, routines
  <2>2. ASSUME workload # "spsc" PROVE BusyProducers = {}
    <3>1. Cardinality(BusyProducers) = 0
      BY <1>0, <2>1, <2>2 DEF Groups
    <3>. QED  BY <1>a, <3>1, FS_EmptySet
  <2>. QED  BY <2>1, <2>2 DEF Waited, BusyProducers
<1>4. CASE Close
  BY <1>0, <1>4 DEF Close, Waited, BusyProducers, setup, routines
<1>5. CASE ReadSums
  <2>1. /\ UNCHANGED <<workload, ppc, cpc>> /\ wg["consumers"] = 0
        /\ mainpc = "sums"
    BY <1>5 DEF ReadSums, setup, routines
  <2>2. Cardinality(BusyConsumers) = 0
    BY <1>0, <1>a, <2>1 DEF Groups
  <2>3. BusyConsumers = {}
    BY <1>a, <2>2, FS_EmptySet
  <2>. QED  BY <1>0, <2>1, <2>3 DEF Waited, BusyProducers, BusyConsumers
<1>6. ASSUME NEW p \in Producers, SentAll(p) \/ ProducerClose(p) \/ ProducerDone(p)
      PROVE  Waited'
  <2>1. /\ UNCHANGED <<workload, mainpc, cpc>>
        /\ p \in BusyProducers
    BY <1>6 DEF SentAll, ProducerClose, ProducerDone, PStep, setup, BusyProducers
  <2>. QED  BY <1>0, <2>1 DEF Waited, BusyConsumers
<1>7. ASSUME NEW c \in Consumers, RangeEnds(c) \/ StoreSum(c) \/ ConsumerDone(c)
      PROVE  Waited'
  <2>1. /\ UNCHANGED <<workload, mainpc, ppc>>
        /\ c \in BusyConsumers
    BY <1>7 DEF RangeEnds, StoreSum, ConsumerDone, CStep, setup, BusyConsumers
  <2>. QED  BY <1>0, <2>1 DEF Waited, BusyProducers
<1>8. ASSUME SameRoutines PROVE Waited'
  BY <1>0, <1>8 DEF SameRoutines, Waited, BusyProducers, BusyConsumers
<1>9. 1 \in Producers /\ 1 \in Consumers
  BY DEF Producers, Consumers
<1>. QED
  BY <1>1, <1>2, <1>3, <1>4, <1>5, <1>6, <1>7, <1>8, <1>9, NextCases, MovesValues

\* Only the last producer's Done, or spsc's only producer, closes the channel.
LEMMA NextCloses == IInv /\ [Next]_vars => Closes'
<1>. SUFFICES ASSUME IInv, [Next]_vars PROVE Closes'
  OBVIOUS
<1>0. TypeOK /\ Positions /\ Closes
  BY DEF IInv
<1>a. 1 \in Producers /\ 1 \in Consumers
  BY DEF Producers, Consumers
<1>1. CASE StartConsumers
  BY <1>0, <1>1 DEF StartConsumers, Closes, setup, queue
<1>2. CASE StartProducers
  <2>1. /\ mainpc = "producers" /\ mainpc' = "wait"
        /\ UNCHANGED <<workload, closed>>
        /\ ppc[1] = "new" /\ ppc'[1] = "send"
    BY <1>0, <1>a, <1>2, NumbersOfRoutines DEF StartProducers, Positions, setup, queue
  <2>. QED  BY <1>0, <2>1 DEF Closes
<1>3. CASE WaitProducers
  BY <1>0, <1>3 DEF WaitProducers, Closes, setup, routines, queue
<1>4. CASE Close
  <2>1. workload # "spsc"
    BY <1>0, <1>4 DEF Close, Positions
  <2>. QED  BY <1>0, <1>4, <2>1 DEF Close, Closes, setup
<1>5. CASE ReadSums
  BY <1>0, <1>5 DEF ReadSums, Closes, setup, routines, queue
<1>6. ASSUME NEW p \in Producers, SentAll(p) \/ ProducerDone(p) PROVE Closes'
  <2>1. /\ UNCHANGED <<workload, mainpc, closed>>
        /\ ppc[p] \in {"send", "done"}
        /\ ppc[p] = "send" => ppc'[p] \in {"close", "done"}
        /\ ppc'[p] = "done" => workload # "spsc"
        /\ ppc[p] = "done" => ppc'[p] = "end"
        /\ \A q \in Producers \ {p} : ppc'[q] = ppc[q]
    BY <1>0, <1>6, Types DEF SentAll, ProducerDone, PStep, setup, queue
  <2>. QED  BY <1>0, <1>a, <2>1 DEF Closes
<1>7. ASSUME NEW p \in Producers, ProducerClose(p) PROVE Closes'
  <2>1. /\ UNCHANGED <<workload, mainpc>> /\ closed' = closed + 1
        /\ ppc[p] = "close" /\ ppc'[p] = "done"
    BY <1>0, <1>7, Types DEF ProducerClose, PStep, setup
  <2>2. workload = "spsc" /\ p = 1
    BY <1>0, <2>1 DEF Positions, NumProducers, Producers
  <2>. QED  BY <1>0, <2>1, <2>2 DEF Closes
<1>8. ASSUME NEW c \in Consumers, RangeEnds(c) \/ StoreSum(c) \/ ConsumerDone(c)
      PROVE  Closes'
  BY <1>0, <1>8 DEF RangeEnds, StoreSum, ConsumerDone, Closes, setup, queue
<1>9. ASSUME SameRoutines, closed' = closed PROVE Closes'
  BY <1>0, <1>9 DEF SameRoutines, Closes
<1>. QED
  BY <1>1, <1>2, <1>3, <1>4, <1>5, <1>6, <1>7, <1>8, <1>9, <1>a, NextCases, MovesValues

\* Once the channel is closed nobody sends.
LEMMA ClosedMeansSent ==
    ASSUME IInv, closed > 0
    PROVE  /\ \A p \in Producers : ~Sending(p)
           /\ mainpc \notin {"consumers", "producers"}
           /\ \A p \in 1 .. NumProducers : ppc[p] \in {"done", "end"}
<1>0. TypeOK /\ Positions /\ Waited /\ Closes
  BY DEF IInv
<1>a. 1 \in Producers
  BY DEF Producers
<1>1. mainpc \notin {"consumers", "producers"}
  BY <1>0, <1>a DEF Closes, Positions
<1>2. ASSUME NEW p \in 1 .. NumProducers PROVE ppc[p] \in {"done", "end"}
  <2>1. CASE workload = "spsc"
    BY <1>0, <1>2, <2>1 DEF Closes, NumProducers
  <2>2. CASE workload # "spsc"
    <3>1. BusyProducers = {} /\ p \in Producers
      BY <1>0, <1>2, <2>2, NumbersOfRoutines DEF Closes, Waited
    <3>2. ppc[p] # "new"
      BY <1>0, <1>1 DEF Positions
    <3>. QED  BY <3>1, <3>2 DEF BusyProducers
  <2>. QED  BY <2>1, <2>2
<1>3. ASSUME NEW p \in Producers PROVE ppc[p] # "send"
  BY <1>0, <1>2, <1>3, NumbersOfRoutines DEF Positions, Producers
<1>. QED  BY <1>1, <1>2, <1>3 DEF Sending

LEMMA SumTypes ==
    ASSUME TypeOK
    PROVE  /\ local \in [Consumers -> [Values -> Nat]]
           /\ slot \in [Consumers -> [Values -> Nat]]
           /\ chan \in Seq(Values) /\ Len(chan) \in Nat
           /\ capacity \in Nat /\ Len(chan) <= capacity
BY DEF TypeOK

LEMMA NextLeaving == IInv /\ [Next]_vars => Leaving'
<1>. SUFFICES ASSUME IInv, [Next]_vars PROVE Leaving'
  OBVIOUS
<1>0. TypeOK /\ Positions /\ Leaving
  BY DEF IInv
<1>1. CASE StartConsumers
  <2>1. \A c \in Consumers : cpc[c] = "new" /\ cpc'[c] \in {"new", "recv"}
    BY <1>0, <1>1 DEF StartConsumers, Positions
  <2>. QED  BY <1>0, <1>1, <2>1 DEF StartConsumers, Leaving, queue, sums
<1>2. CASE StartProducers
  <2>1. \A p \in Producers : ppc[p] = "new" /\ ppc'[p] \in {"new", "send"}
    BY <1>0, <1>2 DEF StartProducers, Positions
  <2>. QED  BY <1>0, <1>2, <2>1 DEF StartProducers, Leaving, queue, sums
<1>3. CASE WaitProducers \/ Close \/ ReadSums
  <2>1. /\ UNCHANGED <<ppc, cpc, next, chan, local, slot>>
        /\ closed > 0 => closed' > 0
    BY <1>0, <1>3, Types DEF WaitProducers, Close, ReadSums, routines, queue, sums
  <2>. QED  BY <1>0, <2>1 DEF Leaving
<1>4. ASSUME NEW p \in Producers, SentAll(p) \/ ProducerClose(p) \/ ProducerDone(p)
      PROVE  Leaving'
  <2>1. /\ UNCHANGED <<cpc, next, chan, local, slot>>
        /\ closed > 0 => closed' > 0
        /\ ppc'[p] # "new"
        /\ \A q \in Producers \ {p} : ppc'[q] = ppc[q]
    BY <1>0, <1>4, Types DEF SentAll, ProducerClose, ProducerDone, PStep, queue, sums
  <2>2. next[p] = Per + 1
    <3>1. next[p] \in 1 .. Per + 1 /\ Per \in Nat
      BY <1>0, Types
    <3>2. CASE SentAll(p)
      BY <3>1, <3>2 DEF SentAll
    <3>3. CASE ProducerClose(p) \/ ProducerDone(p)
      BY <1>0, <3>3 DEF ProducerClose, ProducerDone, PStep, Leaving
    <3>. QED  BY <1>4, <3>2, <3>3
  <2>. QED  BY <1>0, <2>1, <2>2 DEF Leaving
<1>5. ASSUME NEW c \in Consumers, RangeEnds(c) \/ ConsumerDone(c) PROVE Leaving'
  <2>1. /\ UNCHANGED <<ppc, next, queue, local, slot>>
        /\ \A d \in Consumers \ {c} : cpc'[d] = cpc[d]
    BY <1>0, <1>5, Types DEF RangeEnds, ConsumerDone, CStep, queue, sums
  <2>2. \/ cpc'[c] = "store" /\ closed > 0 /\ chan = <<>>
        \/ cpc[c] = "done" /\ cpc'[c] = "end"
    BY <1>0, <1>5, Types DEF RangeEnds, ConsumerDone, CStep
  <2>. QED  BY <1>0, <2>1, <2>2 DEF Leaving, queue
<1>6. ASSUME NEW c \in Consumers, StoreSum(c) PROVE Leaving'
  <2>1. /\ UNCHANGED <<ppc, next, queue, local>>
        /\ cpc[c] = "store" /\ cpc'[c] = "done" /\ slot'[c] = local[c]
        /\ \A d \in Consumers \ {c} : cpc'[d] = cpc[d] /\ slot'[d] = slot[d]
    BY <1>0, <1>6, Types, SumTypes DEF StoreSum, CStep
  <2>. QED  BY <1>0, <2>1 DEF Leaving, queue
<1>7. ASSUME NEW p \in Producers, NEW c \in Consumers, Send(p) \/ Handoff(p, c)
      PROVE  Leaving'
  <2>1. /\ UNCHANGED <<ppc, cpc, closed, slot>> /\ closed = 0
        /\ ppc[p] = "send" /\ \A q \in Producers \ {p} : next'[q] = next[q]
        /\ \A d \in Consumers : cpc[d] # "recv" => local'[d] = local[d]
    BY <1>0, <1>7, Types, SumTypes DEF Send, Handoff, Sending, Add, routines, queue, sums
  <2>. QED  BY <1>0, <2>1 DEF Leaving
<1>8. ASSUME NEW c \in Consumers, Recv(c) PROVE Leaving'
  <2>1. /\ UNCHANGED <<ppc, cpc, next, closed, slot>> /\ chan # <<>>
        /\ \A d \in Consumers : cpc[d] # "recv" => local'[d] = local[d]
    BY <1>0, <1>8, SumTypes DEF Recv, Add, routines
  <2>. QED  BY <1>0, <2>1 DEF Leaving
<1>9. CASE UNCHANGED vars
  BY <1>0, <1>9 DEF Leaving, vars, routines, queue, sums
<1>. QED
  BY <1>1, <1>2, <1>3, <1>4, <1>5, <1>6, <1>7, <1>8, <1>9, NextCases

-----------------------------------------------------------------------------
(* A value moves from its producer to the channel and on to a consumer, or *)
(* straight to the consumer.                                               *)

LEMMA Pairs ==
    /\ \A v \in Values : v[1] \in Producers /\ v[2] \in 1 .. Per /\ v = <<v[1], v[2]>>
    /\ \A p \in Producers, i \in 1 .. Per :
          <<p, i>> \in Values /\ <<p, i>>[1] = p /\ <<p, i>>[2] = i
BY DEF Values

\* The value a producer sends next has not been sent.
LEMMA NextIsUnsent ==
    ASSUME IInv, NEW p \in Producers, Sending(p)
    PROVE  /\ <<p, next[p]>> \in Values
           /\ ~InChannel(<<p, next[p]>>)
           /\ \A c \in Consumers : local[c][<<p, next[p]>>] = 0
<1>1. TypeOK /\ InOnePlace
  BY DEF IInv
<1>2. next[p] \in 1 .. Per
  BY <1>1, Types DEF Sending
<1>. QED  BY <1>1, <1>2, Pairs DEF InOnePlace

\* With `next` one further, one more value is sent.
LEMMA OneMoreSent ==
    ASSUME TypeOK, NEW p \in Producers, Sending(p), next' = [next EXCEPT ![p] = @ + 1],
           NEW v \in Values
    PROVE  v[2] < next'[v[1]] <=> v[2] < next[v[1]] \/ v = <<p, next[p]>>
<1>1. /\ v[1] \in Producers /\ v[2] \in 1 .. Per /\ v = <<v[1], v[2]>>
      /\ next[p] \in 1 .. Per + 1 /\ next[v[1]] \in 1 .. Per + 1
  BY Pairs, Types
<1>2. CASE v[1] = p
  <2>1. next'[v[1]] = next[p] + 1
    BY <1>2, Types
  <2>2. v = <<p, next[p]>> <=> v[2] = next[p]
    BY <1>1, <1>2
  <2>. QED  BY <1>1, <1>2, <2>1, <2>2
<1>3. CASE v[1] # p
  <2>1. next'[v[1]] = next[v[1]]
    BY <1>1, <1>3, Types
  <2>2. v # <<p, next[p]>>
    BY <1>1, <1>3
  <2>. QED  BY <2>1, <2>2
<1>. QED  BY <1>2, <1>3

LEMMA SendKeeps ==
    ASSUME IInv, NEW p \in Producers, Send(p)
    PROVE  InOnePlace'
<1>0. TypeOK /\ InOnePlace /\ Sending(p)
  BY DEF IInv, Send
<1>. DEFINE u == <<p, next[p]>>
<1>1. /\ u \in Values /\ ~InChannel(u)
      /\ \A c \in Consumers : local[c][u] = 0
  BY <1>0, NextIsUnsent
<1>2. /\ chan' = Append(chan, u) /\ local' = local
      /\ next' = [next EXCEPT ![p] = @ + 1]
  BY DEF Send, sums
<1>3. /\ Len(chan') = Len(chan) + 1 /\ chan'[Len(chan) + 1] = u
      /\ \A i \in 1 .. Len(chan) : chan'[i] = chan[i]
      /\ Len(chan) \in Nat
  BY <1>0, <1>1, <1>2, SumTypes, AppendProperties
<1>. HIDE DEF u
<1>4. \A i, j \in 1 .. Len(chan') : chan'[i] = chan'[j] => i = j
  BY <1>0, <1>1, <1>3 DEF InOnePlace, InChannel
<1>5. ASSUME NEW v \in Values PROVE InChannel(v)' <=> InChannel(v) \/ v = u
  BY <1>3 DEF InChannel
<1>6. ASSUME NEW v \in Values PROVE ReceivedOnce(v)' <=> ReceivedOnce(v)
  BY <1>2 DEF ReceivedOnce
<1>7. ASSUME NEW v \in Values
      PROVE  /\ v[2] < next'[v[1]] <=> v[2] < next[v[1]] \/ v = u
             /\ v[2] \in Nat /\ next[v[1]] \in Nat /\ next'[v[1]] \in Nat
  <2>1. v[1] \in Producers /\ v[2] \in Nat
    BY Pairs
  <2>2. next \in [Producers -> Nat] /\ next' \in [Producers -> Nat]
    BY <1>0, <1>2, Types
  <2>. QED  BY <1>0, <1>2, <2>1, <2>2, OneMoreSent DEF u
<1>8. ASSUME NEW v \in Values
      PROVE  /\ v[2] >= next'[v[1]] => ~InChannel(v)'
             /\ v[2] >= next'[v[1]] \/ InChannel(v)' => \A c \in Consumers : local'[c][v] = 0
             /\ v[2] < next'[v[1]] => InChannel(v)' \/ ReceivedOnce(v)'
  BY <1>0, <1>1, <1>2, <1>5, <1>6, <1>7 DEF InOnePlace
<1>. QED  BY <1>4, <1>8 DEF InOnePlace

\* Both ways to receive: a value that is nowhere else gets into one sum.
LEMMA ReceiveOnce ==
    ASSUME TypeOK, NEW c \in Consumers, NEW u \in Values, Add(c, u),
           \A d \in Consumers : local[d][u] = 0
    PROVE  /\ ReceivedOnce(u)' /\ ~ReceivedOnce(u)
           /\ \A v \in Values \ {u} :
                 /\ \A d \in Consumers : local'[d][v] = local[d][v]
                 /\ ReceivedOnce(v)' <=> ReceivedOnce(v)
<1>1. \A d \in Consumers, v \in Values :
         local'[d][v] = IF d = c /\ v = u THEN local[d][v] + 1 ELSE local[d][v]
  BY SumTypes DEF Add
<1>2. local'[c][u] = 1 /\ \A d \in Consumers \ {c} : local'[d][u] = 0
  BY <1>1
<1>3. ReceivedOnce(u)'
  BY <1>2 DEF ReceivedOnce
<1>4. ~ReceivedOnce(u)
  BY DEF ReceivedOnce
<1>5. ASSUME NEW v \in Values \ {u}
      PROVE  /\ \A d \in Consumers : local'[d][v] = local[d][v]
             /\ ReceivedOnce(v)' <=> ReceivedOnce(v)
  BY <1>1 DEF ReceivedOnce
<1>. QED  BY <1>3, <1>4, <1>5

LEMMA HandoffKeeps ==
    ASSUME IInv, NEW p \in Producers, NEW c \in Consumers, Handoff(p, c)
    PROVE  InOnePlace'
<1>0. TypeOK /\ InOnePlace /\ Sending(p)
  BY DEF IInv, Handoff
<1>1. PICK u \in Values :
         /\ u = <<p, next[p]>> /\ ~InChannel(u)
         /\ \A d \in Consumers : local[d][u] = 0
  BY <1>0, NextIsUnsent
<1>2. /\ chan' = chan /\ Add(c, u)
      /\ next' = [next EXCEPT ![p] = @ + 1]
  BY <1>1 DEF Handoff, queue
<1>3. ASSUME NEW v \in Values
      PROVE  /\ v[2] < next'[v[1]] <=> v[2] < next[v[1]] \/ v = u
             /\ v[2] \in Nat /\ next[v[1]] \in Nat /\ next'[v[1]] \in Nat
  <2>1. v[1] \in Producers /\ v[2] \in Nat
    BY Pairs
  <2>2. next \in [Producers -> Nat] /\ next' \in [Producers -> Nat]
    BY <1>0, <1>2, Types
  <2>. QED  BY <1>0, <1>1, <1>2, <2>1, <2>2, OneMoreSent
<1>4. /\ ReceivedOnce(u)'
      /\ \A v \in Values \ {u} :
            /\ \A d \in Consumers : local'[d][v] = local[d][v]
            /\ ReceivedOnce(v)' <=> ReceivedOnce(v)
  BY <1>0, <1>1, <1>2, ReceiveOnce
<1>5. ASSUME NEW v \in Values PROVE InChannel(v)' <=> InChannel(v)
  BY <1>2 DEF InChannel
<1>6. ASSUME NEW v \in Values
      PROVE  /\ v[2] >= next'[v[1]] => ~InChannel(v)'
             /\ v[2] >= next'[v[1]] \/ InChannel(v)' => \A d \in Consumers : local'[d][v] = 0
             /\ v[2] < next'[v[1]] => InChannel(v)' \/ ReceivedOnce(v)'
  <2>1. CASE v = u
    BY <1>1, <1>3, <1>4, <1>5, <2>1
  <2>2. CASE v # u
    BY <1>0, <1>3, <1>4, <1>5, <2>2 DEF InOnePlace
  <2>. QED  BY <2>1, <2>2
<1>7. \A i, j \in 1 .. Len(chan') : chan'[i] = chan'[j] => i = j
  BY <1>0, <1>2 DEF InOnePlace
<1>. QED  BY <1>6, <1>7 DEF InOnePlace

LEMMA RecvKeeps ==
    ASSUME IInv, NEW c \in Consumers, Recv(c)
    PROVE  InOnePlace'
<1>0. TypeOK /\ InOnePlace /\ chan # <<>>
  BY DEF IInv, Recv
<1>a. PICK u \in Values : u = Head(chan)
  BY <1>0, SumTypes, HeadTailProperties
<1>1. chan' = Tail(chan) /\ Add(c, u) /\ next' = next
  BY <1>a DEF Recv
<1>2. /\ u = chan[1] /\ Len(chan) \in Nat \ {0}
      /\ Len(chan') = Len(chan) - 1
      /\ \A i \in 1 .. Len(chan') : chan'[i] = chan[i + 1]
  BY <1>0, <1>a, <1>1, SumTypes, HeadTailProperties, EmptySeq
<1>3. InChannel(u)
  BY <1>2 DEF InChannel
<1>4. \A d \in Consumers : local[d][u] = 0
  BY <1>0, <1>2, <1>3 DEF InOnePlace
<1>5. /\ ReceivedOnce(u)'
      /\ \A v \in Values \ {u} :
            /\ \A d \in Consumers : local'[d][v] = local[d][v]
            /\ ReceivedOnce(v)' <=> ReceivedOnce(v)
  BY <1>0, <1>1, <1>2, <1>4, ReceiveOnce
<1>6. \A i, j \in 1 .. Len(chan') : chan'[i] = chan'[j] => i = j
  <2>. SUFFICES ASSUME NEW i \in 1 .. Len(chan'), NEW j \in 1 .. Len(chan'),
                       chan'[i] = chan'[j]
                PROVE  i = j
    OBVIOUS
  <2>1. i + 1 \in 1 .. Len(chan) /\ j + 1 \in 1 .. Len(chan)
    BY <1>2
  <2>2. chan[i + 1] = chan[j + 1]
    BY <1>2
  <2>3. i + 1 = j + 1
    BY <1>0, <2>1, <2>2 DEF InOnePlace
  <2>. QED  BY <2>3
<1>7. ASSUME NEW v \in Values PROVE InChannel(v)' <=> InChannel(v) /\ v # u
  <2>1. ASSUME InChannel(v)' PROVE InChannel(v) /\ v # u
    <3>1. PICK i \in 1 .. Len(chan') : chan'[i] = v
      BY <2>1 DEF InChannel
    <3>2. i + 1 \in 1 .. Len(chan) /\ chan[i + 1] = v /\ i + 1 # 1
      BY <1>2, <3>1
    <3>3. 1 \in 1 .. Len(chan)
      BY <1>2
    <3>4. v # chan[1]
      BY <1>0, <3>2, <3>3 DEF InOnePlace
    <3>. QED  BY <1>2, <3>2, <3>4 DEF InChannel
  <2>2. ASSUME InChannel(v), v # u PROVE InChannel(v)'
    <3>1. PICK i \in 1 .. Len(chan) : chan[i] = v
      BY <2>2 DEF InChannel
    <3>2. i # 1
      BY <1>2, <2>2, <3>1
    <3>3. i - 1 \in 1 .. Len(chan') /\ chan'[i - 1] = chan[(i - 1) + 1]
      BY <1>2, <3>2
    <3>4. (i - 1) + 1 = i
      OBVIOUS
    <3>. QED  BY <3>1, <3>3, <3>4 DEF InChannel
  <2>. QED  BY <2>1, <2>2
<1>8. ASSUME NEW v \in Values
      PROVE  /\ v[2] >= next'[v[1]] => ~InChannel(v)'
             /\ v[2] >= next'[v[1]] \/ InChannel(v)' => \A d \in Consumers : local'[d][v] = 0
             /\ v[2] < next'[v[1]] => InChannel(v)' \/ ReceivedOnce(v)'
  <2>1. CASE v = u
    <3>1. ~(v[2] >= next[v[1]])
      BY <1>0, <1>2, <1>3, <2>1 DEF InOnePlace
    <3>. QED  BY <1>1, <1>5, <1>7, <2>1, <3>1
  <2>2. CASE v # u
    BY <1>0, <1>1, <1>5, <1>7, <2>2 DEF InOnePlace
  <2>. QED  BY <2>1, <2>2
<1>. QED  BY <1>6, <1>8 DEF InOnePlace

LEMMA NextInOnePlace == IInv /\ [Next]_vars => InOnePlace'
<1>. SUFFICES ASSUME IInv, [Next]_vars PROVE InOnePlace'
  OBVIOUS
<1>1. ASSUME UNCHANGED <<chan, next, local>> PROVE InOnePlace'
  BY <1>1 DEF IInv, InOnePlace, InChannel, ReceivedOnce
<1>2. CASE StartConsumers \/ StartProducers \/ WaitProducers \/ Close \/ ReadSums
           \/ UNCHANGED vars
  BY <1>1, <1>2 DEF StartConsumers, StartProducers, WaitProducers, Close, ReadSums, vars,
     queue, sums
<1>3. ASSUME NEW p \in Producers, SentAll(p) \/ ProducerClose(p) \/ ProducerDone(p)
      PROVE  InOnePlace'
  BY <1>1, <1>3 DEF SentAll, ProducerClose, ProducerDone, queue, sums
<1>4. ASSUME NEW c \in Consumers, RangeEnds(c) \/ StoreSum(c) \/ ConsumerDone(c)
      PROVE  InOnePlace'
  BY <1>1, <1>4 DEF RangeEnds, StoreSum, ConsumerDone, queue, sums
<1>. QED
  BY <1>2, <1>3, <1>4, SendKeeps, HandoffKeeps, RecvKeeps, NextCases

-----------------------------------------------------------------------------

\* The counters of the WaitGroups stay in their range, in particular above
\* zero: an additional Done would panic.
LEMMA GroupTypes ==
    ASSUME IInv, [Next]_vars
    PROVE  wg' \in [{"producers", "consumers"} -> 0 .. P + C]
<1>1. TypeOK /\ Groups'
  BY NextGroups DEF IInv
<1>2. wg' = [g \in {"producers", "consumers"} |-> wg'[g]]
  <2>1. wg = [g \in {"producers", "consumers"} |-> wg[g]]
    BY <1>1, Types
  <2>2. CASE StartConsumers
    <3>1. \E n : wg' = [wg EXCEPT !["consumers"] = n]
      BY <2>2 DEF StartConsumers
    <3>. QED  BY <2>1, <3>1
  <2>3. CASE StartProducers
    <3>1. wg' = wg \/ wg' = [wg EXCEPT !["producers"] = P]
      BY <2>3 DEF StartProducers
    <3>. QED  BY <2>1, <3>1
  <2>4. CASE WaitProducers \/ Close \/ ReadSums \/ UNCHANGED vars
    BY <2>1, <2>4 DEF WaitProducers, Close, ReadSums, vars
  <2>5. ASSUME NEW p \in Producers, SentAll(p) \/ ProducerClose(p)
        PROVE  wg' = wg
    BY <2>5 DEF SentAll, ProducerClose
  <2>6. ASSUME NEW p \in Producers, ProducerDone(p)
        PROVE  wg' = [wg EXCEPT ![ProducersGroup] = @ - 1]
    BY <2>6 DEF ProducerDone
  <2>7. ASSUME NEW c \in Consumers, RangeEnds(c) \/ StoreSum(c)
        PROVE  wg' = wg
    BY <2>7 DEF RangeEnds, StoreSum
  <2>8. ASSUME NEW c \in Consumers, ConsumerDone(c)
        PROVE  wg' = [wg EXCEPT !["consumers"] = @ - 1]
    BY <2>8 DEF ConsumerDone
  <2>9. ASSUME SameRoutines PROVE wg' = wg
    BY <2>9 DEF SameRoutines
  <2>. QED
    BY <2>1, <2>2, <2>3, <2>4, <2>5, <2>6, <2>7, <2>8, <2>9, NextCases, MovesValues
<1>3. /\ Cardinality(BusyProducers)' \in 0 .. P
      /\ Cardinality(BusyConsumers)' \in 0 .. C
  <2>1. /\ IsFiniteSet(1 .. P) /\ Cardinality(1 .. P) = P
        /\ IsFiniteSet(1 .. C) /\ Cardinality(1 .. C) = C
    BY FS_Interval
  <2>2. BusyProducers' \subseteq 1 .. P /\ BusyConsumers' \subseteq 1 .. C
    BY DEF BusyProducers, BusyConsumers, Producers, Consumers
  <2>3. IsFiniteSet(BusyProducers') /\ Cardinality(BusyProducers') <= P
    BY <2>1, <2>2, FS_Subset
  <2>4. IsFiniteSet(BusyConsumers') /\ Cardinality(BusyConsumers') <= C
    BY <2>1, <2>2, FS_Subset
  <2>5. Cardinality(BusyProducers') \in Nat /\ Cardinality(BusyConsumers') \in Nat
    BY <2>3, <2>4, FS_CardinalityType
  <2>. QED  BY <2>3, <2>4, <2>5
<1>4. wg'["producers"] \in 0 .. P + C /\ wg'["consumers"] \in 0 .. P + C
  BY <1>1, <1>3 DEF Groups
<1>. QED  BY <1>2, <1>4

LEMMA NextTypeOK == IInv /\ [Next]_vars => TypeOK'
<1>. SUFFICES ASSUME IInv, [Next]_vars PROVE TypeOK'
  OBVIOUS
<1>0. TypeOK
  BY DEF IInv
<1>1. wg' \in [{"producers", "consumers"} -> 0 .. P + C]
  BY GroupTypes
<1>2. closed' \in 0 .. P + 1
  BY NextCloses DEF Closes
<1>. DEFINE Setup  == /\ workload \in {"spsc", "mpsc", "mpmc"}
                      /\ capacity \in Capacities
            Places == /\ mainpc \in {"consumers", "producers", "wait", "close", "sums", "reported"}
                      /\ ppc \in [Producers -> {"new", "send", "close", "done", "end"}]
                      /\ cpc \in [Consumers -> {"new", "recv", "store", "done", "end"}]
            Queue  == chan \in Seq(Values) /\ Len(chan) <= capacity
            Sums   == /\ local \in [Consumers -> [Values -> Nat]]
                      /\ slot \in [Consumers -> [Values -> Nat]]
                      /\ DOMAIN total = Values
                      /\ reported \in BOOLEAN
            Nexts  == next \in [Producers -> 1 .. Per + 1]
<1>3. Setup /\ Places /\ Queue /\ Sums /\ Nexts
  BY <1>0 DEF TypeOK
<1>4. SUFFICES (Setup /\ Places /\ Queue /\ Sums /\ Nexts)'
  BY <1>1, <1>2, Zenon DEF TypeOK
<1>5. CASE StartConsumers \/ StartProducers \/ WaitProducers \/ Close \/ ReadSums \/ UNCHANGED vars
  <2>1. UNCHANGED <<setup, chan, next, local, slot>>
    BY <1>5 DEF StartConsumers, StartProducers, WaitProducers, Close, ReadSums, vars, queue, sums
  <2>2. DOMAIN total' = Values /\ reported' \in BOOLEAN
    BY <1>3, <1>5 DEF StartConsumers, StartProducers, WaitProducers, Close, ReadSums, vars, sums
  <2>3. Places'
    BY <1>3, <1>5 DEF StartConsumers, StartProducers, WaitProducers, Close, ReadSums, vars,
       routines
  <2>. QED  BY <1>3, <2>1, <2>2, <2>3 DEF setup
<1>6. ASSUME NEW p \in Producers, SentAll(p) \/ ProducerClose(p) \/ ProducerDone(p)
      PROVE  (Setup /\ Places /\ Queue /\ Sums /\ Nexts)'
  <2>1. UNCHANGED <<setup, mainpc, cpc, chan, next, sums, reported>>
    BY <1>6 DEF SentAll, ProducerClose, ProducerDone, queue
  <2>2. Places'
    BY <1>3, <1>6, <2>1 DEF SentAll, ProducerClose, ProducerDone, PStep
  <2>. QED  BY <1>3, <2>1, <2>2 DEF setup, sums
<1>7. ASSUME NEW c \in Consumers, RangeEnds(c) \/ StoreSum(c) \/ ConsumerDone(c)
      PROVE  (Setup /\ Places /\ Queue /\ Sums /\ Nexts)'
  <2>1. UNCHANGED <<setup, mainpc, ppc, chan, next, local, total, reported>>
    BY <1>7 DEF RangeEnds, StoreSum, ConsumerDone, queue, sums
  <2>2. Places'
    BY <1>3, <1>7, <2>1 DEF RangeEnds, StoreSum, ConsumerDone, CStep
  <2>3. slot' \in [Consumers -> [Values -> Nat]]
    BY <1>3, <1>7 DEF RangeEnds, StoreSum, ConsumerDone, sums
  <2>. QED  BY <1>3, <2>1, <2>2, <2>3 DEF setup
<1>8. ASSUME NEW p \in Producers, Sending(p), next' = [next EXCEPT ![p] = @ + 1] PROVE Nexts'
  <2>1. next[p] + 1 \in 1 .. Per + 1
    BY <1>3, <1>8 DEF Sending
  <2>. QED  BY <1>3, <1>8, <2>1
<1>9. ASSUME NEW c \in Consumers, NEW v \in Values, Add(c, v)
      PROVE  local' \in [Consumers -> [Values -> Nat]]
  BY <1>3, <1>9 DEF Add
<1>10. ASSUME NEW p \in Producers, Send(p)
       PROVE  (Setup /\ Places /\ Queue /\ Sums /\ Nexts)'
  <2>1. UNCHANGED <<setup, mainpc, routines, sums, reported>>
    BY <1>10 DEF Send
  <2>2. Nexts' /\ <<p, next[p]>> \in Values
    BY <1>8, <1>10, NextIsUnsent DEF Send
  <2>3. /\ chan' \in Seq(Values) /\ Len(chan') = Len(chan) + 1
        /\ Len(chan) < capacity /\ Len(chan) \in Nat /\ capacity \in Nat
    BY <1>0, <1>3, <1>10, <2>2, SumTypes, AppendProperties DEF Send
  <2>. QED  BY <1>3, <2>1, <2>2, <2>3 DEF setup, routines, sums
<1>11. ASSUME NEW p \in Producers, NEW c \in Consumers, Handoff(p, c)
       PROVE  (Setup /\ Places /\ Queue /\ Sums /\ Nexts)'
  <2>1. UNCHANGED <<setup, mainpc, routines, chan, slot, total, reported>>
    BY <1>11 DEF Handoff, queue
  <2>2. Nexts' /\ <<p, next[p]>> \in Values
    BY <1>8, <1>11, NextIsUnsent DEF Handoff
  <2>3. local' \in [Consumers -> [Values -> Nat]]
    BY <1>9, <1>11, <2>2 DEF Handoff
  <2>. QED  BY <1>3, <2>1, <2>2, <2>3 DEF setup, routines
<1>12. ASSUME NEW c \in Consumers, Recv(c)
       PROVE  (Setup /\ Places /\ Queue /\ Sums /\ Nexts)'
  <2>1. UNCHANGED <<setup, mainpc, routines, next, slot, total, reported>>
    BY <1>12 DEF Recv
  <2>2. /\ Head(chan) \in Values /\ chan' \in Seq(Values) /\ Len(chan') = Len(chan) - 1
        /\ Len(chan) \in Nat /\ capacity \in Nat
    BY <1>0, <1>3, <1>12, SumTypes, HeadTailProperties DEF Recv
  <2>3. local' \in [Consumers -> [Values -> Nat]]
    BY <1>9, <1>12, <2>2 DEF Recv
  <2>. QED  BY <1>3, <2>1, <2>2, <2>3 DEF setup, routines
<1>. QED  BY <1>5, <1>6, <1>7, <1>10, <1>11, <1>12, NextCases

\* The invariant holds in every state.
THEOREM Inductive == Spec => []IInv
<1>1. IInv /\ [Next]_vars => IInv'
  BY NextTypeOK, NextPositions, NextGroups, NextWaited, NextCloses, NextLeaving,
     NextInOnePlace DEF IInv
<1>. QED  BY <1>1, InitIInv, PTL DEF Spec

-----------------------------------------------------------------------------

LEMMA IInvCloseIsSafe == IInv => CloseIsSafe
<1>. SUFFICES ASSUME IInv PROVE CloseIsSafe
  OBVIOUS
<1>0. TypeOK /\ Positions /\ Closes
  BY DEF IInv
<1>1. NeverSendOnClosed
  BY ClosedMeansSent DEF NeverSendOnClosed
<1>2. ClosedOnce
  <2>1. closed <= 1
    BY <1>0 DEF Closes
  <2>2. ASSUME closed = 1 PROVE mainpc # "close"
    BY <1>0, <2>2 DEF Closes, Positions
  <2>3. ASSUME closed = 1, NEW p \in Producers PROVE ppc[p] # "close"
    <3>1. CASE p \in 1 .. NumProducers
      BY <2>3, <3>1, ClosedMeansSent
    <3>2. CASE p \notin 1 .. NumProducers
      BY <1>0, <2>3, <3>2, NumbersOfRoutines DEF Positions, Producers
    <3>. QED  BY <3>1, <3>2
  <2>. QED  BY <2>1, <2>2, <2>3 DEF ClosedOnce
<1>. QED  BY <1>0, <1>1, <1>2 DEF CloseIsSafe

\* No producer sends on a closed channel and nobody closes it again.
THEOREM NobodyPanics == Spec => []CloseIsSafe
BY Inductive, IInvCloseIsSafe, PTL

\* When the main goroutine reads the sums nobody is busy.
LEMMA NobodyIsBusy ==
    ASSUME IInv, (mainpc = "sums" /\ wg["consumers"] = 0) \/ mainpc = "reported"
    PROVE  \A c \in Consumers : cpc[c] \in {"new", "end"}
<1>1. BusyConsumers = {}
  <2>1. CASE mainpc = "reported"
    BY <2>1 DEF IInv, Waited
  <2>2. CASE wg["consumers"] = 0
    <3>1. Cardinality(BusyConsumers) = 0
      BY <2>2, BusyFinite DEF IInv, Groups
    <3>. QED  BY <3>1, BusyFinite, FS_EmptySet
  <2>. QED  BY <2>1, <2>2
<1>. QED  BY <1>1 DEF BusyConsumers

LEMMA SlotsAreLocal ==
    ASSUME IInv, (mainpc = "sums" /\ wg["consumers"] = 0) \/ mainpc = "reported"
    PROVE  (\A c \in Consumers : cpc[c] \in {"new", "end"}) /\ slot = local
<1>1. \A c \in Consumers : cpc[c] \in {"new", "end"}
  BY NobodyIsBusy
<1>2. \A c \in Consumers : slot[c] = local[c]
  BY <1>1 DEF IInv, Leaving
<1>3. slot = local
  BY <1>2, SumTypes DEF IInv
<1>. QED  BY <1>1, <1>3

-----------------------------------------------------------------------------
(* What has been received when the sums are read.                          *)

\* Only producers that exist have sent anything.
LEMMA SentIsToSend ==
    ASSUME IInv, NEW v \in Values, v[2] < next[v[1]]
    PROVE  v \in ToSend
<1>1. v[1] \in Producers /\ v[2] \in 1 .. Per /\ v = <<v[1], v[2]>>
  BY Pairs
<1>2. next[v[1]] # 1
  BY <1>1
<1>3. ppc[v[1]] # "new"
  BY <1>1, <1>2 DEF IInv, Leaving
<1>4. v[1] \in 1 .. NumProducers
  BY <1>1, <1>3, NumbersOfRoutines DEF IInv, Positions, Producers
<1>. QED  BY <1>1, <1>4 DEF ToSend

LEMMA AllReceived ==
    ASSUME IInv, mainpc = "sums", wg["consumers"] = 0, NEW v \in Values
    PROVE  /\ ReceivedOnce(v) <=> v \in ToSend
           /\ v \notin ToSend => \A c \in Consumers : local[c][v] = 0
<1>0. TypeOK /\ Positions /\ Leaving /\ InOnePlace
  BY DEF IInv
<1>1. cpc[1] = "end"
  <2>1. 1 \in Consumers /\ 1 \in 1 .. NumConsumers
    BY NumbersOfRoutines DEF Consumers
  <2>. QED  BY <1>0, <2>1, NobodyIsBusy DEF Positions
<1>2. closed > 0 /\ chan = <<>>
  BY <1>0, <1>1 DEF Leaving, Consumers
<1>3. v[1] \in Producers /\ v[2] \in 1 .. Per /\ next[v[1]] \in Nat
  BY <1>0, Pairs, Types
<1>4. ASSUME v \in ToSend PROVE ReceivedOnce(v)
  <2>1. v[1] \in 1 .. NumProducers
    BY <1>4 DEF ToSend
  <2>2. next[v[1]] = Per + 1
    BY <1>0, <1>2, <1>3, <2>1, ClosedMeansSent DEF Leaving
  <2>3. ~InChannel(v)
    BY <1>2 DEF InChannel
  <2>. QED  BY <1>0, <1>3, <2>2, <2>3 DEF InOnePlace
<1>5. ASSUME v \notin ToSend PROVE \A c \in Consumers : local[c][v] = 0
  <2>1. v[2] >= next[v[1]]
    BY <1>3, <1>5, SentIsToSend
  <2>. QED  BY <1>0, <2>1 DEF InOnePlace
<1>6. ASSUME ReceivedOnce(v) PROVE v \in ToSend
  BY <1>5, <1>6 DEF ReceivedOnce
<1>. QED  BY <1>4, <1>5, <1>6

\* A sum whose terms are 0 but for one that is 1: the fold finds that one,
\* whichever term it takes next.
LEMMA SumOfOne ==
    ASSUME NEW S, IsFiniteSet(S), NEW one, NEW f, f = [c \in S |-> IF c = one THEN 1 ELSE 0]
    PROVE  SumFunction(f) = IF one \in S THEN 1 ELSE 0
<1>. DEFINE h(s) == IF one \in s THEN 1 ELSE 0
            some(s) == CHOOSE x \in s : TRUE
<1>0. \A s \in SUBSET S : IsFiniteSet(s) /\ Cardinality(s) \in Nat
  BY FS_Subset, FS_CardinalityType
<1>1. ASSUME NEW s \in SUBSET S, s # {}
      PROVE  some(s) \in s /\ h(s) = f[some(s)] + h(s \ {some(s)})
  <2>1. some(s) \in s
    BY <1>1
  <2>. HIDE DEF some
  <2>2. some(s) \in S /\ f[some(s)] = IF some(s) = one THEN 1 ELSE 0
    BY <2>1
  <2>. QED  BY <2>1, <2>2
<1>2. h({}) = 0
  OBVIOUS
<1>. HIDE DEF h
<1>3. \E F : F = [s \in SUBSET S |->
          IF s = {} THEN 0 ELSE LET x == CHOOSE x \in s : TRUE IN f[x] + F[s \ {x}]]
  <2>. DEFINE H == [s \in SUBSET S |-> h(s)]
              e(s) == IF s = {} THEN 0 ELSE f[some(s)] + H[s \ {some(s)}]
  <2>1. \A s \in SUBSET S : h(s) = e(s)
    <3>. HIDE DEF some
    <3>. QED  BY <1>1, <1>2
  <2>2. [s \in SUBSET S |-> h(s)] = [s \in SUBSET S |-> e(s)]
    <3>. HIDE DEF e
    <3>. QED  BY <2>1
  <2>3. H = [s \in SUBSET S |-> IF s = {} THEN 0 ELSE f[some(s)] + H[s \ {some(s)}]]
    BY <2>2, Zenon
  <2>. QED  BY <2>3
<1>4. SumFunction(f) = MapThenFoldSet(+, 0, LAMBDA x : f[x], LAMBDA s : CHOOSE x \in s : TRUE, S)
  <2>1. DOMAIN f = S
    OBVIOUS
  <2>. QED  BY <2>1 DEF SumFunction, SumFunctionOnSet, FoldFunctionOnSet
<1>5. PICK F : /\ F = [s \in SUBSET S |->
                    IF s = {} THEN 0 ELSE LET x == CHOOSE x \in s : TRUE IN f[x] + F[s \ {x}]]
               /\ SumFunction(f) = F[S]
  BY <1>3, <1>4 DEF MapThenFoldSet
<1>6. \A s \in SUBSET S : F[s] = IF s = {} THEN 0 ELSE f[some(s)] + F[s \ {some(s)}]
  BY <1>5
\* Otherwise take a smallest subset for which the fold is wrong.
<1>7. \A s \in SUBSET S : F[s] = h(s)
  <2>. DEFINE Wrong == {s \in SUBSET S : F[s] # h(s)}
              Sizes == {Cardinality(s) : s \in Wrong}
              R == {ss \in Nat \X Nat : ss[1] < ss[2]}
  <2>. HIDE DEF some
  <2>. SUFFICES ASSUME Wrong # {} PROVE FALSE
    OBVIOUS
  <2>1. IsWellFoundedOn(R, Nat)
    BY NatLessThanWellFounded DEF OpToRel
  <2>2. Sizes \in SUBSET Nat /\ Sizes # {}
    BY <1>0
  <2>. HIDE DEF R, Sizes
  <2>3. PICK n \in Sizes : \A m \in Sizes : ~(<<m, n>> \in R)
    BY <2>1, <2>2, WFMin
  <2>4. PICK s \in Wrong : Cardinality(s) = n
    BY <2>3 DEF Sizes
  <2>5. s \in SUBSET S /\ F[s] # h(s) /\ s # {}
    BY <1>2, <1>6, <2>4
  <2>6. some(s) \in s /\ h(s) = f[some(s)] + h(s \ {some(s)})
    BY <1>1, <2>5
  <2>7. s \ {some(s)} \in Wrong
    BY <1>6, <2>5, <2>6
  <2>8. Cardinality(s \ {some(s)}) = n - 1
    BY <1>0, <2>4, <2>5, <2>6, FS_RemoveElement
  <2>9. n - 1 \in Sizes
    BY <2>7, <2>8 DEF Sizes
  <2>10. n \in Nat /\ n - 1 \in Nat /\ n - 1 < n
    <3>1. n \in Nat /\ n - 1 \in Nat
      BY <2>2, <2>3, <2>9
    <3>. QED  BY <3>1
  <2>11. <<n - 1, n>> \in R
    BY <2>10 DEF R
  <2>. QED  BY <2>3, <2>9, <2>11
<1>. QED  BY <1>5, <1>7 DEF h

\* What is reported is every value that was to be sent, once.
Complete == reported => total = [v \in Values |-> IF v \in ToSend THEN 1 ELSE 0]

LEMMA SlotsAddUp ==
    ASSUME IInv, ReadSums
    PROVE  total' = [v \in Values |-> IF v \in ToSend THEN 1 ELSE 0]
<1>1. mainpc = "sums" /\ wg["consumers"] = 0
  BY DEF ReadSums
<1>2. total' = [v \in Values |-> SumFunction([c \in Consumers |-> local[c][v]])]
  BY <1>1, SlotsAreLocal DEF ReadSums
<1>3. IsFiniteSet(Consumers) /\ 0 \notin Consumers
  BY FS_Interval DEF Consumers
<1>4. ASSUME NEW v \in Values
      PROVE  SumFunction([c \in Consumers |-> local[c][v]]) = IF v \in ToSend THEN 1 ELSE 0
  <2>. DEFINE f == [c \in Consumers |-> local[c][v]]
  <2>1. CASE v \in ToSend
    <3>1. PICK d \in Consumers : local[d][v] = 1 /\ \A c \in Consumers \ {d} : local[c][v] = 0
      BY <1>1, <2>1, AllReceived DEF ReceivedOnce
    <3>2. f = [c \in Consumers |-> IF c = d THEN 1 ELSE 0]
      BY <3>1
    <3>. HIDE DEF f
    <3>3. SumFunction(f) = IF d \in Consumers THEN 1 ELSE 0
      BY <1>3, <3>2, SumOfOne
    <3>. QED  BY <2>1, <3>3 DEF f
  <2>2. CASE v \notin ToSend
    <3>1. \A c \in Consumers : local[c][v] = 0
      BY <1>1, <2>2, AllReceived
    <3>2. f = [c \in Consumers |-> IF c = 0 THEN 1 ELSE 0]
      BY <1>3, <3>1
    <3>. HIDE DEF f
    <3>3. SumFunction(f) = IF 0 \in Consumers THEN 1 ELSE 0
      BY <1>3, <3>2, SumOfOne
    <3>. QED  BY <1>3, <2>2, <3>3 DEF f
  <2>. QED  BY <2>1, <2>2
<1>. QED  BY <1>2, <1>4

LEMMA NextComplete == IInv /\ Complete /\ [Next]_vars => Complete'
<1>. SUFFICES ASSUME IInv, Complete, [Next]_vars PROVE Complete'
  OBVIOUS
<1>1. CASE ReadSums
  <2>1. ToSend' = ToSend
    BY <1>1 DEF ReadSums, setup, ToSend, NumProducers
  <2>. QED  BY <1>1, <2>1, SlotsAddUp DEF Complete
<1>2. ASSUME UNCHANGED <<workload, total, reported>> PROVE Complete'
  <2>1. ToSend' = ToSend
    BY <1>2 DEF ToSend, NumProducers
  <2>. QED  BY <1>2, <2>1 DEF Complete
<1>3. CASE StartConsumers \/ StartProducers \/ WaitProducers \/ Close \/ UNCHANGED vars
  BY <1>2, <1>3 DEF StartConsumers, StartProducers, WaitProducers, Close, vars, setup, sums
<1>4. ASSUME NEW p \in Producers, SentAll(p) \/ ProducerClose(p) \/ ProducerDone(p)
      PROVE  Complete'
  BY <1>2, <1>4 DEF SentAll, ProducerClose, ProducerDone, setup, sums
<1>5. ASSUME NEW c \in Consumers, RangeEnds(c) \/ StoreSum(c) \/ ConsumerDone(c)
      PROVE  Complete'
  BY <1>2, <1>5 DEF RangeEnds, StoreSum, ConsumerDone, setup, sums
<1>6. ASSUME NEW p \in Producers, NEW c \in Consumers, Send(p) \/ Handoff(p, c) \/ Recv(c)
      PROVE  Complete'
  BY <1>2, <1>6, MovesValues DEF SameRoutines
<1>. QED  BY <1>1, <1>3, <1>4, <1>5, <1>6, NextCases

\* The slots are complete, and nobody writes to them, when they are read; and
\* so every value is in the report, once.
THEOREM SlotsAreReadLast == Spec => []NobodyWritesWhatIsRead
<1>1. Init => Complete
  BY DEF Init, Complete
<1>2. IInv /\ Complete => NobodyWritesWhatIsRead
  BY SlotsAreLocal DEF NobodyWritesWhatIsRead, Complete
<1>. QED  BY <1>1, <1>2, NextComplete, Inductive, PTL DEF Spec

-----------------------------------------------------------------------------
(* The pipeline implements ExactlyOnce: a consumer's receive is Account,   *)
(* the reading of the sums is Report, and every other step is a stutter.   *)

Accounted == {v \in Values : ReceivedOnce(v)}

LEMMA ReceiveAccounts ==
    ASSUME IInv, NEW c \in Consumers, NEW u \in Values, Add(c, u), cpc[c] = "recv",
           u \in ToSend, \A d \in Consumers : local[d][u] = 0,
           UNCHANGED <<workload, reported>>
    PROVE  EO!Account(u)
<1>1. ~reported
  <2>1. c \in BusyConsumers
    BY DEF BusyConsumers
  <2>. QED  BY <2>1 DEF IInv, Waited, Positions
<1>2. /\ ReceivedOnce(u)' /\ ~ReceivedOnce(u)
      /\ \A v \in Values \ {u} : ReceivedOnce(v)' <=> ReceivedOnce(v)
  BY ReceiveOnce DEF IInv
<1>3. u \notin Accounted
  BY <1>2 DEF Accounted
<1>4. Accounted' = Accounted \cup {u}
  BY <1>2 DEF Accounted
<1>5. ToSend' = ToSend
  BY DEF ToSend, NumProducers
<1>. QED  BY <1>1, <1>3, <1>4, <1>5 DEF EO!Account, Accounted

LEMMA HandoffAccounts ==
    ASSUME IInv, NEW p \in Producers, NEW c \in Consumers, Handoff(p, c)
    PROVE  EO!Next
<1>1. PICK u \in Values :
         u = <<p, next[p]>> /\ \A d \in Consumers : local[d][u] = 0
  BY NextIsUnsent DEF Handoff
<1>2. p \in 1 .. NumProducers
  BY NumbersOfRoutines DEF Handoff, Sending, IInv, Positions, Producers
<1>3. u \in ToSend
  BY <1>1, <1>2, Pairs DEF ToSend
<1>4. EO!Account(u)
  BY <1>1, <1>3, ReceiveAccounts DEF Handoff, setup
<1>. QED  BY <1>3, <1>4 DEF EO!Next

LEMMA RecvAccounts ==
    ASSUME IInv, NEW c \in Consumers, Recv(c)
    PROVE  EO!Next
<1>1. PICK u \in Values : u = Head(chan) /\ InChannel(u)
  <2>1. /\ Head(chan) \in Values /\ Head(chan) = chan[1] /\ 1 \in 1 .. Len(chan)
    BY SumTypes, HeadTailProperties, EmptySeq DEF IInv, Recv
  <2>. QED  BY <2>1 DEF InChannel
<1>2. \A d \in Consumers : local[d][u] = 0
  BY <1>1 DEF IInv, InOnePlace
<1>3. u[2] < next[u[1]]
  <2>1. u[1] \in Producers /\ u[2] \in Nat
    BY Pairs
  <2>2. next[u[1]] \in Nat
    BY <2>1, Types DEF IInv
  <2>. QED  BY <1>1, <2>1, <2>2 DEF IInv, InOnePlace
<1>4. u \in ToSend
  BY <1>3, SentIsToSend
<1>5. EO!Account(u)
  BY <1>1, <1>2, <1>4, ReceiveAccounts DEF Recv, setup
<1>. QED  BY <1>4, <1>5 DEF EO!Next

LEMMA ReadSumsReports ==
    ASSUME IInv, ReadSums
    PROVE  EO!Next
<1>0. Positions
  BY DEF IInv
<1>1. mainpc = "sums" /\ wg["consumers"] = 0
  BY DEF ReadSums
<1>4. \A v \in Values : ReceivedOnce(v) <=> v \in ToSend
  BY <1>1, AllReceived
<1>5. Accounted = ToSend
  <2>1. ToSend \subseteq Values
    BY NumbersOfRoutines DEF ToSend, Values
  <2>. QED  BY <1>4, <2>1 DEF Accounted
<1>6. Accounted' = Accounted /\ ToSend' = ToSend
  BY DEF ReadSums, setup, Accounted, ReceivedOnce, ToSend, NumProducers
<1>7. ~reported /\ reported' = TRUE
  BY <1>0, <1>1 DEF ReadSums, Positions
<1>. QED  BY <1>5, <1>6, <1>7 DEF EO!Next, EO!Report, Accounted

\* Every value enters the checksum once, and the report comes after all.
THEOREM Refinement == Spec => ImplementsExactlyOnce
<1>1. Init => EO!Init
  <2>1. Init => Accounted = {}
    BY DEF Init, Nothing, Accounted, ReceivedOnce
  <2>. QED  BY <2>1 DEF Init, EO!Init, Accounted
<1>2. IInv /\ [Next]_vars => [EO!Next]_(EO!vars)
  <2>. SUFFICES ASSUME IInv, [Next]_vars PROVE [EO!Next]_(EO!vars)
    OBVIOUS
  <2>1. ASSUME UNCHANGED <<workload, local, reported>> PROVE UNCHANGED EO!vars
    BY <2>1 DEF EO!vars, ToSend, NumProducers, ReceivedOnce
  <2>2. CASE StartConsumers \/ StartProducers \/ WaitProducers \/ Close \/ UNCHANGED vars
    BY <2>1, <2>2 DEF StartConsumers, StartProducers, WaitProducers, Close, vars, setup, sums
  <2>3. ASSUME NEW p \in Producers, SentAll(p) \/ ProducerClose(p) \/ ProducerDone(p) \/ Send(p)
        PROVE  UNCHANGED EO!vars
    BY <2>1, <2>3 DEF SentAll, ProducerClose, ProducerDone, Send, setup, sums
  <2>4. ASSUME NEW c \in Consumers, RangeEnds(c) \/ StoreSum(c) \/ ConsumerDone(c)
        PROVE  UNCHANGED EO!vars
    BY <2>1, <2>4 DEF RangeEnds, StoreSum, ConsumerDone, setup, sums
  <2>. QED
    BY <2>2, <2>3, <2>4, HandoffAccounts, RecvAccounts, ReadSumsReports, NextCases
<1>. QED  BY <1>1, <1>2, Inductive, PTL DEF Spec, EO!Spec, ImplementsExactlyOnce
=============================================================================
