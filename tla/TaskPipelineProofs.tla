------------------------- MODULE TaskPipelineProofs -------------------------
(***************************************************************************)
(* Proofs about TaskPipeline, for any number of producers, consumers and   *)
(* values, any capacity, and any size of a batch.                          *)
(***************************************************************************)
EXTENDS TaskPipeline, SequenceTheorems, TLAPS

\* Who exists, by where the workload's task is: spsc spawns its producer first,
\* the others their consumers.
Positions ==
    /\ \A p \in Producers : p > NumProducers => ppc[p] = "new"
    /\ \A c \in Consumers : c > NumConsumers => cpc[c] = "new"
    /\ workload = "spsc" /\ main = "producers" => \A c \in Consumers : cpc[c] = "new"
    /\ workload # "spsc" /\ main = "consumers" => \A p \in Producers : ppc[p] = "new"
    /\ main \in {"join", "reported"} \/ (workload = "spsc" /\ main = "consumers")
          => \A p \in 1 .. NumProducers : ppc[p] # "new"
    /\ main \in {"join", "reported"} \/ (workload # "spsc" /\ main = "producers")
          => \A c \in 1 .. NumConsumers : cpc[c] # "new"
    /\ main = "reported" => \A c \in Consumers : cpc[c] \in {"new", "end"}

\* Who owns a handle on the channel: spsc's sender and a single consumer's
\* receiver are moved, the others are cloned and dropped.
Handles ==
    /\ senders = {p \in Producers : ppc[p] = "send"}
         \cup IF IF workload = "spsc" THEN ppc[1] = "new" ELSE main \in {"consumers", "producers"}
              THEN {Main} ELSE {}
    /\ receivers = {c \in Consumers : cpc[c] \notin {"new", "end"}}
         \cup IF IF workload = "mpmc" THEN main = "consumers" ELSE cpc[1] = "new"
              THEN {Main} ELSE {}

\* Producers leave when they have sent everything, consumers when nobody can
\* send any more and the channel is empty, with empty buffers.
Leaving ==
    /\ \A p \in Producers : ppc[p] = "new" => next[p] = 1
    /\ \A p \in Producers : ppc[p] = "end" => next[p] = Per + 1
    /\ \A c \in Consumers : cpc[c] = "end" => senders = {} /\ chan = <<>>
    /\ \A c \in Consumers :
          cpc[c] \in {"new", "recv", "end"} \/ style # "batch" => buf[c] = <<>>

In(s, v)    == \E i \in 1 .. Len(s) : s[i] = v
Distinct(s) == \A i, j \in 1 .. Len(s) : s[i] = s[j] => i = j

Unsent(v)  == v[2] >= next[v[1]]
Queued(v)  == In(chan, v)
Kept(c, v) == In(buf[c], v)
Unadded(v) == \A c \in Consumers : sum[c][v] = 0

\* A value is unsent, or once in the channel, or once in one buffer, or once in
\* one sum.
InOnePlace ==
    /\ Distinct(chan)
    /\ \A c \in Consumers : Distinct(buf[c])
    /\ \A v \in Values :
          /\ Unsent(v) => ~Queued(v)
          /\ \A c \in Consumers : Kept(c, v) =>
                /\ ~Unsent(v) /\ ~Queued(v)
                /\ \A d \in Consumers : Kept(d, v) => c = d
          /\ Unsent(v) \/ Queued(v) \/ (\E c \in Consumers : Kept(c, v)) => Unadded(v)
          /\ Unsent(v) \/ Queued(v) \/ (\E c \in Consumers : Kept(c, v)) \/ AddedOnce(v)

IInv ==
    /\ TypeOK
    /\ Positions
    /\ Handles
    /\ Leaving
    /\ InOnePlace

-----------------------------------------------------------------------------

USE TaskPipelineAssumption

LEMMA NumbersOfTasks ==
    /\ NumProducers \in 1 .. P /\ NumConsumers \in 1 .. C
    /\ 1 .. NumProducers \subseteq Producers /\ 1 .. NumConsumers \subseteq Consumers
    /\ 1 \in 1 .. NumProducers /\ 1 \in 1 .. NumConsumers
    /\ Producers \subseteq Nat \ {0} /\ Consumers \subseteq Nat \ {0}
    /\ Main \notin Producers /\ Main \notin Consumers
    /\ workload = "spsc" => NumProducers = 1
    /\ workload # "mpmc" => NumConsumers = 1
BY DEF NumProducers, NumConsumers, Producers, Consumers, Main

LEMMA Types ==
    ASSUME TypeOK
    PROVE  /\ workload \in {"spsc", "mpsc", "mpmc"}
           /\ style \in {"one", "drain", "batch"}
           /\ main \in {"consumers", "producers", "join", "reported"}
           /\ ppc \in [Producers -> {"new", "send", "end"}]
           /\ cpc \in [Consumers -> {"new", "recv", "more", "add", "end"}]
           /\ next \in [Producers -> 1 .. Per + 1]
           /\ taken \in [Consumers -> 0 .. Batch]
BY DEF TypeOK, Styles

LEMMA DataTypes ==
    ASSUME TypeOK
    PROVE  /\ sum \in [Consumers -> [Values -> Nat]]
           /\ chan \in Seq(Values) /\ Len(chan) \in Nat
           /\ capacity \in Nat /\ Len(chan) <= capacity
           /\ buf \in [Consumers -> Seq(Values)]
           /\ \A c \in Consumers : Len(buf[c]) \in Nat /\ Len(buf[c]) <= taken[c]
BY DEF TypeOK

LEMMA Pairs ==
    /\ \A v \in Values : v[1] \in Producers /\ v[2] \in 1 .. Per /\ v = <<v[1], v[2]>>
    /\ \A p \in Producers, i \in 1 .. Per :
          <<p, i>> \in Values /\ <<p, i>>[1] = p /\ <<p, i>>[2] = i
BY DEF Values

\* Every step is one of these.
LEMMA NextCases ==
    ASSUME [Next]_vars
    PROVE  \/ \E p \in Producers : SpawnProducer(p) \/ Send(p) \/ ProducerEnd(p)
           \/ \E c \in Consumers :
                \/ SpawnConsumer(c) \/ Recv(c) \/ TryRecv(c) \/ StopBatch(c)
                \/ AddBuffered(c) \/ BufferEmpty(c) \/ ConsumerEnd(c)
           \/ DropRx \/ DropTx \/ Join
           \/ UNCHANGED vars
BY DEF Next, Producer, Consumer, Workload, Exited

\* What is in a sequence that has got one more element, or has lost its first.
LEMMA Appended ==
    ASSUME NEW s \in Seq(Values), NEW u \in Values, Distinct(s), ~In(s, u)
    PROVE  /\ Append(s, u) \in Seq(Values) /\ Len(Append(s, u)) = Len(s) + 1
           /\ Distinct(Append(s, u))
           /\ \A v : In(Append(s, u), v) <=> In(s, v) \/ v = u
<1>1. PICK t \in Seq(Values) : t = Append(s, u)
  BY AppendProperties
<1>2. /\ Len(t) = Len(s) + 1 /\ t[Len(s) + 1] = u /\ Len(s) \in Nat
      /\ \A i \in 1 .. Len(s) : t[i] = s[i]
  BY <1>1, AppendProperties
<1>3. Distinct(t)
  BY <1>2 DEF Distinct, In
<1>4. \A v : In(t, v) <=> In(s, v) \/ v = u
  BY <1>2 DEF In
<1>. QED  BY <1>1, <1>2, <1>3, <1>4

LEMMA Headless ==
    ASSUME NEW s \in Seq(Values), s # <<>>, Distinct(s)
    PROVE  /\ Head(s) \in Values /\ In(s, Head(s))
           /\ Tail(s) \in Seq(Values) /\ Len(Tail(s)) = Len(s) - 1
           /\ Distinct(Tail(s))
           /\ \A v : In(Tail(s), v) <=> In(s, v) /\ v # Head(s)
<1>1. PICK t \in Seq(Values), u \in Values : t = Tail(s) /\ u = Head(s)
  BY HeadTailProperties
<1>2. /\ u = s[1] /\ Len(s) \in Nat \ {0}
      /\ Len(t) = Len(s) - 1
      /\ \A i \in 1 .. Len(t) : t[i] = s[i + 1]
  BY <1>1, HeadTailProperties, EmptySeq
<1>3. In(s, u)
  BY <1>2 DEF In
<1>4. Distinct(t)
  <2>. SUFFICES ASSUME NEW i \in 1 .. Len(t), NEW j \in 1 .. Len(t), t[i] = t[j]
                PROVE  i = j
    BY DEF Distinct
  <2>1. i + 1 \in 1 .. Len(s) /\ j + 1 \in 1 .. Len(s) /\ s[i + 1] = s[j + 1]
    BY <1>2
  <2>2. i + 1 = j + 1
    BY <2>1 DEF Distinct
  <2>. QED  BY <2>2
<1>5. ASSUME NEW v PROVE In(t, v) <=> In(s, v) /\ v # u
  <2>1. ASSUME In(t, v) PROVE In(s, v) /\ v # u
    <3>1. PICK i \in 1 .. Len(t) : t[i] = v
      BY <2>1 DEF In
    <3>2. i + 1 \in 1 .. Len(s) /\ s[i + 1] = v /\ i + 1 # 1 /\ 1 \in 1 .. Len(s)
      BY <1>2, <3>1
    <3>3. v # s[1]
      BY <3>2 DEF Distinct
    <3>. QED  BY <1>2, <3>2, <3>3 DEF In
  <2>2. ASSUME In(s, v), v # u PROVE In(t, v)
    <3>1. PICK i \in 1 .. Len(s) : s[i] = v
      BY <2>2 DEF In
    <3>2. i # 1
      BY <1>2, <2>2, <3>1
    <3>3. i - 1 \in 1 .. Len(t) /\ t[i - 1] = s[(i - 1) + 1] /\ (i - 1) + 1 = i
      BY <1>2, <3>2
    <3>. QED  BY <3>1, <3>3 DEF In
  <2>. QED  BY <2>1, <2>2
<1>. QED  BY <1>1, <1>2, <1>3, <1>4, <1>5

LEMMA NothingIn == Distinct(<<>>) /\ \A v : ~In(<<>>, v)
BY DEF Distinct, In

LEMMA InitIInv == Init => IInv
<1>. SUFFICES ASSUME Init PROVE IInv
  OBVIOUS
<1>a. Nothing \in [Values -> Nat] /\ \A v \in Values : Nothing[v] = 0
  BY DEF Nothing
<1>b. /\ chan = <<>> /\ buf = [c \in Consumers |-> <<>>]
      /\ next = [p \in Producers |-> 1] /\ taken = [c \in Consumers |-> 0]
      /\ sum = [c \in Consumers |-> Nothing]
      /\ ppc = [p \in Producers |-> "new"] /\ cpc = [c \in Consumers |-> "new"]
      /\ senders = {Main} /\ receivers = {Main}
  BY DEF Init
<1>1. TypeOK
  <2>1. /\ workload \in {"spsc", "mpsc", "mpmc"} /\ style \in Styles
        /\ capacity \in Capacities
        /\ main \in {"consumers", "producers", "join", "reported"}
    BY DEF Init
  <2>2. /\ ppc \in [Producers -> {"new", "send", "end"}]
        /\ cpc \in [Consumers -> {"new", "recv", "more", "add", "end"}]
        /\ senders \subseteq Producers \cup {Main}
        /\ receivers \subseteq Consumers \cup {Main}
    BY <1>b
  <2>3. next \in [Producers -> 1 .. Per + 1] /\ taken \in [Consumers -> 0 .. Batch]
    BY <1>b
  <2>4. chan \in Seq(Values) /\ Len(chan) <= capacity
    BY <1>b, <2>1
  <2>5. /\ buf \in [Consumers -> Seq(Values)]
        /\ \A c \in Consumers : Len(buf[c]) <= taken[c]
    BY <1>b
  <2>6. sum \in [Consumers -> [Values -> Nat]]
    BY <1>a, <1>b
  <2>. QED  BY <2>1, <2>2, <2>3, <2>4, <2>5, <2>6, Zenon DEF TypeOK
<1>2. Positions
  BY <1>b, NumbersOfTasks DEF Init, Positions
<1>3. Handles
  BY <1>b, NumbersOfTasks DEF Init, Handles
<1>4. Leaving
  BY <1>b DEF Leaving
<1>5. InOnePlace
  <2>1. ASSUME NEW v \in Values PROVE Unsent(v) /\ Unadded(v) /\ ~Queued(v)
    BY <1>a, <1>b, Pairs, NothingIn DEF Unsent, Unadded, Queued
  <2>2. ASSUME NEW v \in Values, NEW c \in Consumers PROVE ~Kept(c, v)
    BY <1>b, NothingIn DEF Kept
  <2>3. Distinct(chan) /\ \A c \in Consumers : Distinct(buf[c])
    BY <1>b, NothingIn
  <2>. QED  BY <2>1, <2>2, <2>3 DEF InOnePlace
<1>. QED  BY <1>1, <1>2, <1>3, <1>4, <1>5 DEF IInv

LEMMA SameNumbers ==
    ASSUME UNCHANGED workload
    PROVE  NumProducers' = NumProducers /\ NumConsumers' = NumConsumers
BY DEF NumProducers, NumConsumers

\* Tasks are spawned in order, and nobody is left out or spawned again.
LEMMA NextPositions == IInv /\ [Next]_vars => Positions'
<1>. SUFFICES ASSUME IInv, [Next]_vars PROVE Positions'
  OBVIOUS
<1>0. TypeOK /\ Positions
  BY DEF IInv
<1>a. /\ ppc \in [Producers -> {"new", "send", "end"}]
      /\ cpc \in [Consumers -> {"new", "recv", "more", "add", "end"}]
      /\ main \in {"consumers", "producers", "join", "reported"}
  BY <1>0, Types
<1>1. ASSUME NEW c \in Consumers, SpawnConsumer(c) PROVE Positions'
  <2>1. /\ UNCHANGED <<workload, ppc, main>> /\ main = "consumers" /\ c <= NumConsumers
        /\ cpc'[c] = "recv"
        /\ \A d \in Consumers \ {c} : cpc'[d] = cpc[d]
    BY <1>a, <1>1 DEF SpawnConsumer, setup
  <2>. QED  BY <1>0, <2>1, SameNumbers, NumbersOfTasks DEF Positions
<1>2. ASSUME NEW p \in Producers, SpawnProducer(p) PROVE Positions'
  <2>1. /\ UNCHANGED <<workload, cpc, main>> /\ main = "producers" /\ p <= NumProducers
        /\ ppc'[p] = "send"
        /\ \A q \in Producers \ {p} : ppc'[q] = ppc[q]
    BY <1>a, <1>2 DEF SpawnProducer, setup
  <2>. QED  BY <1>0, <2>1, SameNumbers, NumbersOfTasks DEF Positions
<1>3. CASE DropRx
  <2>1. /\ UNCHANGED <<workload, ppc, cpc>> /\ main = "consumers"
        /\ main' = IF workload = "spsc" THEN "join" ELSE "producers"
        /\ \A c \in 1 .. NumConsumers : cpc[c] # "new"
    BY <1>3 DEF DropRx, setup, Spawned
  <2>. QED  BY <1>0, <2>1, SameNumbers DEF Positions
<1>4. CASE DropTx
  <2>1. /\ UNCHANGED <<workload, ppc, cpc>> /\ main = "producers"
        /\ main' = IF workload = "spsc" THEN "consumers" ELSE "join"
        /\ \A p \in 1 .. NumProducers : ppc[p] # "new"
    BY <1>4 DEF DropTx, setup, Spawned
  <2>. QED  BY <1>0, <2>1, SameNumbers DEF Positions
<1>5. CASE Join
  <2>1. /\ UNCHANGED <<workload, ppc, cpc>> /\ main = "join" /\ main' = "reported"
        /\ \A c \in 1 .. NumConsumers : cpc[c] = "end"
    BY <1>5 DEF Join, setup
  <2>2. \A c \in Consumers : c \in 1 .. NumConsumers \/ c > NumConsumers
    BY NumbersOfTasks
  <2>3. \A c \in Consumers : cpc[c] \in {"new", "end"}
    BY <1>0, <2>1, <2>2 DEF Positions
  <2>. QED  BY <1>0, <2>1, <2>3, SameNumbers DEF Positions
<1>6. ASSUME NEW p \in Producers, ProducerEnd(p) PROVE Positions'
  <2>1. /\ UNCHANGED <<workload, cpc, main>>
        /\ ppc[p] = "send" /\ ppc'[p] = "end"
        /\ \A q \in Producers \ {p} : ppc'[q] = ppc[q]
    BY <1>a, <1>6 DEF ProducerEnd, setup
  <2>. QED  BY <1>0, <2>1, SameNumbers, NumbersOfTasks DEF Positions
<1>7. ASSUME NEW c \in Consumers,
             Recv(c) \/ StopBatch(c) \/ BufferEmpty(c) \/ ConsumerEnd(c)
      PROVE  Positions'
  <2>1. /\ UNCHANGED <<workload, ppc, main>>
        /\ cpc[c] \in {"recv", "more", "add"} /\ cpc'[c] \in {"recv", "more", "add", "end"}
        /\ \A d \in Consumers \ {c} : cpc'[d] = cpc[d]
    BY <1>a, <1>7 DEF Recv, StopBatch, BufferEmpty, ConsumerEnd, Goto, setup
  <2>. QED  BY <1>0, <2>1, SameNumbers, NumbersOfTasks DEF Positions
<1>8. ASSUME UNCHANGED <<workload, main, ppc, cpc>> PROVE Positions'
  BY <1>0, <1>8, SameNumbers DEF Positions
<1>9. ASSUME NEW p \in Producers, NEW c \in Consumers, Send(p) \/ TryRecv(c) \/ AddBuffered(c)
      PROVE  Positions'
  BY <1>8, <1>9 DEF Send, TryRecv, AddBuffered, setup, tasks
<1>10. CASE UNCHANGED vars
  BY <1>8, <1>10 DEF vars, setup, tasks
<1>. QED
  BY <1>1, <1>2, <1>3, <1>4, <1>5, <1>6, <1>7, <1>9, <1>10, NextCases, NumbersOfTasks
     DEF Producers, Consumers

\* A task owns its handle from its spawn to its end.
LEMMA NextHandles == IInv /\ [Next]_vars => Handles'
<1>. SUFFICES ASSUME IInv, [Next]_vars PROVE Handles'
  OBVIOUS
<1>0. TypeOK /\ Positions /\ Handles
  BY DEF IInv
<1>a. /\ ppc \in [Producers -> {"new", "send", "end"}]
      /\ cpc \in [Consumers -> {"new", "recv", "more", "add", "end"}]
      /\ workload \in {"spsc", "mpsc", "mpmc"}
  BY <1>0, Types
<1>b. 1 \in Producers /\ 1 \in Consumers
  BY NumbersOfTasks
<1>1. ASSUME NEW c \in Consumers, SpawnConsumer(c) PROVE Handles'
  <2>1. /\ UNCHANGED <<workload, ppc, main, senders>>
        /\ receivers' = (receivers \cup {c}) \ IF workload = "mpmc" THEN {} ELSE {Main}
        /\ cpc[c] = "new" /\ cpc'[c] = "recv" /\ c <= NumConsumers
        /\ \A d \in Consumers \ {c} : cpc'[d] = cpc[d]
    BY <1>a, <1>1 DEF SpawnConsumer, setup
  <2>2. workload # "mpmc" => c = 1
    BY <2>1, NumbersOfTasks
  <2>3. {d \in Consumers : cpc'[d] \notin {"new", "end"}}
          = {d \in Consumers : cpc[d] \notin {"new", "end"}} \cup {c}
    BY <2>1
  <2>. QED  BY <1>0, <1>b, <2>1, <2>2, <2>3, NumbersOfTasks DEF Handles
<1>2. ASSUME NEW p \in Producers, SpawnProducer(p) PROVE Handles'
  <2>1. /\ UNCHANGED <<workload, cpc, main, receivers>> /\ main = "producers"
        /\ senders' = (senders \cup {p}) \ IF workload = "spsc" THEN {Main} ELSE {}
        /\ ppc[p] = "new" /\ ppc'[p] = "send" /\ p <= NumProducers
        /\ \A q \in Producers \ {p} : ppc'[q] = ppc[q]
    BY <1>a, <1>2 DEF SpawnProducer, setup
  <2>2. workload = "spsc" => p = 1
    BY <2>1, NumbersOfTasks
  <2>3. {q \in Producers : ppc'[q] = "send"} = {q \in Producers : ppc[q] = "send"} \cup {p}
    BY <2>1
  <2>. QED  BY <1>0, <1>b, <2>1, <2>2, <2>3, NumbersOfTasks DEF Handles
<1>3. CASE DropRx
  <2>1. /\ UNCHANGED <<workload, ppc, cpc, senders>> /\ main = "consumers"
        /\ main' = IF workload = "spsc" THEN "join" ELSE "producers"
        /\ receivers' = receivers \ {Main}
        /\ cpc[1] # "new"
    BY <1>3, NumbersOfTasks DEF DropRx, setup, Spawned
  <2>. QED  BY <1>0, <1>a, <2>1, NumbersOfTasks DEF Handles
<1>4. CASE DropTx
  <2>1. /\ UNCHANGED <<workload, ppc, cpc, receivers>> /\ main = "producers"
        /\ main' = IF workload = "spsc" THEN "consumers" ELSE "join"
        /\ senders' = senders \ {Main}
        /\ ppc[1] # "new"
    BY <1>4, NumbersOfTasks DEF DropTx, setup, Spawned
  <2>. QED  BY <1>0, <1>a, <2>1, NumbersOfTasks DEF Handles
<1>5. CASE Join
  <2>1. UNCHANGED <<workload, ppc, cpc, senders, receivers>>
        /\ main = "join" /\ main' = "reported"
    BY <1>5 DEF Join, setup, handles
  <2>. QED  BY <1>0, <2>1 DEF Handles
<1>6. ASSUME NEW p \in Producers, ProducerEnd(p) PROVE Handles'
  <2>1. /\ UNCHANGED <<workload, cpc, main, receivers>>
        /\ senders' = senders \ {p}
        /\ ppc[p] = "send" /\ ppc'[p] = "end"
        /\ \A q \in Producers \ {p} : ppc'[q] = ppc[q]
    BY <1>a, <1>6 DEF ProducerEnd, setup
  <2>2. {q \in Producers : ppc'[q] = "send"} = {q \in Producers : ppc[q] = "send"} \ {p}
    BY <2>1
  <2>3. p # Main
    BY NumbersOfTasks
  <2>4. ppc'[1] = "new" <=> ppc[1] = "new"
    BY <1>b, <2>1
  <2>. QED  BY <1>0, <2>1, <2>2, <2>3, <2>4 DEF Handles
<1>7. ASSUME NEW c \in Consumers, ConsumerEnd(c) PROVE Handles'
  <2>1. /\ UNCHANGED <<workload, ppc, main, senders>>
        /\ receivers' = receivers \ {c}
        /\ cpc[c] = "recv" /\ cpc'[c] = "end"
        /\ \A d \in Consumers \ {c} : cpc'[d] = cpc[d]
    BY <1>a, <1>7 DEF ConsumerEnd, Goto, setup
  <2>2. {d \in Consumers : cpc'[d] \notin {"new", "end"}}
          = {d \in Consumers : cpc[d] \notin {"new", "end"}} \ {c}
    BY <2>1
  <2>3. c # Main
    BY NumbersOfTasks
  <2>4. cpc'[1] = "new" <=> cpc[1] = "new"
    BY <1>b, <2>1
  <2>. QED  BY <1>0, <2>1, <2>2, <2>3, <2>4 DEF Handles
<1>8. ASSUME NEW c \in Consumers, Recv(c) \/ StopBatch(c) \/ BufferEmpty(c) PROVE Handles'
  <2>1. /\ UNCHANGED <<workload, ppc, main, senders, receivers>>
        /\ cpc[c] \in {"recv", "more", "add"} /\ cpc'[c] \in {"recv", "more", "add"}
        /\ \A d \in Consumers \ {c} : cpc'[d] = cpc[d]
    BY <1>a, <1>8 DEF Recv, StopBatch, BufferEmpty, Goto, setup, handles
  <2>2. {d \in Consumers : cpc'[d] \notin {"new", "end"}}
          = {d \in Consumers : cpc[d] \notin {"new", "end"}}
    BY <2>1
  <2>3. cpc'[1] = "new" <=> cpc[1] = "new"
    BY <1>b, <2>1
  <2>. QED  BY <1>0, <2>1, <2>2, <2>3 DEF Handles
<1>9. ASSUME UNCHANGED <<workload, main, ppc, cpc, senders, receivers>> PROVE Handles'
  BY <1>0, <1>9 DEF Handles
<1>10. ASSUME NEW p \in Producers, NEW c \in Consumers,
              Send(p) \/ TryRecv(c) \/ AddBuffered(c)
       PROVE  Handles'
  BY <1>9, <1>10 DEF Send, TryRecv, AddBuffered, setup, tasks, handles
<1>11. CASE UNCHANGED vars
  BY <1>9, <1>11 DEF vars, setup, tasks, handles
<1>. QED
  BY <1>b, <1>1, <1>2, <1>3, <1>4, <1>5, <1>6, <1>7, <1>8, <1>10, <1>11, NextCases

\* A consumer that has left has seen the last sender go.
LEMMA NextLeaving == IInv /\ [Next]_vars => Leaving'
<1>. SUFFICES ASSUME IInv, [Next]_vars PROVE Leaving'
  OBVIOUS
<1>0. TypeOK /\ Positions /\ Handles /\ Leaving
  BY DEF IInv
<1>a. /\ ppc \in [Producers -> {"new", "send", "end"}]
      /\ cpc \in [Consumers -> {"new", "recv", "more", "add", "end"}]
      /\ next \in [Producers -> 1 .. Per + 1]
      /\ buf \in [Consumers -> Seq(Values)]
      /\ style \in {"one", "drain", "batch"}
  BY <1>0, Types, DataTypes
<1>1. ASSUME NEW c \in Consumers, SpawnConsumer(c) PROVE Leaving'
  <2>1. /\ UNCHANGED <<style, ppc, senders, chan, next, buf>>
        /\ cpc[c] = "new" /\ cpc'[c] = "recv"
        /\ \A d \in Consumers \ {c} : cpc'[d] = cpc[d]
    BY <1>a, <1>1 DEF SpawnConsumer, setup, local
  <2>. QED  BY <1>0, <2>1 DEF Leaving
<1>2. ASSUME NEW p \in Producers, SpawnProducer(p) PROVE Leaving'
  <2>1. /\ UNCHANGED <<style, cpc, chan, next, buf>>
        /\ main = "producers"
        /\ ppc[p] = "new" /\ ppc'[p] = "send" /\ p <= NumProducers
        /\ \A q \in Producers \ {p} : ppc'[q] = ppc[q]
    BY <1>a, <1>2 DEF SpawnProducer, setup, local
  <2>2. workload = "spsc" => p = 1
    BY <2>1, NumbersOfTasks
  <2>3. Main \in senders
    BY <1>0, <2>1, <2>2 DEF Handles
  <2>. QED  BY <1>0, <2>1, <2>3 DEF Leaving
<1>3. CASE DropRx \/ DropTx \/ Join
  <2>1. /\ UNCHANGED <<style, ppc, cpc, chan, next, buf>>
        /\ senders = {} => senders' = {}
    BY <1>3 DEF DropRx, DropTx, Join, setup, local, handles
  <2>. QED  BY <1>0, <2>1 DEF Leaving
<1>4. ASSUME NEW p \in Producers, Send(p) PROVE Leaving'
  <2>1. /\ UNCHANGED <<style, ppc, cpc, senders, buf>>
        /\ ppc[p] = "send" /\ \A q \in Producers \ {p} : next'[q] = next[q]
    BY <1>a, <1>4 DEF Send, Sending, setup, tasks, handles, local
  <2>2. p \in senders
    BY <1>0, <2>1 DEF Handles
  <2>. QED  BY <1>0, <2>1, <2>2 DEF Leaving
<1>5. ASSUME NEW p \in Producers, ProducerEnd(p) PROVE Leaving'
  <2>1. /\ UNCHANGED <<style, cpc, chan, next, buf>>
        /\ senders = {} => senders' = {}
        /\ ppc'[p] = "end" /\ next[p] = Per + 1
        /\ \A q \in Producers \ {p} : ppc'[q] = ppc[q]
    BY <1>a, <1>5 DEF ProducerEnd, setup, local
  <2>. QED  BY <1>0, <2>1 DEF Leaving
<1>6. ASSUME NEW c \in Consumers, Recv(c) PROVE Leaving'
  <2>1. /\ UNCHANGED <<style, ppc, senders, next>> /\ chan # <<>>
        /\ cpc'[c] = IF style = "one" THEN "recv" ELSE "more"
        /\ style # "batch" => buf' = buf
        /\ \A d \in Consumers \ {c} : cpc'[d] = cpc[d] /\ buf'[d] = buf[d]
    BY <1>a, <1>6 DEF Recv, Take, Goto, setup, handles
  <2>. QED  BY <1>0, <2>1 DEF Leaving
<1>7. ASSUME NEW c \in Consumers, TryRecv(c) PROVE Leaving'
  <2>1. /\ UNCHANGED <<style, ppc, cpc, senders, next>> /\ chan # <<>>
        /\ cpc[c] = "more"
        /\ style # "batch" => buf' = buf
        /\ \A d \in Consumers \ {c} : buf'[d] = buf[d]
    BY <1>a, <1>7 DEF TryRecv, Take, setup, tasks, handles
  <2>. QED  BY <1>0, <2>1 DEF Leaving
<1>8. ASSUME NEW c \in Consumers, StopBatch(c) \/ BufferEmpty(c) \/ ConsumerEnd(c)
      PROVE  Leaving'
  <2>1. /\ UNCHANGED <<style, ppc, senders, chan, next, buf>>
        /\ \A d \in Consumers \ {c} : cpc'[d] = cpc[d]
    BY <1>a, <1>8 DEF StopBatch, BufferEmpty, ConsumerEnd, Goto, setup, handles, local
  <2>2. cpc'[c] = "end" => senders = {} /\ chan = <<>>
    BY <1>a, <1>8 DEF StopBatch, BufferEmpty, ConsumerEnd, Goto
  <2>3. cpc'[c] \in {"new", "recv", "end"} \/ style # "batch" => buf[c] = <<>>
    BY <1>0, <1>a, <1>8 DEF StopBatch, BufferEmpty, ConsumerEnd, Goto, Leaving
  <2>. QED  BY <1>0, <2>1, <2>2, <2>3 DEF Leaving
<1>9. ASSUME NEW c \in Consumers, AddBuffered(c) PROVE Leaving'
  <2>1. /\ UNCHANGED <<style, ppc, cpc, senders, chan, next>>
        /\ cpc[c] = "add" /\ buf[c] # <<>>
        /\ \A d \in Consumers \ {c} : buf'[d] = buf[d]
    BY <1>a, <1>9 DEF AddBuffered, setup, tasks, handles
  <2>. QED  BY <1>0, <2>1 DEF Leaving
<1>10. CASE UNCHANGED vars
  BY <1>0, <1>10 DEF vars, setup, tasks, handles, local, Leaving
<1>. QED
  BY <1>1, <1>2, <1>3, <1>4, <1>5, <1>6, <1>7, <1>8, <1>9, <1>10, NextCases

-----------------------------------------------------------------------------
(* A value moves from its producer to the channel, and from there to a sum *)
(* at once or by way of a buffer.                                          *)

\* With `next` one further, one value less is unsent.
LEMMA OneMoreSent ==
    ASSUME TypeOK, NEW p \in Producers, next[p] <= Per, next' = [next EXCEPT ![p] = @ + 1],
           NEW v \in Values
    PROVE  Unsent(v)' <=> Unsent(v) /\ v # <<p, next[p]>>
<1>1. /\ v[1] \in Producers /\ v[2] \in 1 .. Per /\ v = <<v[1], v[2]>>
      /\ next[p] \in 1 .. Per + 1 /\ next[v[1]] \in 1 .. Per + 1
  BY Pairs, Types
<1>2. CASE v[1] = p
  <2>1. next'[v[1]] = next[p] + 1
    BY <1>2, Types
  <2>2. v = <<p, next[p]>> <=> v[2] = next[p]
    BY <1>1, <1>2
  <2>. QED  BY <1>1, <1>2, <2>1, <2>2 DEF Unsent
<1>3. CASE v[1] # p
  <2>1. next'[v[1]] = next[v[1]]
    BY <1>1, <1>3, Types
  <2>2. v # <<p, next[p]>>
    BY <1>1, <1>3
  <2>. QED  BY <2>1, <2>2 DEF Unsent
<1>. QED  BY <1>2, <1>3

\* A value that is in no sum gets into one.
LEMMA AddOnce ==
    ASSUME TypeOK, NEW c \in Consumers, NEW u \in Values, Add(c, u), Unadded(u)
    PROVE  /\ AddedOnce(u)' /\ ~AddedOnce(u)
           /\ \A v \in Values \ {u} :
                 /\ Unadded(v)' <=> Unadded(v)
                 /\ AddedOnce(v)' <=> AddedOnce(v)
<1>1. \A d \in Consumers, v \in Values :
         sum'[d][v] = IF d = c /\ v = u THEN sum[d][v] + 1 ELSE sum[d][v]
  BY DataTypes DEF Add
<1>2. sum'[c][u] = 1 /\ \A d \in Consumers \ {c} : sum'[d][u] = 0
  BY <1>1 DEF Unadded
<1>3. AddedOnce(u)'
  BY <1>2 DEF AddedOnce
<1>4. ~AddedOnce(u)
  BY DEF AddedOnce, Unadded
<1>5. ASSUME NEW v \in Values \ {u}
      PROVE  /\ Unadded(v)' <=> Unadded(v)
             /\ AddedOnce(v)' <=> AddedOnce(v)
  BY <1>1 DEF AddedOnce, Unadded
<1>. QED  BY <1>3, <1>4, <1>5

LEMMA SendKeeps ==
    ASSUME IInv, NEW p \in Producers, Send(p)
    PROVE  InOnePlace'
<1>0. TypeOK /\ InOnePlace /\ next[p] <= Per
  BY DEF IInv, Send, Sending
<1>1. PICK u \in Values : u = <<p, next[p]>> /\ Unsent(u)
  <2>1. next[p] \in 1 .. Per
    BY <1>0, Types
  <2>2. PICK u \in Values : u = <<p, next[p]>> /\ u[1] = p /\ u[2] = next[p]
    BY <2>1, Pairs
  <2>. QED  BY <2>1, <2>2 DEF Unsent
<1>2. /\ chan' = Append(chan, u) /\ UNCHANGED <<sum, buf>>
      /\ next' = [next EXCEPT ![p] = @ + 1]
  BY <1>1 DEF Send, local
<1>3. Distinct(chan') /\ \A v : Queued(v)' <=> Queued(v) \/ v = u
  BY <1>0, <1>1, <1>2, DataTypes, Appended DEF InOnePlace, Queued
<1>4. \A v \in Values : Unsent(v)' <=> Unsent(v) /\ v # u
  BY <1>0, <1>1, <1>2, OneMoreSent
<1>5. \A v \in Values :
         /\ Unadded(v)' <=> Unadded(v)
         /\ AddedOnce(v)' <=> AddedOnce(v)
         /\ \A c \in Consumers : Kept(c, v)' <=> Kept(c, v)
  BY <1>2 DEF Unadded, AddedOnce, Kept
<1>6. \A c \in Consumers : Distinct(buf'[c])
  BY <1>0, <1>2 DEF InOnePlace
<1>. QED  BY <1>0, <1>1, <1>3, <1>4, <1>5, <1>6 DEF InOnePlace

\* What a consumer takes is nowhere else, and it adds or keeps it.
LEMMA TakeKeeps ==
    ASSUME IInv, NEW c \in Consumers, Take(c), UNCHANGED next
    PROVE  InOnePlace'
<1>0. TypeOK /\ InOnePlace /\ chan # <<>> /\ Distinct(chan)
  BY DEF IInv, Take, InOnePlace
<1>1. PICK u \in Values : u = Head(chan)
  BY <1>0, DataTypes, Headless
<1>2. Distinct(chan') /\ Queued(u) /\ \A v : Queued(v)' <=> Queued(v) /\ v # u
  BY <1>0, <1>1, DataTypes, Headless DEF Take, Queued
<1>3. /\ ~Unsent(u) /\ Unadded(u)
      /\ \A d \in Consumers : ~Kept(d, u)
  BY <1>0, <1>2 DEF InOnePlace
<1>4. \A v \in Values : Unsent(v)' <=> Unsent(v)
  BY DEF Unsent
<1>5. CASE style = "batch"
  <2>1. buf' = [buf EXCEPT ![c] = Append(@, u)] /\ sum' = sum
    BY <1>1, <1>5 DEF Take
  <2>2. buf'[c] = Append(buf[c], u) /\ \A d \in Consumers \ {c} : buf'[d] = buf[d]
    BY <1>0, <2>1, DataTypes
  <2>3. Distinct(buf[c]) /\ ~In(buf[c], u) /\ buf[c] \in Seq(Values)
    BY <1>0, <1>3, DataTypes DEF InOnePlace, Kept
  <2>4. Distinct(buf'[c]) /\ \A v : Kept(c, v)' <=> Kept(c, v) \/ v = u
    BY <2>2, <2>3, Appended DEF Kept
  <2>5. \A d \in Consumers \ {c} : Distinct(buf'[d]) /\ \A v : Kept(d, v)' <=> Kept(d, v)
    BY <1>0, <2>2 DEF InOnePlace, Kept
  <2>6. \A v \in Values :
           /\ Unadded(v)' <=> Unadded(v)
           /\ AddedOnce(v)' <=> AddedOnce(v)
    BY <2>1 DEF Unadded, AddedOnce
  <2>. QED  BY <1>0, <1>2, <1>3, <1>4, <2>4, <2>5, <2>6 DEF InOnePlace
<1>6. CASE style # "batch"
  <2>1. Add(c, u) /\ buf' = buf
    BY <1>1, <1>6 DEF Take
  <2>2. \A d \in Consumers : Distinct(buf'[d]) /\ \A v : Kept(d, v)' <=> Kept(d, v)
    BY <1>0, <2>1 DEF InOnePlace, Kept
  <2>3. /\ AddedOnce(u)'
        /\ \A v \in Values \ {u} :
              /\ Unadded(v)' <=> Unadded(v)
              /\ AddedOnce(v)' <=> AddedOnce(v)
    BY <1>0, <1>3, <2>1, AddOnce
  <2>. QED  BY <1>0, <1>2, <1>3, <1>4, <2>2, <2>3 DEF InOnePlace
<1>. QED  BY <1>5, <1>6

LEMMA AddBufferedKeeps ==
    ASSUME IInv, NEW c \in Consumers, AddBuffered(c)
    PROVE  InOnePlace'
<1>0. TypeOK /\ InOnePlace /\ buf[c] # <<>> /\ Distinct(buf[c]) /\ buf[c] \in Seq(Values)
  BY DataTypes DEF IInv, AddBuffered, InOnePlace
<1>1. PICK u \in Values : u = Head(buf[c])
  BY <1>0, Headless
<1>2. /\ buf'[c] = Tail(buf[c]) /\ \A d \in Consumers \ {c} : buf'[d] = buf[d]
      /\ Add(c, u) /\ UNCHANGED <<chan, next>>
  BY <1>0, <1>1, DataTypes DEF AddBuffered
<1>3. /\ Distinct(buf'[c]) /\ Kept(c, u)
      /\ \A v : Kept(c, v)' <=> Kept(c, v) /\ v # u
  BY <1>0, <1>1, <1>2, Headless DEF Kept
<1>4. \A d \in Consumers \ {c} : Distinct(buf'[d]) /\ \A v : Kept(d, v)' <=> Kept(d, v)
  BY <1>0, <1>2 DEF InOnePlace, Kept
<1>5. /\ ~Unsent(u) /\ ~Queued(u) /\ Unadded(u)
      /\ \A d \in Consumers \ {c} : ~Kept(d, u)
  BY <1>0, <1>3 DEF InOnePlace
<1>6. \A v \in Values : (Unsent(v)' <=> Unsent(v)) /\ (Queued(v)' <=> Queued(v))
  BY <1>2 DEF Unsent, Queued
<1>7. /\ AddedOnce(u)'
      /\ \A v \in Values \ {u} :
            /\ Unadded(v)' <=> Unadded(v)
            /\ AddedOnce(v)' <=> AddedOnce(v)
  BY <1>0, <1>2, <1>5, AddOnce
<1>8. Distinct(chan')
  BY <1>0, <1>2 DEF InOnePlace
<1>. QED  BY <1>0, <1>3, <1>4, <1>5, <1>6, <1>7, <1>8 DEF InOnePlace

LEMMA NextInOnePlace == IInv /\ [Next]_vars => InOnePlace'
<1>. SUFFICES ASSUME IInv, [Next]_vars PROVE InOnePlace'
  OBVIOUS
<1>1. ASSUME UNCHANGED <<chan, next, buf, sum>> PROVE InOnePlace'
  BY <1>1 DEF IInv, InOnePlace, Queued, Kept, Unsent, Unadded, AddedOnce
<1>2. CASE DropRx \/ DropTx \/ Join \/ UNCHANGED vars
  BY <1>1, <1>2 DEF DropRx, DropTx, Join, vars, local
<1>3. ASSUME NEW p \in Producers, SpawnProducer(p) \/ ProducerEnd(p) PROVE InOnePlace'
  BY <1>1, <1>3 DEF SpawnProducer, ProducerEnd, local
<1>4. ASSUME NEW c \in Consumers,
             SpawnConsumer(c) \/ StopBatch(c) \/ BufferEmpty(c) \/ ConsumerEnd(c)
      PROVE  InOnePlace'
  BY <1>1, <1>4 DEF SpawnConsumer, StopBatch, BufferEmpty, ConsumerEnd, local
<1>5. ASSUME NEW c \in Consumers, Recv(c) \/ TryRecv(c) PROVE InOnePlace'
  BY <1>5, TakeKeeps DEF Recv, TryRecv
<1>. QED  BY <1>2, <1>3, <1>4, <1>5, SendKeeps, AddBufferedKeeps, NextCases

LEMMA NextTypeOK == IInv /\ [Next]_vars => TypeOK'
<1>. SUFFICES ASSUME IInv, [Next]_vars PROVE TypeOK'
  OBVIOUS
<1>0. TypeOK /\ Leaving /\ InOnePlace /\ Distinct(chan)
  BY DEF IInv, InOnePlace
<1>. DEFINE Setup  == /\ workload \in {"spsc", "mpsc", "mpmc"} /\ style \in Styles
                      /\ capacity \in Capacities
            Places == /\ main \in {"consumers", "producers", "join", "reported"}
                      /\ ppc \in [Producers -> {"new", "send", "end"}]
                      /\ cpc \in [Consumers -> {"new", "recv", "more", "add", "end"}]
            Owners == /\ senders \subseteq Producers \cup {Main}
                      /\ receivers \subseteq Consumers \cup {Main}
            Queue  == chan \in Seq(Values) /\ Len(chan) <= capacity
            Nexts  == next \in [Producers -> 1 .. Per + 1]
            Taken  == taken \in [Consumers -> 0 .. Batch]
            Bufs   == /\ buf \in [Consumers -> Seq(Values)]
                      /\ \A c \in Consumers : Len(buf[c]) <= taken[c]
            Sums   == sum \in [Consumers -> [Values -> Nat]]
<1>1. Setup /\ Places /\ Owners /\ Queue /\ Nexts /\ Taken /\ Bufs /\ Sums
  BY <1>0, Zenon DEF TypeOK
<1>2. SUFFICES (Setup /\ Places /\ Owners /\ Queue /\ Nexts /\ Taken /\ Bufs /\ Sums)'
  BY Zenon DEF TypeOK
<1>3. CASE DropRx \/ DropTx \/ Join \/ UNCHANGED vars
  <2>1. UNCHANGED <<setup, ppc, cpc, chan, next, local>>
    BY <1>3 DEF DropRx, DropTx, Join, vars, tasks
  <2>2. main' \in {"consumers", "producers", "join", "reported"}
    BY <1>1, <1>3 DEF DropRx, DropTx, Join, vars, tasks
  <2>3. Owners'
    BY <1>1, <1>3 DEF DropRx, DropTx, Join, vars, handles
  <2>. QED  BY <1>1, <2>1, <2>2, <2>3 DEF setup, local
<1>4. ASSUME NEW p \in Producers, SpawnProducer(p) \/ ProducerEnd(p)
      PROVE  (Setup /\ Places /\ Owners /\ Queue /\ Nexts /\ Taken /\ Bufs /\ Sums)'
  <2>1. UNCHANGED <<setup, main, cpc, chan, next, local>>
    BY <1>4 DEF SpawnProducer, ProducerEnd
  <2>2. ppc' \in [Producers -> {"new", "send", "end"}]
    BY <1>1, <1>4 DEF SpawnProducer, ProducerEnd
  <2>3. Owners'
    BY <1>1, <1>4 DEF SpawnProducer, ProducerEnd
  <2>. QED  BY <1>1, <2>1, <2>2, <2>3 DEF setup, local
<1>5. ASSUME NEW c \in Consumers, SpawnConsumer(c) \/ ConsumerEnd(c)
      PROVE  (Setup /\ Places /\ Owners /\ Queue /\ Nexts /\ Taken /\ Bufs /\ Sums)'
  <2>1. UNCHANGED <<setup, main, ppc, chan, next, local>>
    BY <1>5 DEF SpawnConsumer, ConsumerEnd
  <2>2. cpc' \in [Consumers -> {"new", "recv", "more", "add", "end"}]
    BY <1>1, <1>5 DEF SpawnConsumer, ConsumerEnd, Goto
  <2>3. Owners'
    BY <1>1, <1>5 DEF SpawnConsumer, ConsumerEnd
  <2>. QED  BY <1>1, <2>1, <2>2, <2>3 DEF setup, local
<1>6. ASSUME NEW p \in Producers, Send(p)
      PROVE  (Setup /\ Places /\ Owners /\ Queue /\ Nexts /\ Taken /\ Bufs /\ Sums)'
  <2>1. UNCHANGED <<setup, tasks, handles, local>>
    BY <1>6 DEF Send
  <2>2. next[p] \in 1 .. Per
    BY <1>1, <1>6 DEF Send, Sending
  <2>3. Nexts'
    <3>1. next[p] + 1 \in 1 .. Per + 1
      BY <2>2
    <3>. QED  BY <1>1, <1>6, <3>1 DEF Send
  <2>4. PICK u \in Values : u = <<p, next[p]>>
    BY <2>2, Pairs
  <2>5. /\ chan' \in Seq(Values) /\ Len(chan') = Len(chan) + 1
        /\ Len(chan) < capacity /\ Len(chan) \in Nat /\ capacity \in Nat
    BY <1>0, <1>6, <2>4, DataTypes, AppendProperties DEF Send
  <2>. QED  BY <1>1, <2>1, <2>3, <2>5 DEF setup, tasks, handles, local
<1>7. ASSUME NEW c \in Consumers, Take(c)
      PROVE  /\ chan' \in Seq(Values) /\ Len(chan') <= capacity
             /\ Sums'
             /\ buf' \in [Consumers -> Seq(Values)]
             /\ style = "batch" => Len(buf'[c]) = Len(buf[c]) + 1
             /\ style # "batch" => buf'[c] = buf[c]
             /\ \A d \in Consumers \ {c} : buf'[d] = buf[d]
  <2>1. PICK u \in Values : u = Head(chan)
    BY <1>0, <1>7, DataTypes, Headless DEF Take
  <2>2. chan' \in Seq(Values) /\ Len(chan') = Len(chan) - 1
    BY <1>0, <1>7, DataTypes, Headless DEF Take
  <2>3. CASE style = "batch"
    <3>1. buf' = [buf EXCEPT ![c] = Append(@, u)] /\ sum' = sum
      BY <1>7, <2>1, <2>3 DEF Take
    <3>2. Append(buf[c], u) \in Seq(Values) /\ Len(Append(buf[c], u)) = Len(buf[c]) + 1
      BY <1>1, AppendProperties
    <3>. QED  BY <1>0, <1>1, <2>2, <2>3, <3>1, <3>2, DataTypes
  <2>4. CASE style # "batch"
    <3>1. Add(c, u) /\ buf' = buf
      BY <1>7, <2>1, <2>4 DEF Take
    <3>2. Sums'
      BY <1>1, <3>1 DEF Add
    <3>. QED  BY <1>0, <1>1, <2>2, <2>4, <3>1, <3>2, DataTypes
  <2>. QED  BY <2>3, <2>4
<1>8. ASSUME NEW c \in Consumers, Recv(c)
      PROVE  (Setup /\ Places /\ Owners /\ Queue /\ Nexts /\ Taken /\ Bufs /\ Sums)'
  <2>1. /\ UNCHANGED <<setup, main, ppc, handles, next>> /\ Take(c)
        /\ taken' = [taken EXCEPT ![c] = IF style = "one" THEN 0 ELSE 1]
        /\ cpc[c] = "recv"
    BY <1>8 DEF Recv, Goto
  <2>2. cpc' \in [Consumers -> {"new", "recv", "more", "add", "end"}]
    BY <1>1, <1>8 DEF Recv, Goto
  <2>3. Taken'
    BY <1>1, <2>1
  <2>4. buf[c] = <<>> /\ Len(buf[c]) = 0
    BY <1>0, <2>1 DEF Leaving
  <2>5. taken'[c] = (IF style = "one" THEN 0 ELSE 1)
        /\ \A d \in Consumers \ {c} : taken'[d] = taken[d]
    BY <1>1, <2>1
  <2>6. ASSUME NEW d \in Consumers PROVE Len(buf'[d]) <= taken'[d]
    <3>1. CASE d = c
      <4>1. CASE style = "batch"
        BY <1>7, <2>1, <2>4, <2>5, <3>1, <4>1
      <4>2. CASE style # "batch"
        BY <1>7, <2>1, <2>4, <2>5, <3>1, <4>2
      <4>. QED  BY <4>1, <4>2
    <3>2. CASE d # c
      BY <1>1, <1>7, <2>1, <2>5, <3>2
    <3>. QED  BY <3>1, <3>2
  <2>7. buf' \in [Consumers -> Seq(Values)] /\ chan' \in Seq(Values) /\ Len(chan') <= capacity
        /\ Sums'
    BY <1>7, <2>1
  <2>. QED  BY <1>1, <2>1, <2>2, <2>3, <2>6, <2>7 DEF setup, handles
<1>9. ASSUME NEW c \in Consumers, TryRecv(c)
      PROVE  (Setup /\ Places /\ Owners /\ Queue /\ Nexts /\ Taken /\ Bufs /\ Sums)'
  <2>1. /\ UNCHANGED <<setup, tasks, handles, next>> /\ Take(c)
        /\ taken' = [taken EXCEPT ![c] = @ + 1] /\ taken[c] < Batch
    BY <1>9 DEF TryRecv
  <2>2. Taken' /\ taken'[c] = taken[c] + 1 /\ \A d \in Consumers \ {c} : taken'[d] = taken[d]
    <3>1. taken[c] + 1 \in 0 .. Batch
      BY <1>1, <2>1
    <3>. QED  BY <1>1, <2>1, <3>1
  <2>3. Len(buf[c]) \in Nat /\ Len(buf[c]) <= taken[c] /\ taken[c] \in Nat
    BY <1>0, <1>1, DataTypes
  <2>4. Len(buf'[c]) <= taken'[c]
    <3>1. CASE style = "batch"
      BY <1>7, <2>1, <2>2, <2>3, <3>1
    <3>2. CASE style # "batch"
      BY <1>7, <2>1, <2>2, <2>3, <3>2
    <3>. QED  BY <3>1, <3>2
  <2>5. ASSUME NEW d \in Consumers PROVE Len(buf'[d]) <= taken'[d]
    <3>1. CASE d # c
      BY <1>1, <1>7, <2>1, <2>2, <3>1
    <3>. QED  BY <2>4, <3>1
  <2>6. buf' \in [Consumers -> Seq(Values)] /\ chan' \in Seq(Values) /\ Len(chan') <= capacity
        /\ Sums'
    BY <1>7, <2>1
  <2>. QED  BY <1>1, <2>1, <2>2, <2>5, <2>6 DEF setup, tasks, handles
<1>10. ASSUME NEW c \in Consumers, StopBatch(c) \/ BufferEmpty(c)
       PROVE  (Setup /\ Places /\ Owners /\ Queue /\ Nexts /\ Taken /\ Bufs /\ Sums)'
  <2>1. UNCHANGED <<setup, main, ppc, handles, chan, next, buf, sum>>
    BY <1>10 DEF StopBatch, BufferEmpty
  <2>2. cpc' \in [Consumers -> {"new", "recv", "more", "add", "end"}]
    BY <1>1, <1>10 DEF StopBatch, BufferEmpty, Goto
  <2>3. taken' = taken \/ (taken' = [taken EXCEPT ![c] = 0] /\ buf[c] = <<>>)
    BY <1>0, <1>10 DEF StopBatch, BufferEmpty, Leaving
  <2>4. Taken' /\ Bufs'
    <3>1. CASE taken' = taken
      BY <1>1, <2>1, <3>1
    <3>2. CASE taken' = [taken EXCEPT ![c] = 0] /\ buf[c] = <<>>
      BY <1>1, <2>1, <3>2
    <3>. QED  BY <2>3, <3>1, <3>2
  <2>. QED  BY <1>1, <2>1, <2>2, <2>4 DEF setup, handles
<1>11. ASSUME NEW c \in Consumers, AddBuffered(c)
       PROVE  (Setup /\ Places /\ Owners /\ Queue /\ Nexts /\ Taken /\ Bufs /\ Sums)'
  <2>1. /\ UNCHANGED <<setup, tasks, handles, chan, next, taken>> /\ buf[c] # <<>>
        /\ Add(c, Head(buf[c])) /\ buf' = [buf EXCEPT ![c] = Tail(@)]
    BY <1>11 DEF AddBuffered
  <2>2. /\ Distinct(buf[c]) /\ buf[c] \in Seq(Values)
        /\ Len(buf[c]) \in Nat /\ Len(buf[c]) <= taken[c] /\ taken[c] \in Nat
    BY <1>0, <1>1, DataTypes DEF InOnePlace
  <2>3. /\ Head(buf[c]) \in Values /\ Tail(buf[c]) \in Seq(Values)
        /\ Len(Tail(buf[c])) <= taken[c]
    BY <2>1, <2>2, Headless
  <2>4. Sums'
    BY <1>1, <2>1, <2>3 DEF Add
  <2>5. Bufs'
    BY <1>1, <2>1, <2>3
  <2>. QED  BY <1>1, <2>1, <2>4, <2>5 DEF setup, tasks, handles
<1>. QED  BY <1>3, <1>4, <1>5, <1>6, <1>8, <1>9, <1>10, <1>11, NextCases

\* The invariant holds in every state.
THEOREM Inductive == Spec => []IInv
<1>1. IInv /\ [Next]_vars => IInv'
  BY NextTypeOK, NextPositions, NextHandles, NextLeaving, NextInOnePlace DEF IInv
<1>. QED  BY <1>1, InitIInv, PTL DEF Spec

-----------------------------------------------------------------------------
(* What the invariant says of the end.                                     *)

\* When nobody can send any more, everything has been sent.
LEMMA NoSenderLeft ==
    ASSUME IInv, senders = {}
    PROVE  \A v \in Values : Unsent(v) <=> v \notin ToSend
<1>0. TypeOK /\ Positions /\ Handles /\ Leaving
  BY DEF IInv
<1>1. ASSUME NEW p \in 1 .. NumProducers PROVE next[p] = Per + 1
  <2>1. p \in Producers /\ (workload = "spsc" => p = 1)
    BY NumbersOfTasks
  <2>2. ppc[p] # "send" /\ ppc[p] # "new"
    BY <1>0, <2>1, Types DEF Handles, Positions
  <2>. QED  BY <1>0, <2>1, <2>2, Types DEF Leaving
<1>2. ASSUME NEW v \in Values PROVE Unsent(v) <=> v \notin ToSend
  <2>1. v[1] \in Producers /\ v[2] \in 1 .. Per /\ v = <<v[1], v[2]>> /\ v[1] \in Nat \ {0}
    BY Pairs, NumbersOfTasks
  <2>2. v \in ToSend <=> v[1] \in 1 .. NumProducers
    BY <2>1 DEF ToSend
  <2>3. v \notin ToSend => ppc[v[1]] = "new"
    BY <1>0, <2>1, <2>2, NumbersOfTasks DEF Positions
  <2>4. v \notin ToSend => next[v[1]] = 1
    BY <1>0, <2>1, <2>3 DEF Leaving
  <2>. QED  BY <1>1, <2>1, <2>2, <2>4 DEF Unsent
<1>. QED  BY <1>2

\* Only what is to be sent is ever sent.
LEMMA SentIsToSend ==
    ASSUME IInv, NEW v \in Values, ~Unsent(v)
    PROVE  v \in ToSend
<1>0. TypeOK /\ Positions /\ Leaving
  BY DEF IInv
<1>1. v[1] \in Producers /\ v[2] \in 1 .. Per /\ v = <<v[1], v[2]>> /\ v[1] \in Nat \ {0}
  BY Pairs, NumbersOfTasks
<1>2. ppc[v[1]] # "new"
  BY <1>0, <1>1 DEF Leaving, Unsent
<1>3. v[1] \in 1 .. NumProducers
  BY <1>0, <1>1, <1>2, NumbersOfTasks DEF Positions
<1>. QED  BY <1>1, <1>3 DEF ToSend

LEMMA IInvSendCannotFail == IInv => SendCannotFail
<1>. SUFFICES ASSUME IInv, NEW p \in Producers, Sending(p) PROVE receivers # {}
  BY DEF SendCannotFail
<1>0. TypeOK /\ Positions /\ Handles /\ Leaving
  BY DEF IInv
<1>1. p \in senders
  BY <1>0 DEF Sending, Handles
<1>2. cpc[1] # "end" /\ 1 \in Consumers /\ 1 \in 1 .. NumConsumers
  BY <1>0, <1>1, NumbersOfTasks DEF Leaving
<1>3. CASE cpc[1] = "new"
  BY <1>0, <1>2, <1>3, Types DEF Handles, Positions
<1>4. CASE cpc[1] # "new"
  BY <1>0, <1>2, <1>4 DEF Handles
<1>. QED  BY <1>3, <1>4

LEMMA IInvDrainedBeforeEnd == IInv => DrainedBeforeEnd
<1>. SUFFICES ASSUME IInv, NEW c \in Consumers, cpc[c] = "end", NEW v \in ToSend
              PROVE  \/ Added(v)
                     \/ \E d \in Consumers \ {c} : \E i \in DOMAIN buf[d] : buf[d][i] = v
  BY DEF DrainedBeforeEnd
<1>0. TypeOK /\ Leaving /\ InOnePlace
  BY DEF IInv
<1>1. senders = {} /\ chan = <<>> /\ buf[c] = <<>>
  BY <1>0 DEF Leaving
<1>2. v \in Values
  BY NumbersOfTasks DEF ToSend, Values
<1>3. ~Unsent(v) /\ ~Queued(v) /\ ~Kept(c, v)
  BY <1>1, <1>2, NoSenderLeft, NothingIn DEF Queued, Kept
<1>4. (\E d \in Consumers : Kept(d, v)) \/ AddedOnce(v)
  BY <1>0, <1>2, <1>3 DEF InOnePlace
<1>5. CASE AddedOnce(v)
  BY <1>5 DEF AddedOnce, Added
<1>6. CASE \E d \in Consumers : Kept(d, v)
  <2>1. PICK d \in Consumers : Kept(d, v)
    BY <1>6
  <2>2. d # c /\ DOMAIN buf[d] = 1 .. Len(buf[d])
    BY <1>0, <1>3, <2>1, DataTypes
  <2>. QED  BY <2>1, <2>2 DEF Kept, In
<1>. QED  BY <1>4, <1>5, <1>6

\* No send fails, and no consumer leaves a value behind in the channel or in a
\* buffer of its own, whichever way it consumes.
THEOREM PipelineEndsCleanly == Spec => []EndsCleanly
<1>1. IInv => EndsCleanly
  BY IInvSendCannotFail, IInvDrainedBeforeEnd DEF EndsCleanly, IInv
<1>. QED  BY <1>1, Inductive, PTL

-----------------------------------------------------------------------------
(* The pipeline implements ExactlyOnce: a value that gets into a sum is    *)
(* Account, and every other step but Join is a stutter.                    *)

Accounted == {v \in Values : AddedOnce(v)}

LEMMA AddAccounts ==
    ASSUME IInv, NEW c \in Consumers, NEW u \in Values, Add(c, u),
           cpc[c] \in {"recv", "more", "add"}, Unadded(u), ~Unsent(u),
           UNCHANGED <<workload, main>>
    PROVE  EO!Next
<1>0. TypeOK /\ Positions
  BY DEF IInv
<1>1. main # "reported"
  BY <1>0 DEF Positions
<1>2. /\ AddedOnce(u)' /\ ~AddedOnce(u)
      /\ \A v \in Values \ {u} : AddedOnce(v)' <=> AddedOnce(v)
  BY <1>0, AddOnce
<1>3. Accounted' = {v \in Values : AddedOnce(v)'}
  BY DEF Accounted, AddedOnce
<1>4. Accounted' = Accounted \cup {u} /\ u \notin Accounted
  BY <1>2, <1>3 DEF Accounted
<1>5. u \in ToSend
  BY SentIsToSend
<1>6. ToSend' = ToSend
  BY DEF ToSend, NumProducers
<1>7. EO!Account(u)
  BY <1>1, <1>4, <1>5, <1>6 DEF EO!Account, Accounted
<1>. QED  BY <1>5, <1>7 DEF EO!Next

\* A receive adds the value, or keeps it, which is a stutter.
LEMMA TakeAccounts ==
    ASSUME IInv, NEW c \in Consumers, Take(c), cpc[c] \in {"recv", "more"},
           UNCHANGED <<workload, main>>
    PROVE  EO!Next \/ UNCHANGED EO!vars
<1>0. TypeOK /\ InOnePlace /\ Distinct(chan) /\ chan # <<>>
  BY DEF IInv, InOnePlace, Take
<1>1. CASE style = "batch"
  <2>1. sum' = sum /\ ToSend' = ToSend
    BY <1>1 DEF Take, ToSend, NumProducers
  <2>. QED  BY <2>1 DEF EO!vars, AddedOnce
<1>2. CASE style # "batch"
  <2>1. PICK u \in Values : u = Head(chan) /\ Queued(u)
    BY <1>0, DataTypes, Headless DEF Queued
  <2>2. Add(c, u) /\ Unadded(u) /\ ~Unsent(u)
    BY <1>0, <1>2, <2>1 DEF Take, InOnePlace
  <2>. QED  BY <2>2, AddAccounts
<1>. QED  BY <1>1, <1>2

LEMMA AddBufferedAccounts ==
    ASSUME IInv, NEW c \in Consumers, AddBuffered(c)
    PROVE  EO!Next
<1>0. TypeOK /\ InOnePlace /\ Distinct(buf[c]) /\ buf[c] # <<>> /\ buf[c] \in Seq(Values)
  BY DataTypes DEF IInv, InOnePlace, AddBuffered
<1>1. PICK u \in Values : u = Head(buf[c]) /\ Kept(c, u)
  BY <1>0, Headless DEF Kept
<1>2. /\ Add(c, u) /\ Unadded(u) /\ ~Unsent(u)
      /\ cpc[c] = "add" /\ UNCHANGED <<workload, main>>
  BY <1>0, <1>1 DEF AddBuffered, InOnePlace, setup, tasks
<1>. QED  BY <1>2, AddAccounts

LEMMA JoinReports ==
    ASSUME IInv, Join
    PROVE  EO!Next
<1>0. TypeOK /\ Positions /\ Leaving /\ InOnePlace
  BY DEF IInv
<1>1. main = "join" /\ \A c \in 1 .. NumConsumers : cpc[c] = "end"
  BY DEF Join
<1>2. senders = {} /\ chan = <<>>
  <2>1. 1 \in Consumers /\ cpc[1] = "end"
    BY <1>1, NumbersOfTasks
  <2>. QED  BY <1>0, <2>1 DEF Leaving
<1>3. ASSUME NEW c \in Consumers, NEW v PROVE ~Kept(c, v)
  <2>1. c \in 1 .. NumConsumers \/ c > NumConsumers
    BY NumbersOfTasks
  <2>2. buf[c] = <<>>
    BY <1>0, <1>1, <2>1 DEF Positions, Leaving
  <2>. QED  BY <2>2, NothingIn DEF Kept
<1>4. ASSUME NEW v \in Values PROVE AddedOnce(v) <=> v \in ToSend
  <2>1. ~Queued(v) /\ (Unsent(v) <=> v \notin ToSend)
    BY <1>2, NothingIn, NoSenderLeft DEF Queued
  <2>2. Unsent(v) => ~AddedOnce(v)
    BY <1>0 DEF InOnePlace, Unadded, AddedOnce
  <2>3. Unsent(v) \/ AddedOnce(v)
    BY <1>0, <1>3, <2>1 DEF InOnePlace
  <2>. QED  BY <2>1, <2>2, <2>3
<1>5. Accounted = ToSend
  <2>1. ToSend \subseteq Values
    BY NumbersOfTasks DEF ToSend, Values
  <2>. QED  BY <1>4, <2>1 DEF Accounted
<1>6. Accounted' = Accounted /\ ToSend' = ToSend
  BY DEF Join, setup, local, Accounted, AddedOnce, ToSend, NumProducers
<1>7. main' = "reported"
  BY DEF Join
<1>. QED  BY <1>1, <1>5, <1>6, <1>7 DEF EO!Next, EO!Report, Accounted

\* Every value enters the checksum once, and the report comes after all.
THEOREM Refinement == Spec => ImplementsExactlyOnce
<1>1. Init => EO!Init
  <2>1. Init => Accounted = {} /\ main # "reported"
    BY DEF Init, Nothing, Accounted, AddedOnce
  <2>. QED  BY <2>1 DEF EO!Init, Accounted
<1>2. IInv /\ [Next]_vars => [EO!Next]_(EO!vars)
  <2>. SUFFICES ASSUME IInv, [Next]_vars PROVE EO!Next \/ UNCHANGED EO!vars
    OBVIOUS
  <2>1. ASSUME UNCHANGED <<workload, sum>>, main # "reported", main' # "reported"
        PROVE  UNCHANGED EO!vars
    BY <2>1 DEF EO!vars, ToSend, NumProducers, AddedOnce
  <2>2. ASSUME UNCHANGED <<workload, sum, main>> PROVE UNCHANGED EO!vars
    BY <2>2 DEF EO!vars, ToSend, NumProducers, AddedOnce
  <2>3. CASE DropRx \/ DropTx
    BY <2>1, <2>3 DEF DropRx, DropTx, setup, local
  <2>4. CASE UNCHANGED vars
    BY <2>2, <2>4 DEF vars, setup, tasks, local
  <2>5. ASSUME NEW p \in Producers, SpawnProducer(p) \/ ProducerEnd(p) \/ Send(p)
        PROVE  UNCHANGED EO!vars
    BY <2>2, <2>5 DEF SpawnProducer, ProducerEnd, Send, setup, tasks, local
  <2>6. ASSUME NEW c \in Consumers,
               SpawnConsumer(c) \/ StopBatch(c) \/ BufferEmpty(c) \/ ConsumerEnd(c)
        PROVE  UNCHANGED EO!vars
    BY <2>2, <2>6 DEF SpawnConsumer, StopBatch, BufferEmpty, ConsumerEnd, setup, local
  <2>7. ASSUME NEW c \in Consumers, Recv(c) \/ TryRecv(c)
        PROVE  EO!Next \/ UNCHANGED EO!vars
    BY <2>7, TakeAccounts DEF Recv, TryRecv, Goto, setup, tasks
  <2>. QED
    BY <2>3, <2>4, <2>5, <2>6, <2>7, AddBufferedAccounts, JoinReports, NextCases
<1>. QED  BY <1>1, <1>2, Inductive, PTL DEF Spec, EO!Spec, ImplementsExactlyOnce

=============================================================================
