-------------------------- MODULE SelectDrainProofs --------------------------
(***************************************************************************)
(* Proofs about SelectDrain, for any number of values, any size of a batch *)
(* and any capacities.                                                     *)
(***************************************************************************)
EXTENDS SelectDrain, SequenceTheorems, FiniteSetTheorems, TLAPS

\* What a channel holds is the last of what was sent on it; a producer returns
\* when it has sent everything.
Sending ==
    \A b \in Branches :
        /\ Taken(b) \in Nat
        /\ \A k \in DOMAIN chan[b] : chan[b][k] = <<b, Taken(b) + k>>
        /\ b \in ended => next[b] = Half + 1

\* Each channel is received in the order of its values.
Ordered ==
    \A j, k \in DOMAIN received :
        j < k /\ received[j][1] = received[k][1] => received[j][2] < received[k][2]

\* What has been received of a channel is what is neither in it nor to come.
Complete ==
    \A b \in Branches, x \in 1 .. Half :
        (\E k \in DOMAIN received : received[k] = <<b, x>>) <=> x <= Taken(b)

\* A branch is disabled when nothing can come any more, and the consumer has
\* nothing in hand unless it is adding up.
Positions ==
    /\ \A b \in Branches \ open : b \in ended /\ chan[b] = <<>>
    /\ pc # "add" => buf = <<>>
    /\ pc \in {"end", "reported"} => open = {}
    /\ pc = "reported" => ended = Branches

IInv ==
    /\ TypeOK
    /\ Sending
    /\ Ordered
    /\ Complete
    /\ Positions

-----------------------------------------------------------------------------
(* Facts about the values and the sequences.                               *)

LEMMA Constants ==
    /\ Half \in Nat /\ Batch \in Nat \ {0}
    /\ \A c \in Capacities : c \in Nat
BY SelectAssumption

LEMMA ValuesArePairs ==
    /\ \A b \in Branches, x \in 1 .. Half : <<b, x>> \in Values
    /\ \A u \in Values : /\ u[1] \in Branches /\ u[2] \in 1 .. Half
                         /\ u = <<u[1], u[2]>>
BY DEF Values

LEMMA DataTypes ==
    ASSUME TypeOK
    PROVE  /\ sum \in Seq(Values) /\ buf \in Seq(Values) /\ received \in Seq(Values)
           /\ Len(received) = Len(sum) + Len(buf)
           /\ \A k \in 1 .. Len(received) :
                 received[k] = IF k <= Len(sum) THEN sum[k] ELSE buf[k - Len(sum)]
<1>1. sum \in Seq(Values) /\ buf \in Seq(Values)
  BY DEF TypeOK
<1>. QED  BY <1>1, ConcatProperties DEF received

LEMMA ChannelTypes ==
    ASSUME TypeOK, NEW b \in Branches
    PROVE  /\ chan[b] \in Seq(Values) /\ Len(chan[b]) \in Nat
           /\ DOMAIN chan[b] = 1 .. Len(chan[b])
           /\ next[b] \in 1 .. Half + 1 /\ next[b] \in Nat
           /\ Taken(b) \in Int
<1>1. chan[b] \in Seq(Values) /\ next[b] \in 1 .. Half + 1
  BY DEF TypeOK
<1>. QED  BY <1>1, Constants DEF Taken

\* What was received stands, as what it is made of does not change.
LEMMA ReceivedAside ==
    ASSUME UNCHANGED <<sum, buf>>
    PROVE  received' = received
BY DEF received

LEMMA OrderedAside ==
    ASSUME Ordered, received' = received
    PROVE  Ordered'
BY DEF Ordered

LEMMA CompleteAside ==
    ASSUME Complete, received' = received, \A b \in Branches : Taken(b)' = Taken(b)
    PROVE  Complete'
BY DEF Complete

LEMMA QueuesAside ==
    ASSUME UNCHANGED queues
    PROVE  /\ \A b \in Branches : Taken(b)' = Taken(b)
           /\ Sending => Sending'
BY DEF queues, Taken, Sending

-----------------------------------------------------------------------------

LEMMA InitIInv == Init => IInv
<1>. SUFFICES ASSUME Init PROVE IInv
  OBVIOUS
<1>1. \A b \in Branches : chan[b] = <<>> /\ next[b] = 1 /\ Taken(b) = 0
  BY DEF Init, Taken
<1>2. received = <<>>
  BY DEF Init, received
<1>3. TypeOK
  <2>1. <<>> \in Seq(Values) /\ Len(<<>>) = 0
    BY EmptySeq
  <2>2. 1 \in 1 .. Half + 1 /\ 0 <= batch /\ 0 <= capacity
    BY Constants DEF Init
  <2>. QED  BY <2>1, <2>2 DEF Init, TypeOK
<1>4. Sending
  BY <1>1 DEF Init, Sending
<1>5. Ordered
  BY <1>2 DEF Ordered
<1>6. Complete
  BY <1>1, <1>2 DEF Complete
<1>7. Positions
  BY DEF Init, Positions
<1>. QED  BY <1>3, <1>4, <1>5, <1>6, <1>7 DEF IInv

LEMMA SendIInv == ASSUME IInv, NEW b \in Branches, Send(b) PROVE IInv'
<1>0. TypeOK /\ Sending /\ Ordered /\ Complete /\ Positions
  BY DEF IInv
<1>1. /\ next[b] <= Half /\ Len(chan[b]) < capacity
      /\ chan' = [chan EXCEPT ![b] = Append(@, <<b, next[b]>>)]
      /\ next' = [next EXCEPT ![b] = @ + 1]
      /\ UNCHANGED <<biased, batch, capacity, ended, pc, open, polled, buf, sum>>
  BY DEF Send, setup
<1>2. <<b, next[b]>> \in Values /\ next[b] + 1 \in 1 .. Half + 1
  BY <1>0, <1>1, ChannelTypes, Constants, ValuesArePairs
<1>3. /\ chan'[b] \in Seq(Values) /\ Len(chan'[b]) = Len(chan[b]) + 1
      /\ \A k \in 1 .. Len(chan[b]) : chan'[b][k] = chan[b][k]
      /\ chan'[b][Len(chan[b]) + 1] = <<b, next[b]>>
  <2>1. chan'[b] = Append(chan[b], <<b, next[b]>>)
    BY <1>0, <1>1 DEF TypeOK
  <2>. QED  BY <1>0, <1>2, <2>1, ChannelTypes, AppendProperties
<1>4. next'[b] = next[b] + 1
  BY <1>0, <1>1 DEF TypeOK
<1>5. \A d \in Branches \ {b} : chan'[d] = chan[d] /\ next'[d] = next[d]
  BY <1>0, <1>1 DEF TypeOK
<1>6. \A d \in Branches : Taken(d)' = Taken(d)
  <2>1. Taken(b)' = Taken(b)
    BY <1>0, <1>3, <1>4, ChannelTypes DEF Taken
  <2>. QED  BY <1>5, <2>1 DEF Taken
<1>7. TypeOK'
  <2>1. next' \in [Branches -> 1 .. Half + 1]
    BY <1>0, <1>1, <1>2 DEF TypeOK
  <2>2. chan' \in [Branches -> Seq(Values)]
    BY <1>0, <1>1, <1>3, <1>5 DEF TypeOK
  <2>3. \A d \in Branches : Len(chan'[d]) <= capacity'
    <3>1. capacity \in Nat
      BY <1>0, Constants DEF TypeOK
    <3>2. Len(chan'[b]) <= capacity
      BY <1>0, <1>1, <1>3, <3>1, ChannelTypes
    <3>. QED  BY <1>0, <1>1, <1>5, <3>2 DEF TypeOK
  <2>. QED  BY <1>0, <1>1, <2>1, <2>2, <2>3 DEF TypeOK
<1>8. Sending'
  <2>1. ASSUME NEW d \in Branches
        PROVE  /\ Taken(d)' \in Nat
               /\ \A k \in DOMAIN chan'[d] : chan'[d][k] = <<d, Taken(d)' + k>>
               /\ d \in ended' => next'[d] = Half + 1
    <3>1. CASE d # b
      BY <1>0, <1>1, <1>5, <1>6, <3>1 DEF Sending
    <3>2. CASE d = b
      <4>1. Taken(b) + Len(chan[b]) + 1 = next[b]
        BY <1>0, ChannelTypes DEF Taken
      <4>2. DOMAIN chan'[b] = 1 .. Len(chan[b]) + 1
        BY <1>3
      <4>3. ASSUME NEW k \in 1 .. Len(chan[b]) + 1
            PROVE  chan'[b][k] = <<b, Taken(b) + k>>
        <5>1. CASE k = Len(chan[b]) + 1
          BY <1>3, <4>1, <5>1, <1>0, ChannelTypes
        <5>2. CASE k \in 1 .. Len(chan[b])
          BY <1>0, <1>3, <5>2, ChannelTypes DEF Sending
        <5>. QED  BY <5>1, <5>2, <1>0, ChannelTypes
      <4>4. b \notin ended
        BY <1>0, <1>1, Constants DEF Sending
      <4>. QED  BY <1>0, <1>1, <1>6, <3>2, <4>2, <4>3, <4>4 DEF Sending
    <3>. QED  BY <3>1, <3>2
  <2>. QED  BY <2>1 DEF Sending
<1>9. received' = received
  BY <1>1, ReceivedAside
<1>10. Positions'
  <2>1. b \in open
    BY <1>0, <1>1, Constants DEF Positions, Sending
  <2>. QED  BY <1>0, <1>1, <1>5, <2>1 DEF Positions
<1>. QED  BY <1>0, <1>6, <1>7, <1>8, <1>9, <1>10, OrderedAside, CompleteAside DEF IInv

LEMMA ProducerEndIInv == ASSUME IInv, NEW b \in Branches, ProducerEnd(b) PROVE IInv'
<1>0. TypeOK /\ Sending /\ Ordered /\ Complete /\ Positions
  BY DEF IInv
<1>1. /\ next[b] > Half /\ ended' = ended \cup {b}
      /\ UNCHANGED <<biased, batch, capacity, next, chan, pc, open, polled, buf, sum>>
  BY DEF ProducerEnd, setup
<1>2. next[b] = Half + 1
  BY <1>0, <1>1, ChannelTypes, Constants
<1>3. TypeOK'
  BY <1>0, <1>1 DEF TypeOK
<1>4. \A d \in Branches : Taken(d)' = Taken(d)
  BY <1>1 DEF Taken
<1>5. Sending'
  BY <1>0, <1>1, <1>2, <1>4 DEF Sending
<1>6. Positions'
  BY <1>0, <1>1 DEF Positions, TypeOK
<1>. QED
  BY <1>0, <1>1, <1>3, <1>4, <1>5, <1>6, ReceivedAside, OrderedAside, CompleteAside DEF IInv

(* A branch wins with k values: they are appended to what was received.    *)
LEMMA ReadyReceives ==
    ASSUME IInv, NEW b \in Branches, Ready(b)
    PROVE  \E k \in 1 .. batch :
              /\ k <= Len(chan[b])
              /\ TypeOK'
              /\ Len(chan'[b]) = Len(chan[b]) - k
              /\ \A m \in 1 .. Len(chan'[b]) : chan'[b][m] = chan[b][m + k]
              /\ \A d \in Branches \ {b} : chan'[d] = chan[d]
              /\ Len(received') = Len(received) + k
              /\ \A m \in 1 .. Len(received) : received'[m] = received[m]
              /\ \A m \in 1 .. k : received'[Len(received) + m] = chan[b][m]
<1>0. TypeOK /\ Positions
  BY DEF IInv
<1>1. PICK k \in 1 .. batch :
         /\ k <= Len(chan[b])
         /\ buf' = SubSeq(chan[b], 1, k)
         /\ chan' = [chan EXCEPT ![b] = SubSeq(@, k + 1, Len(@))]
  BY DEF Ready
<1>2. /\ buf = <<>> /\ pc' = "add" /\ polled' = {}
      /\ UNCHANGED <<biased, batch, capacity, next, ended, open, sum>>
  BY <1>0 DEF Ready, Polls, Positions, setup
<1>3. batch \in Nat /\ k \in Nat /\ k <= batch
  BY <1>0, Constants DEF TypeOK
<1>4. \A m \in 1 .. Len(chan[b]) : chan[b][m] \in Values
  BY <1>0, ChannelTypes, ElementOfSeq
<1>5. /\ buf' \in Seq(Values) /\ Len(buf') = k
      /\ \A m \in 1 .. k : buf'[m] = chan[b][m]
  <2>1. \A m \in 1 .. k : chan[b][m] \in Values
    BY <1>0, <1>1, <1>3, <1>4, ChannelTypes
  <2>2. /\ SubSeq(chan[b], 1, k) \in Seq(Values)
        /\ Len(SubSeq(chan[b], 1, k)) = IF 1 <= k THEN k - 1 + 1 ELSE 0
        /\ \A m \in 1 .. k - 1 + 1 : SubSeq(chan[b], 1, k)[m] = chan[b][1 + m - 1]
    BY <1>3, <2>1, SubSeqProperties
  <2>. QED  BY <1>1, <1>3, <2>2
<1>6. chan'[b] = SubSeq(chan[b], k + 1, Len(chan[b])) /\ \A d \in Branches \ {b} : chan'[d] = chan[d]
  BY <1>0, <1>1 DEF TypeOK
<1>7. /\ chan'[b] \in Seq(Values) /\ Len(chan'[b]) = Len(chan[b]) - k
      /\ \A m \in 1 .. Len(chan[b]) - k : chan'[b][m] = chan[b][m + k]
  <2>1. PICK len \in Nat : len = Len(chan[b])
    BY <1>0, ChannelTypes
  <2>2. \A m \in k + 1 .. len : chan[b][m] \in Values
    BY <1>3, <1>4, <2>1
  <2>3. /\ SubSeq(chan[b], k + 1, len) \in Seq(Values)
        /\ Len(SubSeq(chan[b], k + 1, len)) = IF k + 1 <= len THEN len - (k + 1) + 1 ELSE 0
        /\ \A m \in 1 .. len - (k + 1) + 1 : SubSeq(chan[b], k + 1, len)[m] = chan[b][k + 1 + m - 1]
    BY <1>3, <2>1, <2>2, SubSeqProperties
  <2>4. k <= len
    BY <1>1, <2>1
  <2>5. \A m \in 1 .. len - k : k + 1 + m - 1 = m + k
    BY <1>3, <2>1
  <2>. QED  BY <1>3, <1>6, <2>1, <2>3, <2>4, <2>5
<1>8. TypeOK'
  <2>1. chan' \in [Branches -> Seq(Values)]
    BY <1>0, <1>1, <1>6, <1>7 DEF TypeOK
  <2>2. \A d \in Branches : Len(chan'[d]) <= capacity'
    <3>1. capacity \in Nat /\ Len(chan[b]) <= capacity
      BY <1>0, Constants DEF TypeOK
    <3>2. Len(chan'[b]) <= capacity
      BY <1>0, <1>3, <1>7, <3>1, ChannelTypes
    <3>. QED  BY <1>0, <1>2, <1>6, <3>2 DEF TypeOK
  <2>. QED  BY <1>0, <1>2, <1>3, <1>5, <2>1, <2>2 DEF TypeOK
<1>9. received = sum
  BY <1>0, <1>2, ConcatEmptySeq DEF received, TypeOK
<1>10. /\ Len(received') = Len(received) + k
       /\ \A m \in 1 .. Len(received) : received'[m] = received[m]
       /\ \A m \in 1 .. k : received'[Len(received) + m] = chan[b][m]
  <2>1. sum \in Seq(Values) /\ Len(sum) \in Nat
    BY <1>0 DEF TypeOK
  <2>2. /\ Len(sum \o buf') = Len(sum) + k
        /\ \A m \in 1 .. Len(sum) + k :
              (sum \o buf')[m] = IF m <= Len(sum) THEN sum[m] ELSE buf'[m - Len(sum)]
    BY <1>5, <2>1, ConcatProperties
  <2>3. received' = sum \o buf'
    BY <1>2 DEF received
  <2>4. \A m \in 1 .. k : Len(sum) + m \in 1 .. Len(sum) + k /\ ~(Len(sum) + m <= Len(sum))
                          /\ Len(sum) + m - Len(sum) = m
    BY <1>3, <2>1
  <2>5. \A m \in 1 .. Len(sum) : m \in 1 .. Len(sum) + k /\ m <= Len(sum)
    BY <1>3, <2>1
  <2>. QED  BY <1>5, <1>9, <2>1, <2>2, <2>3, <2>4, <2>5
<1>. QED  BY <1>1, <1>6, <1>7, <1>8, <1>10

LEMMA ReadyIInv == ASSUME IInv, NEW b \in Branches, Ready(b) PROVE IInv'
<1>0. TypeOK /\ Sending /\ Ordered /\ Complete /\ Positions
  BY DEF IInv
<1>1. PICK k \in 1 .. batch :
         /\ k <= Len(chan[b])
         /\ TypeOK'
         /\ Len(chan'[b]) = Len(chan[b]) - k
         /\ \A m \in 1 .. Len(chan'[b]) : chan'[b][m] = chan[b][m + k]
         /\ \A d \in Branches \ {b} : chan'[d] = chan[d]
         /\ Len(received') = Len(received) + k
         /\ \A m \in 1 .. Len(received) : received'[m] = received[m]
         /\ \A m \in 1 .. k : received'[Len(received) + m] = chan[b][m]
  BY ReadyReceives
<1>2. /\ pc = "select" /\ pc' = "add" /\ b \in open /\ UNCHANGED <<next, ended, open>>
  BY DEF Ready, Polls
<1>3. k \in Nat /\ k >= 1
  BY <1>0, Constants DEF TypeOK
<1>4. PICK len \in Nat : len = Len(received)
  BY <1>0, DataTypes
<1>5. PICK queued \in Nat : queued = Len(chan[b])
  BY <1>0, ChannelTypes
<1>6. PICK before \in Nat : before = Taken(b)
  BY <1>0 DEF Sending
<1>7. /\ DOMAIN received = 1 .. len /\ DOMAIN received' = 1 .. len + k
      /\ \A m \in 1 .. len + k : received'[m] \in Values
  <2>1. received \in Seq(Values) /\ received' \in Seq(Values)
    BY <1>0, <1>1, DataTypes DEF received, TypeOK
  <2>. QED  BY <1>1, <1>3, <1>4, <2>1, ElementOfSeq
<1>8. Taken(b)' = before + k /\ \A d \in Branches \ {b} : Taken(d)' = Taken(d)
  <2>1. PICK sent \in Nat : sent = next[b]
    BY <1>0, ChannelTypes
  <2>2. before = sent - 1 - queued /\ Taken(b)' = sent - 1 - (queued - k)
    BY <1>1, <1>2, <1>5, <1>6, <2>1 DEF Taken
  <2>3. sent - 1 - (queued - k) = (sent - 1 - queued) + k
    BY <1>3
  <2>. QED  BY <1>1, <1>2, <2>2, <2>3 DEF Taken
<1>9. \A m \in 1 .. k : received'[len + m] = <<b, before + m>> /\ m \in 1 .. queued
  <2>. SUFFICES ASSUME NEW m \in 1 .. k
                PROVE  received'[len + m] = <<b, before + m>> /\ m \in 1 .. queued
    OBVIOUS
  <2>1. k <= queued
    BY <1>1, <1>5
  <2>2. m \in 1 .. queued
    BY <1>3, <2>1
  <2>3. chan[b][m] = <<b, before + m>>
    BY <1>0, <1>5, <1>6, <2>2, ChannelTypes DEF Sending
  <2>4. received'[len + m] = chan[b][m]
    BY <1>1, <1>4
  <2>. QED  BY <2>2, <2>3, <2>4
<1>10. before + k <= Half
  <2>1. before + k \in 1 .. Half
    <3>1. k \in 1 .. k /\ len + k \in 1 .. len + k
      BY <1>3, <1>4
    <3>2. received'[len + k] = <<b, before + k>> /\ received'[len + k] \in Values
      BY <1>7, <1>9, <3>1
    <3>. QED  BY <3>2, ValuesArePairs
  <2>. QED  BY <2>1
<1>11. Sending'
  <2>1. ASSUME NEW d \in Branches
        PROVE  /\ Taken(d)' \in Nat
               /\ \A m \in DOMAIN chan'[d] : chan'[d][m] = <<d, Taken(d)' + m>>
               /\ d \in ended' => next'[d] = Half + 1
    <3>1. CASE d # b
      BY <1>0, <1>1, <1>2, <1>8, <3>1 DEF Sending
    <3>2. CASE d = b
      <4>1. DOMAIN chan'[b] = 1 .. queued - k
        <5>1. chan'[b] \in Seq(Values)
          BY <1>1 DEF TypeOK
        <5>. QED  BY <1>1, <1>5, <5>1
      <4>2. ASSUME NEW m \in 1 .. queued - k PROVE chan'[b][m] = <<b, before + k + m>>
        <5>1. m + k \in 1 .. queued
          BY <1>3, <1>5
        <5>2. chan[b][m + k] = <<b, before + (m + k)>>
          BY <1>0, <1>5, <1>6, <5>1, ChannelTypes DEF Sending
        <5>3. chan'[b][m] = chan[b][m + k]
          BY <1>1, <1>5
        <5>. QED  BY <1>3, <1>6, <5>2, <5>3
      <4>. QED  BY <1>0, <1>2, <1>3, <1>8, <3>2, <4>1, <4>2 DEF Sending
    <3>. QED  BY <3>1, <3>2
  <2>. QED  BY <2>1 DEF Sending
<1>12. \A m \in 1 .. len : received[m][1] = b => received[m][2] <= before
  <2>. SUFFICES ASSUME NEW m \in 1 .. len, received[m][1] = b PROVE received[m][2] <= before
    OBVIOUS
  <2>1. received[m] \in Values
    BY <1>0, <1>4, DataTypes, ElementOfSeq
  <2>2. received[m] = <<b, received[m][2]>> /\ received[m][2] \in 1 .. Half
    BY <2>1, ValuesArePairs
  <2>. QED  BY <1>0, <1>6, <1>7, <2>2 DEF Complete
<1>13. Ordered'
  <2>. SUFFICES ASSUME NEW j \in 1 .. len + k, NEW m \in 1 .. len + k,
                       j < m, received'[j][1] = received'[m][1]
                PROVE  received'[j][2] < received'[m][2]
    BY <1>7 DEF Ordered
  <2>1. CASE m <= len
    <3>1. j \in 1 .. len /\ m \in 1 .. len
      BY <1>3, <1>4, <2>1
    <3>2. received'[j] = received[j] /\ received'[m] = received[m]
      BY <1>1, <1>4, <3>1
    <3>. QED  BY <1>0, <1>7, <3>1, <3>2 DEF Ordered
  <2>2. CASE m > len
    <3>1. m - len \in 1 .. k /\ len + (m - len) = m
      BY <1>3, <1>4, <2>2
    <3>2. received'[m] = <<b, before + (m - len)>>
      BY <1>9, <3>1
    <3>3. CASE j <= len
      <4>1. received'[j] = received[j] /\ j \in 1 .. len
        BY <1>1, <1>4, <3>3
      <4>2. received[j][2] <= before
        BY <1>12, <3>2, <4>1
      <4>3. received[j][2] \in Nat
        <5>1. received[j] \in Values
          BY <1>7, <4>1
        <5>. QED  BY <5>1, ValuesArePairs, Constants
      <4>. QED  BY <1>6, <3>1, <3>2, <4>1, <4>2, <4>3
    <3>4. CASE j > len
      <4>1. j - len \in 1 .. k /\ len + (j - len) = j
        BY <1>3, <1>4, <3>4
      <4>2. received'[j] = <<b, before + (j - len)>>
        BY <1>9, <4>1
      <4>. QED  BY <1>4, <1>6, <3>2, <4>2
    <3>. QED  BY <1>4, <3>3, <3>4
  <2>. QED  BY <1>4, <2>1, <2>2
<1>14. Complete'
  <2>. SUFFICES ASSUME NEW d \in Branches, NEW x \in 1 .. Half
                PROVE  (\E m \in 1 .. len + k : received'[m] = <<d, x>>) <=> x <= Taken(d)'
    BY <1>7 DEF Complete
  <2>1. (\E m \in 1 .. len : received[m] = <<d, x>>) <=> x <= Taken(d)
    BY <1>0, <1>7 DEF Complete
  <2>2. ASSUME NEW m \in 1 .. len + k
        PROVE  \/ m \in 1 .. len /\ received'[m] = received[m]
               \/ m - len \in 1 .. k /\ received'[m] = <<b, before + (m - len)>>
    <3>1. CASE m <= len
      <4>1. m \in 1 .. len
        BY <1>3, <1>4, <3>1
      <4>. QED  BY <1>1, <1>4, <4>1
    <3>2. CASE m > len
      <4>1. m - len \in 1 .. k /\ len + (m - len) = m
        BY <1>3, <1>4, <3>2
      <4>. QED  BY <1>9, <4>1
    <3>. QED  BY <1>4, <3>1, <3>2
  <2>3. \A m \in 1 .. len : m \in 1 .. len + k
    BY <1>3, <1>4
  <2>4. CASE d # b
    <3>1. ASSUME NEW m \in 1 .. len + k, received'[m] = <<d, x>>
          PROVE  m \in 1 .. len /\ received[m] = <<d, x>>
      BY <2>2, <2>4, <3>1
    <3>2. ASSUME NEW m \in 1 .. len, received[m] = <<d, x>> PROVE received'[m] = <<d, x>>
      BY <1>1, <1>4, <3>2
    <3>3. Taken(d)' = Taken(d)
      BY <1>8, <2>4
    <3>. QED  BY <2>1, <2>3, <3>1, <3>2, <3>3
  <2>5. CASE d = b
    <3>1. ASSUME x <= before PROVE \E m \in 1 .. len + k : received'[m] = <<b, x>>
      BY <1>1, <1>4, <1>6, <2>1, <2>3, <2>5, <3>1
    <3>2. ASSUME x > before, x <= before + k
          PROVE  \E m \in 1 .. len + k : received'[m] = <<b, x>>
      <4>1. x - before \in 1 .. k /\ len + (x - before) \in 1 .. len + k
            /\ before + (x - before) = x
        BY <1>3, <1>4, <1>6, <3>2
      <4>2. received'[len + (x - before)] = <<b, before + (x - before)>>
        BY <1>9, <4>1
      <4>. QED  BY <4>1, <4>2
    <3>3. ASSUME NEW m \in 1 .. len + k, received'[m] = <<b, x>> PROVE x <= before + k
      <4>1. CASE received'[m] = received[m] /\ m \in 1 .. len
        <5>1. x <= before
          BY <1>6, <2>1, <2>5, <3>3, <4>1
        <5>. QED  BY <1>3, <1>6, <5>1
      <4>2. CASE m - len \in 1 .. k /\ received'[m] = <<b, before + (m - len)>>
        <5>1. x = before + (m - len)
          BY <3>3, <4>2
        <5>. QED  BY <1>3, <1>6, <4>2, <5>1
      <4>. QED  BY <2>2, <4>1, <4>2
    <3>4. x <= before \/ (x > before /\ x <= before + k) \/ ~(x <= before + k)
      BY <1>3, <1>6
    <3>. QED  BY <1>8, <2>5, <3>1, <3>2, <3>3, <3>4
  <2>. QED  BY <2>4, <2>5
<1>15. Positions'
  BY <1>0, <1>1, <1>2 DEF Positions, TypeOK
<1>. QED  BY <1>1, <1>11, <1>13, <1>14, <1>15 DEF IInv

LEMMA ClosedIInv == ASSUME IInv, NEW b \in Branches, Closed(b) PROVE IInv'
<1>0. TypeOK /\ Sending /\ Ordered /\ Complete /\ Positions
  BY DEF IInv
<1>1. /\ pc = "select" /\ chan[b] = <<>> /\ b \in ended
      /\ open' = open \ {b} /\ polled' = {} /\ pc' = Loop(open')
      /\ UNCHANGED <<biased, batch, capacity, next, ended, chan, buf, sum>>
  BY DEF Closed, Polls, setup, queues
<1>2. pc' \in {"select", "end"} /\ (pc' = "end" => open' = {})
  BY <1>1 DEF Loop
<1>3. TypeOK'
  BY <1>0, <1>1, <1>2 DEF TypeOK
<1>4. Positions'
  BY <1>0, <1>1, <1>2 DEF Positions
<1>. QED
  BY <1>0, <1>1, <1>3, <1>4, QueuesAside, ReceivedAside, OrderedAside, CompleteAside DEF IInv, queues

LEMMA AddIInv == ASSUME IInv, Add PROVE IInv'
<1>0. TypeOK /\ Sending /\ Ordered /\ Complete /\ Positions
  BY DEF IInv
<1>1. pc = "add" /\ UNCHANGED <<biased, batch, capacity, next, ended, chan, open, polled>>
  BY DEF Add, setup, queues
<1>2. CASE buf = <<>>
  <2>1. pc' = Loop(open) /\ UNCHANGED <<buf, sum>>
    BY <1>2 DEF Add
  <2>2. pc' \in {"select", "end"} /\ (pc' = "end" => open' = {})
    BY <1>1, <2>1 DEF Loop
  <2>3. TypeOK'
    BY <1>0, <1>1, <2>1, <2>2 DEF TypeOK
  <2>4. Positions'
    BY <1>0, <1>1, <1>2, <2>1, <2>2 DEF Positions
  <2>. QED
    BY <1>0, <1>1, <2>1, <2>3, <2>4, QueuesAside, ReceivedAside, OrderedAside, CompleteAside DEF IInv, queues
<1>3. CASE buf # <<>>
  <2>1. sum' = Append(sum, Head(buf)) /\ buf' = Tail(buf) /\ pc' = pc
    BY <1>3 DEF Add
  <2>2. buf \in Seq(Values) /\ sum \in Seq(Values) /\ Len(buf) \in Nat /\ Len(sum) \in Nat
    BY <1>0 DEF TypeOK
  <2>3. /\ Head(buf) \in Values /\ buf' \in Seq(Values) /\ Len(buf') = Len(buf) - 1
        /\ \A m \in 1 .. Len(buf) - 1 : buf'[m] = buf[m + 1]
        /\ Head(buf) = buf[1]
    BY <1>3, <2>1, <2>2, HeadTailProperties
  <2>4. /\ sum' \in Seq(Values) /\ Len(sum') = Len(sum) + 1
        /\ \A m \in 1 .. Len(sum) : sum'[m] = sum[m]
        /\ sum'[Len(sum) + 1] = buf[1]
    BY <2>1, <2>2, <2>3, AppendProperties
  <2>5. received' = received
    <3>1. PICK len \in Nat, more \in Nat : len = Len(sum) /\ more + 1 = Len(buf)
      <4>1. Len(buf') \in Nat
        BY <2>3
      <4>. QED  BY <2>2, <2>3, <4>1
    <3>2. Len(sum') = len + 1 /\ Len(buf') = more
      BY <2>2, <2>3, <2>4, <3>1
    <3>3. /\ sum' \o buf' \in Seq(Values) /\ Len(sum' \o buf') = len + 1 + more
          /\ \A m \in 1 .. len + 1 + more :
                (sum' \o buf')[m] = IF m <= len + 1 THEN sum'[m] ELSE buf'[m - (len + 1)]
      <4>1. sum' \in Seq(Values) /\ buf' \in Seq(Values)
        BY <2>3, <2>4
      <4>2. /\ sum' \o buf' \in Seq(Values) /\ Len(sum' \o buf') = Len(sum') + Len(buf')
            /\ \A m \in 1 .. Len(sum') + Len(buf') :
                (sum' \o buf')[m] = IF m <= Len(sum') THEN sum'[m] ELSE buf'[m - Len(sum')]
        BY <4>1, ConcatProperties
      <4>. QED  BY <3>2, <4>2
    <3>4. /\ received \in Seq(Values) /\ Len(received) = len + 1 + more
          /\ \A m \in 1 .. len + 1 + more :
                received[m] = IF m <= len THEN sum[m] ELSE buf[m - len]
      <4>1. Len(sum) + Len(buf) = len + 1 + more
        BY <3>1
      <4>. QED  BY <1>0, <3>1, <4>1, DataTypes
    <3>5. ASSUME NEW m \in 1 .. len + 1 + more
          PROVE  (sum' \o buf')[m] = received[m]
      <4>1. CASE m <= len
        <5>1. sum'[m] = sum[m]
          BY <2>4, <3>1, <4>1
        <5>. QED  BY <3>3, <3>4, <4>1, <5>1
      <4>2. CASE m = len + 1
        <5>1. m - len = 1 /\ m <= len + 1 /\ ~(m <= len)
          BY <4>2
        <5>2. sum'[m] = buf[1]
          BY <2>4, <3>1, <4>2
        <5>. QED  BY <3>3, <3>4, <5>1, <5>2
      <4>3. CASE m > len + 1
        <5>1. m - (len + 1) \in 1 .. more /\ m - (len + 1) + 1 = m - len
          BY <4>3
        <5>2. Len(buf) - 1 = more
          BY <3>1
        <5>3. buf'[m - (len + 1)] = buf[m - len]
          BY <2>3, <5>1, <5>2
        <5>4. ~(m <= len + 1) /\ ~(m <= len)
          BY <4>3
        <5>. QED  BY <3>3, <3>4, <5>3, <5>4
      <4>4. m <= len \/ m = len + 1 \/ m > len + 1
        OBVIOUS
      <4>. QED  BY <4>1, <4>2, <4>3, <4>4, Zenon
    <3>6. sum' \o buf' = received
      BY <3>3, <3>4, <3>5, SeqEqual
    <3>. QED  BY <3>6 DEF received
  <2>6. TypeOK'
    <3>1. Len(buf') <= batch
      <4>1. batch \in Nat /\ Len(buf) <= batch
        BY <1>0, Constants DEF TypeOK
      <4>. QED  BY <2>2, <2>3, <4>1
    <3>. QED  BY <1>0, <1>1, <2>1, <2>3, <2>4, <3>1 DEF TypeOK
  <2>7. Positions'
    BY <1>0, <1>1, <2>1 DEF Positions
  <2>. QED
    BY <1>0, <1>1, <2>5, <2>6, <2>7, QueuesAside, OrderedAside, CompleteAside DEF IInv, queues
<1>. QED  BY <1>2, <1>3

\* NotReady and Wake change polled, Report the place of the consumer.
LEMMA WaitIInv ==
    ASSUME IInv, (\E b \in Branches : NotReady(b)) \/ Wake \/ Report \/ UNCHANGED vars
    PROVE  IInv'
<1>0. TypeOK /\ Sending /\ Ordered /\ Complete /\ Positions
  BY DEF IInv
<1>1. UNCHANGED <<biased, batch, capacity, next, ended, chan, open, buf, sum>>
  BY DEF NotReady, Wake, Report, vars, setup, queues
<1>2. TypeOK' /\ Positions'
  <2>1. ASSUME NEW b \in Branches, NotReady(b) PROVE TypeOK' /\ Positions'
    <3>1. b \in open /\ polled' = polled \cup {b} /\ pc' = pc
      BY <2>1 DEF NotReady, Polls
    <3>. QED  BY <1>0, <1>1, <3>1 DEF TypeOK, Positions
  <2>2. CASE Wake
    <3>1. polled' = {} /\ pc' = pc
      BY <2>2 DEF Wake
    <3>. QED  BY <1>0, <1>1, <3>1 DEF TypeOK, Positions
  <2>3. CASE Report
    <3>1. ended = Branches /\ pc = "end" /\ pc' = "reported" /\ polled' = polled
      BY <2>3 DEF Report
    <3>. QED  BY <1>0, <1>1, <3>1 DEF TypeOK, Positions
  <2>4. CASE UNCHANGED vars
    <3>1. polled' = polled /\ pc' = pc
      BY <2>4 DEF vars
    <3>. QED  BY <1>0, <1>1, <3>1 DEF TypeOK, Positions
  <2>. QED  BY <2>1, <2>2, <2>3, <2>4
<1>. QED
  BY <1>0, <1>1, <1>2, QueuesAside, ReceivedAside, OrderedAside, CompleteAside DEF IInv, queues

(* The invariant that the theorems below rest on.                          *)
THEOREM Inductive == Spec => []IInv
<1>1. IInv /\ [Next]_vars => IInv'
  <2>. SUFFICES ASSUME IInv, [Next]_vars PROVE IInv'
    OBVIOUS
  <2>1. CASE \E b \in Branches : Producer(b)
    BY <2>1, SendIInv, ProducerEndIInv DEF Producer
  <2>2. CASE Consumer
    BY <2>2, ReadyIInv, ClosedIInv, AddIInv, WaitIInv DEF Consumer
  <2>3. CASE Report \/ Exited \/ UNCHANGED vars
    BY <2>3, WaitIInv DEF Exited
  <2>. QED  BY <2>1, <2>2, <2>3 DEF Next
<1>. QED  BY <1>1, InitIInv, PTL DEF Spec

(* Whichever branches win, each channel is received in order and without a *)
(* gap, and a branch is disabled only when all of it has been received.    *)
THEOREM EachInOrder == Spec => []DrainedInOrder
<1>1. IInv => DrainedInOrder
  <2>. SUFFICES ASSUME IInv PROVE DrainedInOrder
    OBVIOUS
  <2>0. TypeOK /\ Sending /\ Ordered /\ Complete /\ Positions
    BY DEF IInv
  <2>1. ASSUME NEW b \in Branches, b \notin open PROVE Taken(b) = Half
    BY <2>0, <2>1, Constants DEF Sending, Positions, Taken
  <2>. QED  BY <2>0, <2>1 DEF DrainedInOrder, Ordered, Complete, Sending
<1>. QED  BY <1>1, Inductive, PTL

-----------------------------------------------------------------------------
(* The loop implements ExactlyOnce: a value that is added up is Account,   *)
(* and every step but Add and Report is a stutter.                         *)

InSum(u) == \E k \in DOMAIN sum : sum[k] = u

Accounted == {u \in Values : Cardinality({k \in DOMAIN sum : sum[k] = u}) = 1}

\* No value is received twice.
LEMMA ReceivedOnce ==
    ASSUME TypeOK, Ordered, NEW j \in DOMAIN received, NEW k \in DOMAIN received,
           received[j] = received[k]
    PROVE  j = k
<1>1. received \in Seq(Values)
  BY DataTypes
<1>2. j \in Nat /\ k \in Nat /\ received[j] \in Values
  BY <1>1, ElementOfSeq
<1>3. received[j][2] \in Nat
  BY <1>2, ValuesArePairs, Constants
<1>4. ~(j < k) /\ ~(k < j)
  BY <1>3 DEF Ordered
<1>. QED  BY <1>2, <1>4

LEMMA AccountedIsInSum ==
    TypeOK /\ Ordered => Accounted = {u \in Values : InSum(u)}
<1>. SUFFICES ASSUME TypeOK, Ordered, NEW u \in Values
              PROVE  Cardinality({k \in DOMAIN sum : sum[k] = u}) = 1 <=> InSum(u)
  BY DEF Accounted
<1>1. DOMAIN sum \subseteq DOMAIN received /\ \A k \in DOMAIN sum : received[k] = sum[k]
  <2>1. sum \in Seq(Values) /\ Len(sum) \in Nat /\ Len(buf) \in Nat /\ received \in Seq(Values)
    BY DataTypes
  <2>2. DOMAIN sum = 1 .. Len(sum) /\ DOMAIN received = 1 .. Len(sum) + Len(buf)
    BY <2>1, DataTypes
  <2>. QED  BY <2>1, <2>2, DataTypes
<1>2. CASE InSum(u)
  <2>1. PICK k \in DOMAIN sum : sum[k] = u
    BY <1>2 DEF InSum
  <2>2. {m \in DOMAIN sum : sum[m] = u} = {k}
    BY <1>1, <2>1, ReceivedOnce
  <2>. QED  BY <1>2, <2>2, FS_Singleton
<1>3. CASE ~InSum(u)
  <2>1. {m \in DOMAIN sum : sum[m] = u} = {}
    BY <1>3 DEF InSum
  <2>. QED  BY <1>3, <2>1, FS_EmptySet
<1>. QED  BY <1>2, <1>3

LEMMA AccountedIsInSumNext ==
    (TypeOK /\ Ordered)' => Accounted' = {u \in Values : InSum(u)'}
<1>1. (TypeOK /\ Ordered => Accounted = {u \in Values : InSum(u)})'
  BY AccountedIsInSum, PTL
<1>. QED  BY <1>1

LEMMA AddAccounts ==
    ASSUME IInv, IInv', Add, buf # <<>>
    PROVE  EO!Next
<1>0. TypeOK /\ Ordered /\ (TypeOK /\ Ordered)' /\ pc = "add"
  BY DEF IInv, Add
<1>1. sum' = Append(sum, Head(buf)) /\ pc' = pc
  BY DEF Add
<1>2. sum \in Seq(Values) /\ buf \in Seq(Values) /\ Head(buf) \in Values /\ Head(buf) = buf[1]
  BY <1>0, DataTypes, HeadTailProperties
<1>3. PICK u \in Values : u = Head(buf)
  BY <1>2
<1>4. PICK len \in Nat : len = Len(sum)
  BY <1>2
<1>5. DOMAIN sum = 1 .. len /\ DOMAIN sum' = 1 .. len + 1
      /\ (\A k \in 1 .. len : sum'[k] = sum[k]) /\ sum'[len + 1] = u
  BY <1>1, <1>2, <1>3, <1>4, AppendProperties
<1>6. \A w \in Values : InSum(w)' <=> InSum(w) \/ w = u
  <2>1. \A k \in 1 .. len + 1 : k \in 1 .. len \/ k = len + 1
    BY <1>4
  <2>2. \A k \in 1 .. len : k \in 1 .. len + 1
    BY <1>4
  <2>3. len + 1 \in 1 .. len + 1
    BY <1>4
  <2>. QED  BY <1>5, <2>1, <2>2, <2>3 DEF InSum
<1>7. ~InSum(u)
  <2>. SUFFICES ASSUME NEW k \in 1 .. len, sum[k] = u PROVE FALSE
    BY <1>5 DEF InSum
  <2>1. /\ received \in Seq(Values) /\ Len(received) = len + Len(buf)
        /\ \A m \in 1 .. Len(received) :
              received[m] = IF m <= len THEN sum[m] ELSE buf[m - len]
    BY <1>0, <1>4, DataTypes
  <2>2. PICK more \in Nat : Len(buf) = more + 1
    <3>1. Len(buf) \in Nat /\ Len(buf) # 0
      BY <1>2
    <3>2. Len(buf) - 1 \in Nat
      BY <3>1
    <3>. QED  BY <3>1, <3>2
  <2>3. Len(received) = len + (more + 1) /\ DOMAIN received = 1 .. len + (more + 1)
    BY <2>1, <2>2
  <2>4. received[k] = u
    BY <2>1, <2>3
  <2>5. received[len + 1] = u
    <3>1. len + 1 \in 1 .. len + (more + 1) /\ ~(len + 1 <= len) /\ len + 1 - len = 1
      BY <1>4
    <3>. QED  BY <1>2, <1>3, <2>1, <2>3, <3>1
  <2>6. k \in DOMAIN received /\ len + 1 \in DOMAIN received
    BY <1>4, <2>3
  <2>7. k = len + 1
    BY <1>0, <2>4, <2>5, <2>6, ReceivedOnce
  <2>. QED  BY <1>4, <2>7
<1>8. Accounted = {w \in Values : InSum(w)}
  BY <1>0, AccountedIsInSum
<1>9. Accounted' = {w \in Values : InSum(w)'}
  BY <1>0, AccountedIsInSumNext
<1>10. u \notin Accounted /\ Accounted' = Accounted \cup {u}
  BY <1>6, <1>7, <1>8, <1>9
<1>11. EO!Account(u)
  BY <1>0, <1>1, <1>10 DEF EO!Account, Accounted
<1>. QED  BY <1>11 DEF EO!Next

LEMMA ReportAccounts ==
    ASSUME IInv, Report
    PROVE  EO!Next
<1>0. TypeOK /\ Ordered /\ Sending /\ Complete /\ Positions
  BY DEF IInv
<1>1. pc = "end" /\ pc' = "reported" /\ sum' = sum /\ open = {} /\ buf = <<>>
  BY <1>0 DEF Report, Positions
<1>2. received = sum
  BY <1>0, <1>1, ConcatEmptySeq DEF received, TypeOK
<1>3. ASSUME NEW u \in Values PROVE InSum(u)
  <2>1. PICK b \in Branches, x \in 1 .. Half : u = <<b, x>>
    BY ValuesArePairs
  <2>2. Taken(b) = Half
    BY <1>0, <1>1, Constants DEF Sending, Positions, Taken
  <2>. QED  BY <1>0, <1>2, <2>1, <2>2, Constants DEF Complete, InSum
<1>4. Accounted = Values
  BY <1>0, <1>3, AccountedIsInSum
<1>5. Accounted' = Accounted
  BY <1>1 DEF Accounted
<1>. QED  BY <1>1, <1>4, <1>5 DEF EO!Next, EO!Report, Accounted

(* Every value enters the checksum once, and the report comes after all.   *)
THEOREM Refinement == Spec => ImplementsExactlyOnce
<1>1. Init => EO!Init
  <2>. SUFFICES ASSUME Init PROVE EO!Init
    OBVIOUS
  <2>1. sum = <<>> /\ pc # "reported" /\ TypeOK /\ Ordered
    BY InitIInv DEF Init, IInv
  <2>2. Accounted = {}
    BY <2>1, AccountedIsInSum DEF InSum
  <2>. QED  BY <2>1, <2>2 DEF EO!Init, Accounted
<1>2. IInv /\ IInv' /\ [Next]_vars => [EO!Next]_(EO!vars)
  <2>. SUFFICES ASSUME IInv, IInv', [Next]_vars PROVE EO!Next \/ UNCHANGED EO!vars
    OBVIOUS
  <2>1. ASSUME sum' = sum, pc' = "reported" <=> pc = "reported" PROVE UNCHANGED EO!vars
    BY <2>1 DEF EO!vars
  <2>2. ASSUME NEW b \in Branches, Producer(b) \/ Ready(b) \/ Closed(b) \/ NotReady(b)
        PROVE  UNCHANGED EO!vars
    BY <2>1, <2>2 DEF Producer, Send, ProducerEnd, Ready, Closed, NotReady, Polls, Loop
  <2>3. CASE Wake \/ Exited \/ UNCHANGED vars
    BY <2>1, <2>3 DEF Wake, Exited, vars
  <2>4. CASE Add
    <3>1. CASE buf = <<>>
      BY <2>1, <2>4, <3>1 DEF Add, Loop
    <3>. QED  BY <2>4, <3>1, AddAccounts
  <2>5. CASE Report
    BY <2>5, ReportAccounts
  <2>. QED  BY <2>2, <2>3, <2>4, <2>5 DEF Next, Consumer
<1>. QED  BY <1>1, <1>2, Inductive, PTL DEF Spec, EO!Spec, ImplementsExactlyOnce
=============================================================================
