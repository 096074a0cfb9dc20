----------------------------- MODULE SelectDrain -----------------------------
(***************************************************************************)
(* The select workload of every program: two producers, each with a        *)
(* channel of its own, and a consumer that takes whatever is ready until   *)
(* both channels have ended.                                               *)
(*                                                                         *)
(* A select polls the branches of the channels that are still open, in any *)
(* order or, "biased", the first one first.  The first branch that is      *)
(* ready wins and the other receive is dropped; if none is ready all of    *)
(* them wait.  Channels change between two polls.  A branch takes one      *)
(* value, or up to Batch of them (recv_many).  When its channel has ended  *)
(* it is disabled: by a flag in the tokio programs, by never() in          *)
(* crossbeam's and by nil in Go's.                                         *)
(*                                                                         *)
(* A producer's sender is moved to it and goes when it returns (Go's       *)
(* producer closes the channel), and the consumer owns both receivers, so  *)
(* a task that is not spawned yet is one that has not been scheduled.      *)
(***************************************************************************)
EXTENDS Integers, Sequences, FiniteSets

CONSTANTS Half,       \* values on each channel (size / 2)
          Batch,      \* BATCH
          Capacities  \* of the channels

ASSUME SelectAssumption ==
    /\ Half \in Nat
    /\ Batch \in Nat \ {0}
    /\ Capacities \subseteq Nat \ {0}

Branches == {1, 2}
Values   == Branches \X (1 .. Half)

VARIABLES
    biased, batch, capacity,    \* for the whole run
    next,      \* the next value each producer sends
    ended,     \* the channels whose producer has returned
    chan,      \* what is in each channel
    pc,        \* where the consumer is
    open,      \* the branches that are not disabled
    polled,    \* the branches this select has found not ready
    buf,       \* what the branch that won has taken
    sum        \* the values that have been added up, in order

setup  == <<biased, batch, capacity>>
queues == <<next, ended, chan>>
vars   == <<setup, queues, pc, open, polled, buf, sum>>

TypeOK ==
    /\ biased \in BOOLEAN /\ batch \in {1, Batch} /\ capacity \in Capacities
    /\ next \in [Branches -> 1 .. Half + 1]
    /\ ended \subseteq Branches
    /\ chan \in [Branches -> Seq(Values)]
    /\ \A b \in Branches : Len(chan[b]) <= capacity
    /\ pc \in {"select", "add", "end", "reported"}
    /\ polled \subseteq open /\ open \subseteq Branches
    /\ buf \in Seq(Values) /\ Len(buf) <= batch
    /\ sum \in Seq(Values)

Init ==
    /\ biased \in BOOLEAN
    /\ batch \in {1, Batch}
    /\ capacity \in Capacities
    /\ next = [b \in Branches |-> 1]
    /\ ended = {}
    /\ chan = [b \in Branches |-> <<>>]
    /\ pc = "select"
    /\ open = Branches
    /\ polled = {}
    /\ buf = <<>>
    /\ sum = <<>>

-----------------------------------------------------------------------------
(* A select comes to branch b.                                             *)
Polls(b) ==
    /\ pc = "select"
    /\ b \in open \ polled
    /\ biased => \A d \in open \ polled : b <= d

\* `while open1 || open2`
Loop(branches) == IF branches = {} THEN "end" ELSE "select"

(* Mistakes.  Each of these is an operation below with one thing wrong,    *)
(* and breaks the property it is named with; none is part of Spec.         *)

\* DrainedInOrder: a receive that is dropped after it was polled takes the
\* value it was about to get with it ("kanal's receive future loses messages
\* if it is dropped after being polled", tokio-tuned-bench/src/lib.rs:271).
ReadyDroppingOthers(b) ==
    /\ Polls(b)
    /\ chan[b] # <<>>
    /\ buf' = <<Head(chan[b])>>
    /\ chan' = [d \in Branches |->
                   IF (d = b \/ d \in polled) /\ chan[d] # <<>> THEN Tail(chan[d]) ELSE chan[d]]
    /\ pc' = "add"
    /\ polled' = {}
    /\ UNCHANGED <<setup, next, ended, open, sum>>

\* Terminates: a branch whose channel has ended stays enabled.
ClosedIgnored(b) ==
    /\ Polls(b)
    /\ chan[b] = <<>>
    /\ b \in ended
    /\ UNCHANGED vars

\* ImplementsExactlyOnce: a channel has ended when its producer has returned,
\* whatever is still in it.
ClosedWithValues(b) ==
    /\ Polls(b)
    /\ b \in ended
    /\ open' = open \ {b}
    /\ polled' = {}
    /\ pc' = Loop(open')
    /\ UNCHANGED <<setup, queues, buf, sum>>

-----------------------------------------------------------------------------
\* produce
Send(b) ==
    /\ next[b] <= Half
    /\ Len(chan[b]) < capacity
    /\ chan' = [chan EXCEPT ![b] = Append(@, <<b, next[b]>>)]
    /\ next' = [next EXCEPT ![b] = @ + 1]
    /\ UNCHANGED <<setup, ended, pc, open, polled, buf, sum>>

ProducerEnd(b) ==
    /\ next[b] > Half
    /\ b \notin ended
    /\ ended' = ended \cup {b}
    /\ UNCHANGED <<setup, next, chan, pc, open, polled, buf, sum>>

\* A branch that is ready wins, with one value or with several.
Ready(b) ==
    /\ Polls(b)
    /\ \E k \in 1 .. batch :
          /\ k <= Len(chan[b])
          /\ buf' = SubSeq(chan[b], 1, k)
          /\ chan' = [chan EXCEPT ![b] = SubSeq(@, k + 1, Len(@))]
    /\ pc' = "add"
    /\ polled' = {}
    /\ UNCHANGED <<setup, next, ended, open, sum>>

\* So does one whose channel has ended.
Closed(b) ==
    /\ Polls(b)
    /\ chan[b] = <<>>
    /\ b \in ended
    /\ open' = open \ {b}
    /\ polled' = {}
    /\ pc' = Loop(open')
    /\ UNCHANGED <<setup, queues, buf, sum>>

NotReady(b) ==
    /\ Polls(b)
    /\ chan[b] = <<>>
    /\ b \notin ended
    /\ polled' = polled \cup {b}
    /\ UNCHANGED <<setup, queues, pc, open, buf, sum>>

\* All branches wait, and something happens to one of them.
Wake ==
    /\ pc = "select"
    /\ polled = open
    /\ \E b \in open : chan[b] # <<>> \/ b \in ended
    /\ polled' = {}
    /\ UNCHANGED <<setup, queues, pc, open, buf, sum>>

\* take, drain: what was received is added up, value by value.
Add ==
    /\ pc = "add"
    /\ IF buf = <<>>
       THEN pc' = Loop(open) /\ UNCHANGED <<buf, sum>>
       ELSE sum' = Append(sum, Head(buf)) /\ buf' = Tail(buf) /\ UNCHANGED pc
    /\ UNCHANGED <<setup, queues, open, polled>>

\* The producers and the consumer have been joined.
Report ==
    /\ ended = Branches
    /\ pc = "end"
    /\ pc' = "reported"
    /\ UNCHANGED <<setup, queues, open, polled, buf, sum>>

Exited == pc = "reported" /\ UNCHANGED vars

Producer(b) == Send(b) \/ ProducerEnd(b)

Consumer ==
    \/ \E b \in Branches : Ready(b) \/ Closed(b) \/ NotReady(b)
    \/ Wake
    \/ Add

Next ==
    \/ \E b \in Branches : Producer(b)
    \/ Consumer
    \/ Report
    \/ Exited

Spec == Init /\ [][Next]_vars

(* Every task that can go on does in the end.  Nothing is assumed of the   *)
(* order of the branches.                                                  *)
FairSpec ==
    /\ Spec
    /\ \A b \in Branches : WF_vars(Producer(b))
    /\ WF_vars(Consumer)
    /\ WF_vars(Report)

-----------------------------------------------------------------------------
\* What the consumer has received, in this order, and how much of it is from
\* channel b if none is lost.
received == sum \o buf
Taken(b) == next[b] - 1 - Len(chan[b])

(* Whatever branch wins and whatever the others were doing, each channel   *)
(* is received in order and without a gap: what has been received and what *)
(* is still in the channel make up what was sent; a branch is disabled     *)
(* only when that is all there is to come.                                 *)
DrainedInOrder ==
    /\ TypeOK
    /\ \A j, k \in DOMAIN received :
          j < k /\ received[j][1] = received[k][1] => received[j][2] < received[k][2]
    /\ \A b \in Branches :
          /\ \A x \in 1 .. Half : (\E k \in DOMAIN received : received[k] = <<b, x>>) <=> x <= Taken(b)
          /\ \A k \in DOMAIN chan[b] : chan[b][k] = <<b, Taken(b) + k>>
          /\ b \notin open => Taken(b) = Half

(* The select never starves or deadlocks: with one channel ended or idle   *)
(* the other is still served, and the loop ends when both have ended.      *)
Terminates == <>(pc = "reported")

EO == INSTANCE ExactlyOnce WITH
        units <- Values,
        accounted <- {v \in Values : Cardinality({i \in DOMAIN sum : sum[i] = v}) = 1},
        reported <- pc = "reported"

(* Each value enters the checksum once, before the report.                 *)
ImplementsExactlyOnce == EO!Spec
=============================================================================
