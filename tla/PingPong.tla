------------------------------ MODULE PingPong ------------------------------
(***************************************************************************)
(* The pingpong workload of every program: ping sends token + 1 on a       *)
(* channel of one slot and waits for the reply on another; pong replies    *)
(* with one more to everything it receives until ping hangs up.  Every     *)
(* `every`-th round trip is timed.                                         *)
(*                                                                         *)
(* With `owned` (tokio's programs) each side owns its two handles and      *)
(* drops them when it returns; otherwise (crossbeam) ping owns its sender  *)
(* and borrows the rest.  Go's ping closes its channel instead.            *)
(*                                                                         *)
(* The code's n, i and v are trips, trip and last.  No name here is one of *)
(* ForkJoin's, so that one module can extend both.                         *)
(***************************************************************************)
EXTENDS Integers, Sequences, FiniteSets, FiniteSetsExt

CONSTANTS MaxRounds,  \* bound of --size
          MaxEvery    \* bound of --sample-every, which is at least 1

ASSUME PingPongAssumption == MaxRounds \in Nat /\ MaxEvery \in Nat \ {0}

VARIABLES
    trips, every, owned, \* for the whole run
    ping, pong,         \* where each side is
    trip,               \* ping's round
    token,              \* ping's token
    last,               \* what pong has received last
    toB, toA,           \* the two channels
    sender,             \* whether ping still has its sender
    receiver,           \* whether somebody can receive on toA
    samples             \* the rounds that were timed

parameters   == <<trips, every, owned>>
channels     == <<toB, toA, sender, receiver>>
pingPongVars == <<parameters, ping, pong, trip, token, last, channels, samples>>

PingPongTypeOK ==
    /\ ping \in {"send", "recv", "end"}
    /\ pong \in {"recv", "send", "end"}
    /\ trip \in 0 .. trips
    /\ Len(toB) <= 1 /\ Len(toA) <= 1
    /\ sender \in BOOLEAN /\ receiver \in BOOLEAN

PingPongInit ==
    /\ trips \in 0 .. MaxRounds
    /\ every \in 1 .. MaxEvery
    /\ owned \in BOOLEAN
    /\ ping = "send" /\ pong = "recv"
    /\ trip = 0 /\ token = 0 /\ last = 0
    /\ toB = <<>> /\ toA = <<>>
    /\ sender = TRUE /\ receiver = TRUE
    /\ samples = {}

-----------------------------------------------------------------------------
\* Mistakes: OneToken, a ping that does not wait; HangUpIsHeard, a pong that
\* goes on when ping has hung up.
SendAhead ==
    /\ ping = "send" /\ trip < trips
    /\ toB = <<>>
    /\ toB' = <<token + 1>>
    /\ trip' = trip + 1
    /\ UNCHANGED <<parameters, ping, pong, token, last, toA, sender, receiver, samples>>

IgnoreHangUp ==
    /\ pong = "recv" /\ toB = <<>> /\ ~sender
    /\ UNCHANGED pingPongVars

\* ping
PingSend ==
    /\ ping = "send" /\ trip < trips
    /\ toB = <<>>
    /\ toB' = <<token + 1>>
    /\ ping' = "recv"
    /\ UNCHANGED <<parameters, pong, trip, token, last, toA, sender, receiver, samples>>

PingRecv ==
    /\ ping = "recv"
    /\ toA # <<>>
    /\ token' = Head(toA)
    /\ toA' = Tail(toA)
    /\ samples' = IF trip % every = 0 THEN samples \cup {trip} ELSE samples
    /\ trip' = trip + 1
    /\ ping' = "send"
    /\ UNCHANGED <<parameters, pong, last, toB, sender, receiver>>

HangUp ==
    /\ ping = "send" /\ trip = trips
    /\ ping' = "end"
    /\ sender' = FALSE
    /\ receiver' = ~owned
    /\ UNCHANGED <<parameters, pong, trip, token, last, toB, toA, samples>>

\* pong
PongRecv ==
    /\ pong = "recv"
    /\ toB # <<>>
    /\ last' = Head(toB)
    /\ toB' = Tail(toB)
    /\ pong' = "send"
    /\ UNCHANGED <<parameters, ping, trip, token, toA, sender, receiver, samples>>

\* A send on a channel without a receiver makes pong leave.
PongSend ==
    /\ pong = "send"
    /\ toA = <<>>
    /\ IF receiver
       THEN toA' = <<last + 1>> /\ pong' = "recv"
       ELSE pong' = "end" /\ UNCHANGED toA
    /\ UNCHANGED <<parameters, ping, trip, token, last, toB, sender, receiver, samples>>

PongEnd ==
    /\ pong = "recv"
    /\ toB = <<>> /\ ~sender
    /\ pong' = "end"
    /\ UNCHANGED <<parameters, ping, trip, token, last, channels, samples>>

Joined == ping = "end" /\ pong = "end"

BothExited == Joined /\ UNCHANGED pingPongVars

\* Of `len` sorted samples, the one (from 0) reported for num / den.
percentile(len, num, den) == Min({(len * num) \div den, len - 1})

\* p50, p99 and p99.9, in thousandths, with the ranks (from 1) of the samples
\* reported, if any.
with_latencies ==
    LET len == Cardinality(samples)
    IN  {<<p, percentile(len, p, 1000) + 1>> : p \in IF len = 0 THEN {} ELSE {500, 990, 999}}

Ping == PingSend \/ PingRecv \/ HangUp
Pong == PongRecv \/ PongSend \/ PongEnd
PingPongNext == Ping \/ Pong \/ BothExited
PingPongSpec == PingPongInit /\ [][PingPongNext]_pingPongVars

(* Both sides are scheduled in the end.                                    *)
PingPongFairSpec == PingPongSpec /\ WF_pingPongVars(Ping) /\ WF_pingPongVars(Pong)

-----------------------------------------------------------------------------
\* How often the token has been passed on since the beginning.
Hops ==
    CASE ping # "recv"                -> 2 * trip
      [] ping = "recv" /\ toB # <<>>  -> 2 * trip + 1
      [] ping = "recv" /\ pong = "send" -> 2 * trip + 1
      [] ping = "recv" /\ toA # <<>>  -> 2 * trip + 2

InFlight == toB \o toA \o (IF pong = "send" THEN <<last>> ELSE <<>>)

(* There is one token: ping has it, or it is in one channel, or pong has   *)
(* it, and it counts its hops.  So no send ever blocks, pong's never finds *)
(* its receiver gone, and it is twice `trips` in the end.  Exactly the     *)
(* rounds that are multiples of `every` are timed; the room for            *)
(* trips / every + 1 samples, made before the clock starts, is enough.     *)
OneToken ==
    /\ PingPongTypeOK
    /\ IF ping = "recv"
       THEN Len(InFlight) = 1 /\ InFlight[1] = Hops
       ELSE InFlight = <<>> /\ token = Hops
    /\ pong = "send" => receiver /\ toA = <<>>
    /\ samples = {k \in 0 .. trip - 1 : k % every = 0}
    /\ Cardinality(samples) <= trips \div every + 1

\* The nearest rank: the first sample with that share of them at or below it.
nearest_rank(len, num, den) == Min({k \in 1 .. len : den * k >= len * num})

(* What is reported for a percentile is what both harnesses say of it      *)
(* (common/src/lib.rs:212, harness.go:136, "Nearest-rank percentile").     *)
(* It is not: of an even number of samples p50 is one rank above it.       *)
PercentilesAreNearest ==
    Joined => \A r \in with_latencies : r[2] = nearest_rank(Cardinality(samples), r[1], 1000)

(* Both sides come to an end: pong, which does not know how many rounds    *)
(* there are, learns from the hang-up that there will be no more.          *)
HangUpIsHeard == <>Joined
=============================================================================
