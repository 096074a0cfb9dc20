--------------------------- MODULE StealPoolProofs ---------------------------
(***************************************************************************)
(* Proofs about StealPool, for any number of workers and any finite set of *)
(* chunks.                                                                 *)
(***************************************************************************)
EXTENDS StealPool, FiniteSetTheorems, TLAPS

\* A worker holds a chunk exactly while it hashes and counts it, and a batch
\* is on the move only during steal_batch_and_pop.
HandOK ==
    \A w \in Workers :
        /\ pc[w] \in {"hash", "count"} => \E c \in Chunks : hand[w] = {c}
        /\ pc[w] \notin {"hash", "count"} => hand[w] = {}
        /\ pc[w] # "batch" => moving[w] = {}

\* Workers stop on a zero count, and are joined after they stopped.
Stopped ==
    /\ \A w \in Workers : pc[w] = "done" => remaining = 0
    /\ \A w \in Workers : w < joined => pc[w] = "done"
    /\ reported => joined = Threads + 1

\* The main thread's sum is that of the workers joined so far.
TotalIsJoined ==
    \A c \in Chunks :
        /\ (\A w \in Workers : w < joined => sum[w][c] = 0) => total[c] = 0
        /\ \A w \in Workers : w < joined /\ sum[w][c] = 1 => total[c] = 1

\* Nobody is past the barrier, and nothing was taken, before the clock runs.
ClockRuns ==
    (injector # Chunks \/ \E w \in Workers : pc[w] \notin {"spawned", "barrier"})
        => started /\ AllArrived

IInv ==
    /\ TypeOK
    /\ HandOK
    /\ HeldOnce
    /\ RemainingCounts
    /\ HashedOnce
    /\ Stopped
    /\ TotalIsJoined
    /\ ClockRuns

-----------------------------------------------------------------------------

USE ThreadsAssumption, ChunksAssumption

\* What is not counted is a finite set of chunks.
LEMMA UncountedFinite ==
    ASSUME TypeOK
    PROVE  /\ Uncounted \subseteq Chunks
           /\ IsFiniteSet(Uncounted)
           /\ Cardinality(Uncounted) \in Nat
<1>1. Uncounted \subseteq Chunks
  BY DEF Uncounted, Held, TypeOK
<1>2. IsFiniteSet(Uncounted)
  BY <1>1, FS_Subset
<1>. QED  BY <1>1, <1>2, FS_CardinalityType

LEMMA InitIInv == Init => IInv
<1>. SUFFICES ASSUME Init PROVE IInv
  OBVIOUS
<1>1. TypeOK
  <2>1. Cardinality(Chunks) \in Nat
    BY FS_CardinalityType
  <2>2. Nothing \in [Chunks -> Nat]
    BY DEF Nothing
  <2>3. pc \in [Workers -> PCs] /\ injector \in SUBSET Chunks
    BY DEF Init, PCs
  <2>4. /\ local \in [Workers -> SUBSET Chunks]
        /\ moving \in [Workers -> SUBSET Chunks]
        /\ hand \in [Workers -> SUBSET Chunks]
    BY DEF Init
  <2>5. /\ victim \in [Workers -> 1 .. Threads + 1]
        /\ joined \in 1 .. Threads + 1
    BY DEF Init
  <2>6. sum \in [Workers -> [Chunks -> Nat]] /\ total \in [Chunks -> Nat]
    BY <2>2 DEF Init
  <2>7. retry \in [Workers -> BOOLEAN] /\ started \in BOOLEAN /\ reported \in BOOLEAN
    BY DEF Init
  <2>8. remaining \in Nat
    BY <2>1 DEF Init
  <2>. QED  BY <2>3, <2>4, <2>5, <2>6, <2>7, <2>8 DEF TypeOK
<1>2. HandOK
  BY DEF Init, HandOK
<1>3. HeldOnce
  BY DEF Init, HeldOnce, Held
<1>4. RemainingCounts
  <2>1. Uncounted = Chunks
    BY DEF Init, Uncounted, Held
  <2>. QED  BY <2>1 DEF Init, RemainingCounts
<1>5. HashedOnce
  BY DEF Init, HashedOnce, Pending, Nothing
<1>6. Stopped
  BY DEF Init, Stopped, Workers
<1>7. TotalIsJoined
  BY DEF Init, TotalIsJoined, Nothing
<1>8. ClockRuns
  BY DEF Init, ClockRuns
<1>. QED  BY <1>1, <1>2, <1>3, <1>4, <1>5, <1>6, <1>7, <1>8 DEF IInv

-----------------------------------------------------------------------------
(* The steps that leave the queues, the hands, the count and the sums      *)
(* alone only move a worker from one place of its search to another.       *)

Quiet == UNCHANGED <<queues, hand, remaining, sum>>

\* A step of the search, or of the main thread, that moves no chunk.
SearchStep(w) ==
    \/ Arrive(w) \/ Go(w) \/ LocalEmpty(w)
    \/ InjectorEmpty(w) \/ InjectorRetry(w)
    \/ VictimEmpty(w) \/ VictimRetry(w)
    \/ SweepAgain(w) \/ FoundNothing(w)
    \/ Quit(w) \/ Snooze(w)

\* Every step is one of these.
LEMMA NextCases ==
    ASSUME [Next]_vars
    PROVE  \/ \E w \in Workers :
                 \/ SearchStep(w)
                 \/ PopLocal(w) \/ TakeBatch(w) \/ FinishBatch(w) \/ Steal(w)
                 \/ Hash(w) \/ Count(w)
           \/ Join
           \/ Report
           \/ UNCHANGED vars
BY DEF Next, Worker, SearchStep, Exited

LEMMA SearchStepQuiet ==
    ASSUME NEW w \in Workers, SearchStep(w)
    PROVE  /\ Quiet
           /\ UNCHANGED main
BY DEF SearchStep, Quiet, Arrive, Go, LocalEmpty, InjectorEmpty, InjectorRetry,
       VictimEmpty, VictimRetry, NextVictim, Sweep, SweepAgain, FoundNothing,
       Quit, Snooze

\* A chunk that is counted leaves Uncounted, and nothing else does.
LEMMA CountOne ==
    ASSUME IInv, NEW w \in Workers, Count(w)
    PROVE  /\ remaining' \in Nat
           /\ RemainingCounts'
<1>1. PICK c \in Chunks : hand[w] = {c}
  BY DEF IInv, HandOK, Count, Goto
<1>2. /\ c \in Uncounted
      /\ Uncounted' = Uncounted \ {c}
  <2>1. hand' = [hand EXCEPT ![w] = {}] /\ UNCHANGED queues
    BY DEF Count
  <2>2. \A v \in Workers : Held(v)' = IF v = w THEN Held(v) \ {c} ELSE Held(v)
    BY <1>1, <2>1 DEF IInv, TypeOK, HeldOnce, Held, queues
  <2>3. c \in Held(w)
    BY <1>1 DEF Held
  <2>4. c \notin injector /\ \A v \in Workers \ {w} : c \notin Held(v)
    BY <2>3 DEF IInv, HeldOnce
  <2>5. injector' = injector
    BY <2>1 DEF queues
  <2>. QED  BY <2>2, <2>3, <2>4, <2>5 DEF Uncounted
<1>3. IsFiniteSet(Uncounted) /\ Cardinality(Uncounted) \in Nat
  BY UncountedFinite DEF IInv
<1>4. IsFiniteSet(Uncounted') /\ Cardinality(Uncounted') = Cardinality(Uncounted) - 1
  BY <1>2, <1>3, FS_RemoveElement
<1>5. Cardinality(Uncounted') \in Nat
  BY <1>4, FS_CardinalityType
<1>6. remaining = Cardinality(Uncounted) /\ remaining' = remaining - 1
  BY DEF IInv, RemainingCounts, Count
<1>. QED  BY <1>4, <1>5, <1>6 DEF RemainingCounts

LEMMA NextTypeOK == IInv /\ [Next]_vars => TypeOK'
<1>. SUFFICES ASSUME IInv, [Next]_vars PROVE TypeOK'
  OBVIOUS
<1>. USE DEF IInv, TypeOK
<1>1. ASSUME NEW w \in Workers, SearchStep(w) PROVE TypeOK'
  <2>1. UNCHANGED <<queues, hand, remaining, sum, main>>
    BY <1>1, SearchStepQuiet DEF Quiet
  <2>2. pc' \in [Workers -> PCs]
    BY <1>1 DEF SearchStep, Arrive, Go, LocalEmpty, InjectorEmpty, InjectorRetry,
       VictimEmpty, VictimRetry, NextVictim, Sweep, SweepAgain, FoundNothing,
       Quit, Snooze, Goto, PCs
  <2>3. started' \in BOOLEAN
    BY <1>1 DEF SearchStep, Arrive, Go, LocalEmpty, InjectorEmpty, InjectorRetry,
       VictimEmpty, VictimRetry, NextVictim, Sweep, SweepAgain, FoundNothing,
       Quit, Snooze
  <2>4. victim' \in [Workers -> 1 .. Threads + 1] /\ retry' \in [Workers -> BOOLEAN]
    <3>1. \/ \E r \in BOOLEAN : Sweep(w, r)
          \/ \E r \in BOOLEAN : NextVictim(w, r)
          \/ UNCHANGED search
      BY <1>1 DEF SearchStep, Arrive, Go, LocalEmpty, InjectorEmpty, InjectorRetry,
         VictimEmpty, VictimRetry, SweepAgain, FoundNothing, Quit, Snooze
    <3>2. CASE \E r \in BOOLEAN : Sweep(w, r)
      BY <3>2 DEF Sweep
    <3>3. CASE \E r \in BOOLEAN : NextVictim(w, r)
      BY <3>3 DEF NextVictim, Workers
    <3>4. CASE UNCHANGED search
      BY <3>4 DEF search
    <3>. QED  BY <3>1, <3>2, <3>3, <3>4
  <2>. QED  BY <2>1, <2>2, <2>3, <2>4 DEF queues, main
<1>2. ASSUME NEW w \in Workers, PopLocal(w) PROVE TypeOK'
  BY <1>2 DEF PopLocal, Goto, PCs, search, main
<1>3. ASSUME NEW w \in Workers, TakeBatch(w) PROVE TypeOK'
  BY <1>3 DEF TakeBatch, Goto, PCs, search, main
<1>4. ASSUME NEW w \in Workers, FinishBatch(w) PROVE TypeOK'
  BY <1>4 DEF FinishBatch, Goto, PCs, search, main
<1>5. ASSUME NEW w \in Workers, Steal(w) PROVE TypeOK'
  BY <1>5 DEF Steal, Goto, PCs, search, main
<1>6. ASSUME NEW w \in Workers, Hash(w) PROVE TypeOK'
  BY <1>6 DEF Hash, Goto, PCs, queues, search, main
<1>7. ASSUME NEW w \in Workers, Count(w) PROVE TypeOK'
  <2>1. remaining' \in Nat
    BY <1>7, CountOne
  <2>. QED  BY <1>7, <2>1 DEF Count, Goto, PCs, queues, search, main
<1>8. ASSUME Join PROVE TypeOK'
  BY <1>8 DEF Join, queues, search, Workers
<1>9. ASSUME Report PROVE TypeOK'
  BY <1>9 DEF Report, queues, search
<1>10. ASSUME UNCHANGED vars PROVE TypeOK'
  BY <1>10 DEF vars, queues, search, main
<1>. QED
  BY <1>1, <1>2, <1>3, <1>4, <1>5, <1>6, <1>7, <1>8, <1>9, <1>10, NextCases

LEMMA NextHandOK == IInv /\ [Next]_vars => HandOK'
<1>. SUFFICES ASSUME IInv, [Next]_vars PROVE HandOK'
  OBVIOUS
<1>. USE DEF IInv, TypeOK, HandOK
<1>1. ASSUME NEW w \in Workers, SearchStep(w) PROVE HandOK'
  <2>1. hand' = hand /\ moving' = moving
    BY <1>1, SearchStepQuiet DEF Quiet, queues
  <2>2. /\ pc[w] \notin {"hash", "count", "batch"}
        /\ pc'[w] \notin {"hash", "count", "batch"}
        /\ \A v \in Workers \ {w} : pc'[v] = pc[v]
    BY <1>1 DEF SearchStep, Arrive, Go, LocalEmpty, InjectorEmpty, InjectorRetry,
       VictimEmpty, VictimRetry, NextVictim, Sweep, SweepAgain, FoundNothing,
       Quit, Snooze, Goto
  <2>. QED  BY <2>1, <2>2
<1>2. ASSUME NEW w \in Workers, PopLocal(w) PROVE HandOK'
  BY <1>2 DEF PopLocal, Goto
<1>3. ASSUME NEW w \in Workers, TakeBatch(w) PROVE HandOK'
  BY <1>3 DEF TakeBatch, Goto
<1>4. ASSUME NEW w \in Workers, FinishBatch(w) PROVE HandOK'
  BY <1>4 DEF FinishBatch, Goto
<1>5. ASSUME NEW w \in Workers, Steal(w) PROVE HandOK'
  BY <1>5 DEF Steal, Goto
<1>6. ASSUME NEW w \in Workers, Hash(w) PROVE HandOK'
  BY <1>6 DEF Hash, Goto, queues
<1>7. ASSUME NEW w \in Workers, Count(w) PROVE HandOK'
  BY <1>7 DEF Count, Goto, queues
<1>8. ASSUME Join PROVE HandOK'
  BY <1>8 DEF Join, queues
<1>9. ASSUME Report PROVE HandOK'
  BY <1>9 DEF Report, queues
<1>10. ASSUME UNCHANGED vars PROVE HandOK'
  BY <1>10 DEF vars, queues
<1>. QED
  BY <1>1, <1>2, <1>3, <1>4, <1>5, <1>6, <1>7, <1>8, <1>9, <1>10, NextCases

-----------------------------------------------------------------------------
(* A chunk changes hands in five ways; each takes it from one place and    *)
(* puts it in one other.                                                   *)

\* Passing chunks on, from a place where they are to another, keeps them in
\* one place each and leaves Uncounted as it is.
LEMMA PopLocalHeld ==
    ASSUME IInv, NEW w \in Workers, PopLocal(w)
    PROVE  HeldOnce' /\ Uncounted' = Uncounted
<1>. USE DEF IInv, TypeOK
<1>1. PICK c \in local[w] : /\ local' = [local EXCEPT ![w] = @ \ {c}]
                            /\ hand' = [hand EXCEPT ![w] = {c}]
  BY DEF PopLocal
<1>2. UNCHANGED <<injector, moving>> /\ hand[w] = {}
  BY DEF PopLocal, HandOK, Goto
<1>3. \A v \in Workers : Held(v)' = Held(v)
  BY <1>1, <1>2 DEF Held
<1>4. HeldOnce'
  BY <1>1, <1>2, <1>3 DEF HeldOnce, Held
<1>5. Uncounted' = Uncounted
  BY <1>2, <1>3 DEF Uncounted
<1>. QED  BY <1>4, <1>5

LEMMA TakeBatchHeld ==
    ASSUME IInv, NEW w \in Workers, TakeBatch(w)
    PROVE  HeldOnce' /\ Uncounted' = Uncounted
<1>1. PICK batch \in SUBSET injector :
         /\ injector' = injector \ batch
         /\ moving' = [moving EXCEPT ![w] = batch]
  BY DEF TakeBatch
<1>2. UNCHANGED <<local, hand>> /\ moving[w] = {}
  BY DEF TakeBatch, HandOK, Goto, IInv
<1>3. \A v \in Workers : Held(v)' = IF v = w THEN Held(v) \cup batch ELSE Held(v)
  BY <1>1, <1>2 DEF Held, IInv, TypeOK
<1>4. \A v \in Workers : batch \cap Held(v) = {}
  BY DEF HeldOnce, IInv
<1>5. HeldOnce'
  BY <1>1, <1>2, <1>3, <1>4 DEF HeldOnce, Held, IInv, TypeOK
<1>6. Uncounted' = Uncounted
  <2>1. batch \subseteq injector /\ batch \subseteq Held(w)'
    BY <1>3
  <2>2. ASSUME NEW x
        PROVE  (\E v \in Workers : x \in Held(v)')
                  <=> x \in batch \/ \E v \in Workers : x \in Held(v)
    BY <1>3, <2>1
  <2>3. ASSUME NEW x PROVE x \in Uncounted' <=> x \in Uncounted
    <3>1. x \in injector' \/ x \in batch <=> x \in injector
      BY <1>1, <2>1
    <3>2. x \in Uncounted' <=> x \in injector' \/ \E v \in Workers : x \in Held(v)'
      BY DEF Uncounted
    <3>3. x \in Uncounted <=> x \in injector \/ \E v \in Workers : x \in Held(v)
      BY DEF Uncounted
    <3>. QED  BY <2>2, <3>1, <3>2, <3>3
  <2>. QED  BY <2>3
<1>. QED  BY <1>5, <1>6

LEMMA FinishBatchHeld ==
    ASSUME IInv, NEW w \in Workers, FinishBatch(w)
    PROVE  HeldOnce' /\ Uncounted' = Uncounted
<1>. USE DEF IInv, TypeOK
<1>1. PICK c \in moving[w] :
         /\ hand' = [hand EXCEPT ![w] = {c}]
         /\ local' = [local EXCEPT ![w] = @ \cup (moving[w] \ {c})]
         /\ moving' = [moving EXCEPT ![w] = {}]
  BY DEF FinishBatch
<1>2. injector' = injector /\ hand[w] = {}
  BY DEF FinishBatch, HandOK, Goto
<1>3. \A v \in Workers : Held(v)' = Held(v)
  BY <1>1, <1>2 DEF Held
<1>4. HeldOnce'
  BY <1>1, <1>2, <1>3 DEF HeldOnce, Held
<1>5. Uncounted' = Uncounted
  BY <1>2, <1>3 DEF Uncounted
<1>. QED  BY <1>4, <1>5

LEMMA StealHeld ==
    ASSUME IInv, NEW w \in Workers, Steal(w)
    PROVE  HeldOnce' /\ Uncounted' = Uncounted
<1>0. PICK u \in Workers : u = victim[w]
  BY DEF Steal
<1>1. PICK c \in local[u] : /\ local' = [local EXCEPT ![u] = @ \ {c}]
                            /\ hand' = [hand EXCEPT ![w] = {c}]
  BY <1>0 DEF Steal
<1>2. injector' = injector /\ moving' = moving /\ hand[w] = {}
  BY DEF Steal, HandOK, Goto, IInv
<1>3. \A v, x \in Workers : v # x => Held(v) \cap Held(x) = {}
  BY DEF IInv, HeldOnce
<1>4. \A v \in Workers : injector \cap Held(v) = {}
  BY DEF IInv, HeldOnce
<1>5. c \in Held(u) /\ c \notin moving[u] /\ c \notin hand[u]
  BY DEF IInv, HeldOnce, Held
<1>6. c \notin injector /\ \A v \in Workers \ {u} : c \notin Held(v)
  BY <1>3, <1>4, <1>5
<1>7. \A v \in Workers : Held(v)' =
         IF v = w THEN Held(v) \cup {c}
                  ELSE IF v = u THEN Held(v) \ {c} ELSE Held(v)
  BY <1>1, <1>2, <1>5 DEF Held, IInv, TypeOK
<1>8. HeldOnce'
  <2>1. ASSUME NEW v \in Workers PROVE injector \cap Held(v)' = {}
    BY <1>4, <1>6, <1>7
  <2>2. ASSUME NEW v \in Workers, NEW x \in Workers \ {v}
        PROVE  Held(v)' \cap Held(x)' = {}
    <3>1. Held(v) \cap Held(x) = {}
      BY <1>3
    <3>2. CASE v = w
      BY <1>6, <1>7, <3>1, <3>2
    <3>3. CASE x = w
      BY <1>6, <1>7, <3>1, <3>3
    <3>4. CASE v # w /\ x # w
      BY <1>7, <3>1, <3>4
    <3>. QED  BY <3>2, <3>3, <3>4
  <2>3. ASSUME NEW v \in Workers
        PROVE  /\ local'[v] \cap moving'[v] = {}
               /\ local'[v] \cap hand'[v] = {}
               /\ moving'[v] \cap hand'[v] = {}
    <3>1. /\ local[v] \cap moving[v] = {}
          /\ local[v] \cap hand[v] = {}
          /\ moving[v] \cap hand[v] = {}
      BY DEF IInv, HeldOnce
    <3>2. v # u => c \notin local[v] /\ c \notin moving[v]
      BY <1>6 DEF Held
    <3>3. /\ local'[v] = IF v = u THEN local[v] \ {c} ELSE local[v]
          /\ hand'[v] = IF v = w THEN {c} ELSE hand[v]
      BY <1>1 DEF IInv, TypeOK
    <3>. QED  BY <1>2, <1>5, <3>1, <3>2, <3>3
  <2>. QED  BY <1>2, <2>1, <2>2, <2>3 DEF HeldOnce
<1>9. Uncounted' = Uncounted
  <2>1. UNION {Held(v)' : v \in Workers} = UNION {Held(v) : v \in Workers}
    <3>1. c \in Held(w)' /\ c \in Held(u)
      BY <1>5, <1>7
    <3>2. ASSUME NEW x
          PROVE  (\E v \in Workers : x \in Held(v)') <=> (\E v \in Workers : x \in Held(v))
      BY <1>7, <3>1
    <3>. QED  BY <3>2
  <2>. QED  BY <1>2, <2>1 DEF Uncounted
<1>. QED  BY <1>8, <1>9

\* Steps that touch none of it.
LEMMA UnchangedHeld ==
    ASSUME IInv, UNCHANGED <<queues, hand>>
    PROVE  HeldOnce' /\ Uncounted' = Uncounted
<1>1. \A v \in Workers : Held(v)' = Held(v)
  BY DEF Held, queues
<1>. QED  BY <1>1 DEF IInv, HeldOnce, Uncounted, queues

LEMMA NextHeldOnce == IInv /\ [Next]_vars => HeldOnce' /\ RemainingCounts'
<1>. SUFFICES ASSUME IInv, [Next]_vars PROVE HeldOnce' /\ RemainingCounts'
  OBVIOUS
<1>1. ASSUME HeldOnce', Uncounted' = Uncounted, remaining' = remaining
      PROVE  HeldOnce' /\ RemainingCounts'
  BY <1>1 DEF IInv, RemainingCounts
<1>2. ASSUME NEW w \in Workers, SearchStep(w) PROVE HeldOnce' /\ RemainingCounts'
  BY <1>1, <1>2, UnchangedHeld, SearchStepQuiet DEF Quiet
<1>3. ASSUME NEW w \in Workers, PopLocal(w) PROVE HeldOnce' /\ RemainingCounts'
  BY <1>1, <1>3, PopLocalHeld DEF PopLocal
<1>4. ASSUME NEW w \in Workers, TakeBatch(w) PROVE HeldOnce' /\ RemainingCounts'
  BY <1>1, <1>4, TakeBatchHeld DEF TakeBatch
<1>5. ASSUME NEW w \in Workers, FinishBatch(w) PROVE HeldOnce' /\ RemainingCounts'
  BY <1>1, <1>5, FinishBatchHeld DEF FinishBatch
<1>6. ASSUME NEW w \in Workers, Steal(w) PROVE HeldOnce' /\ RemainingCounts'
  BY <1>1, <1>6, StealHeld DEF Steal
<1>7. ASSUME NEW w \in Workers, Hash(w) PROVE HeldOnce' /\ RemainingCounts'
  BY <1>1, <1>7, UnchangedHeld DEF Hash
<1>8. ASSUME NEW w \in Workers, Count(w) PROVE HeldOnce' /\ RemainingCounts'
  <2>1. RemainingCounts'
    BY <1>8, CountOne
  <2>2. HeldOnce'
    BY <1>8 DEF IInv, TypeOK, HeldOnce, Held, Count, queues
  <2>. QED  BY <2>1, <2>2
<1>9. ASSUME Join PROVE HeldOnce' /\ RemainingCounts'
  BY <1>1, <1>9, UnchangedHeld DEF Join
<1>10. ASSUME Report PROVE HeldOnce' /\ RemainingCounts'
  BY <1>1, <1>10, UnchangedHeld DEF Report
<1>11. ASSUME UNCHANGED vars PROVE HeldOnce' /\ RemainingCounts'
  BY <1>1, <1>11, UnchangedHeld DEF vars
<1>. QED
  BY <1>2, <1>3, <1>4, <1>5, <1>6, <1>7, <1>8, <1>9, <1>10, <1>11, NextCases

-----------------------------------------------------------------------------
(* Only Hash makes a chunk cease to be pending.                            *)

LEMMA SearchStepPending ==
    ASSUME IInv, NEW w \in Workers, SearchStep(w), NEW x \in Chunks
    PROVE  Pending(x)' <=> Pending(x)
<1>1. UNCHANGED queues /\ hand' = hand
  BY SearchStepQuiet DEF Quiet
<1>2. /\ pc[w] # "hash" /\ pc'[w] # "hash"
      /\ \A v \in Workers \ {w} : pc'[v] = pc[v]
  BY DEF SearchStep, Arrive, Go, LocalEmpty, InjectorEmpty, InjectorRetry,
     VictimEmpty, VictimRetry, NextVictim, Sweep, SweepAgain, FoundNothing,
     Quit, Snooze, Goto, IInv, TypeOK
<1>. QED  BY <1>1, <1>2 DEF Pending, StillToHash, queues

LEMMA PopLocalPending ==
    ASSUME IInv, NEW w \in Workers, PopLocal(w), NEW x \in Chunks
    PROVE  Pending(x)' <=> Pending(x)
<1>1. PICK c \in local[w] : /\ local' = [local EXCEPT ![w] = @ \ {c}]
                            /\ hand' = [hand EXCEPT ![w] = {c}]
  BY DEF PopLocal
<1>2. /\ UNCHANGED <<injector, moving>>
      /\ pc[w] = "find" /\ pc' = [pc EXCEPT ![w] = "hash"]
  BY DEF PopLocal, Goto
<1>3. \A v \in Workers : StillToHash(v, x)' <=> StillToHash(v, x)
  BY <1>1, <1>2 DEF StillToHash, IInv, TypeOK
<1>. QED  BY <1>2, <1>3 DEF Pending

LEMMA TakeBatchPending ==
    ASSUME IInv, NEW w \in Workers, TakeBatch(w), NEW x \in Chunks
    PROVE  Pending(x)' <=> Pending(x)
<1>1. PICK batch \in SUBSET injector :
         /\ injector' = injector \ batch
         /\ moving' = [moving EXCEPT ![w] = batch]
  BY DEF TakeBatch
<1>2. /\ UNCHANGED <<local, hand>>
      /\ pc[w] = "global" /\ pc' = [pc EXCEPT ![w] = "batch"]
      /\ moving[w] = {}
  BY DEF TakeBatch, Goto, IInv, HandOK
<1>3. \A v \in Workers : StillToHash(v, x)' <=>
         StillToHash(v, x) \/ (v = w /\ x \in batch)
  BY <1>1, <1>2 DEF StillToHash, IInv, TypeOK
<1>4. x \in injector <=> x \in injector' \/ x \in batch
  BY <1>1
<1>. QED  BY <1>3, <1>4 DEF Pending

LEMMA FinishBatchPending ==
    ASSUME IInv, NEW w \in Workers, FinishBatch(w), NEW x \in Chunks
    PROVE  Pending(x)' <=> Pending(x)
<1>1. PICK c \in moving[w] :
         /\ hand' = [hand EXCEPT ![w] = {c}]
         /\ local' = [local EXCEPT ![w] = @ \cup (moving[w] \ {c})]
         /\ moving' = [moving EXCEPT ![w] = {}]
  BY DEF FinishBatch
<1>2. /\ injector' = injector
      /\ pc[w] = "batch" /\ pc' = [pc EXCEPT ![w] = "hash"]
  BY DEF FinishBatch, Goto
<1>3. \A v \in Workers : StillToHash(v, x)' <=> StillToHash(v, x)
  BY <1>1, <1>2 DEF StillToHash, IInv, TypeOK
<1>. QED  BY <1>2, <1>3 DEF Pending

LEMMA StealPending ==
    ASSUME IInv, NEW w \in Workers, Steal(w), NEW x \in Chunks
    PROVE  Pending(x)' <=> Pending(x)
<1>0. PICK u \in Workers : u = victim[w]
  BY DEF Steal
<1>1. PICK c \in local[u] : /\ local' = [local EXCEPT ![u] = @ \ {c}]
                            /\ hand' = [hand EXCEPT ![w] = {c}]
  BY <1>0 DEF Steal
<1>2. /\ UNCHANGED <<injector, moving>>
      /\ pc[w] = "sweep" /\ pc' = [pc EXCEPT ![w] = "hash"]
  BY DEF Steal, Goto
<1>3. CASE x = c
  <2>1. StillToHash(u, x)
    BY <1>3 DEF StillToHash
  <2>2. StillToHash(w, x)'
    BY <1>1, <1>2, <1>3 DEF StillToHash, IInv, TypeOK
  <2>. QED  BY <2>1, <2>2 DEF Pending
<1>4. CASE x # c
  <2>1. \A v \in Workers : StillToHash(v, x)' <=> StillToHash(v, x)
    BY <1>1, <1>2, <1>4 DEF StillToHash, IInv, TypeOK
  <2>. QED  BY <1>2, <2>1 DEF Pending
<1>. QED  BY <1>3, <1>4

LEMMA CountPending ==
    ASSUME IInv, NEW w \in Workers, Count(w), NEW x \in Chunks
    PROVE  Pending(x)' <=> Pending(x)
<1>1. /\ UNCHANGED queues
      /\ pc[w] = "count" /\ pc' = [pc EXCEPT ![w] = "find"]
      /\ hand' = [hand EXCEPT ![w] = {}]
  BY DEF Count, Goto
<1>. QED  BY <1>1 DEF Pending, StillToHash, queues, IInv, TypeOK

LEMMA HashHashedOnce ==
    ASSUME IInv, NEW w \in Workers, Hash(w)
    PROVE  HashedOnce'
<1>1. /\ UNCHANGED <<queues, hand>>
      /\ pc[w] = "hash" /\ pc' = [pc EXCEPT ![w] = "count"]
  BY DEF Hash, Goto
<1>2. PICK c \in Chunks : hand[w] = {c}
  BY <1>1 DEF IInv, HandOK
<1>3. \A v \in Workers, x \in Chunks :
         sum'[v][x] = IF v = w /\ x = c THEN sum[v][x] + 1 ELSE sum[v][x]
  BY <1>2 DEF Hash, IInv, TypeOK
<1>4. ASSUME NEW x \in Chunks, x # c PROVE Pending(x)' <=> Pending(x)
  BY <1>1, <1>2, <1>4 DEF Pending, StillToHash, queues, IInv, TypeOK
<1>5. Pending(c)
  BY <1>1, <1>2 DEF Pending, StillToHash
<1>6. ~Pending(c)'
  <2>1. c \in Held(w) /\ c \notin injector
    BY <1>2 DEF IInv, HeldOnce, Held
  <2>2. ASSUME NEW v \in Workers \ {w} PROVE ~StillToHash(v, c)'
    <3>1. c \notin Held(v)
      BY <2>1 DEF IInv, HeldOnce
    <3>. QED  BY <1>1, <3>1 DEF StillToHash, Held, queues
  <2>3. ~StillToHash(w, c)'
    <3>1. c \notin local[w] /\ c \notin moving[w]
      BY <1>2 DEF IInv, HeldOnce
    <3>. QED  BY <1>1, <3>1 DEF StillToHash, queues, IInv, TypeOK
  <2>. QED  BY <1>1, <2>1, <2>2, <2>3 DEF Pending, queues
<1>7. \A v \in Workers : sum[v][c] = 0
  BY <1>5 DEF IInv, HashedOnce
<1>8. sum'[w][c] = 1 /\ \A v \in Workers \ {w} : sum'[v][c] = 0
  BY <1>3, <1>7
<1>9. ASSUME NEW x \in Chunks, x # c
      PROVE  \A v \in Workers : sum'[v][x] = sum[v][x]
  BY <1>3, <1>9
<1>10. ASSUME NEW x \in Chunks
       PROVE  IF Pending(x)'
              THEN \A v \in Workers : sum'[v][x] = 0
              ELSE \E v \in Workers : /\ sum'[v][x] = 1
                                       /\ \A u \in Workers \ {v} : sum'[u][x] = 0
  <2>1. CASE x = c
    BY <1>6, <1>8, <2>1
  <2>2. CASE x # c
    <3>1. IF Pending(x)
          THEN \A v \in Workers : sum[v][x] = 0
          ELSE \E v \in Workers : /\ sum[v][x] = 1
                                   /\ \A u \in Workers \ {v} : sum[u][x] = 0
      BY DEF IInv, HashedOnce
    <3>. QED  BY <1>4, <1>9, <2>2, <3>1
  <2>. QED  BY <2>1, <2>2
<1>. QED  BY <1>10 DEF HashedOnce

LEMMA NextHashedOnce == IInv /\ [Next]_vars => HashedOnce'
<1>. SUFFICES ASSUME IInv, [Next]_vars PROVE HashedOnce'
  OBVIOUS
<1>1. ASSUME sum' = sum, \A x \in Chunks : Pending(x)' <=> Pending(x)
      PROVE  HashedOnce'
  BY <1>1 DEF IInv, HashedOnce
<1>2. ASSUME NEW w \in Workers, SearchStep(w) PROVE HashedOnce'
  BY <1>1, <1>2, SearchStepPending, SearchStepQuiet DEF Quiet
<1>3. ASSUME NEW w \in Workers, PopLocal(w) PROVE HashedOnce'
  BY <1>1, <1>3, PopLocalPending DEF PopLocal
<1>4. ASSUME NEW w \in Workers, TakeBatch(w) PROVE HashedOnce'
  BY <1>1, <1>4, TakeBatchPending DEF TakeBatch
<1>5. ASSUME NEW w \in Workers, FinishBatch(w) PROVE HashedOnce'
  BY <1>1, <1>5, FinishBatchPending DEF FinishBatch
<1>6. ASSUME NEW w \in Workers, Steal(w) PROVE HashedOnce'
  BY <1>1, <1>6, StealPending DEF Steal
<1>7. ASSUME NEW w \in Workers, Hash(w) PROVE HashedOnce'
  BY <1>7, HashHashedOnce
<1>8. ASSUME NEW w \in Workers, Count(w) PROVE HashedOnce'
  BY <1>1, <1>8, CountPending DEF Count
<1>9. ASSUME UNCHANGED <<pc, queues, hand, sum>> PROVE HashedOnce'
  <2>1. \A x \in Chunks : Pending(x)' <=> Pending(x)
    BY <1>9 DEF Pending, StillToHash, queues
  <2>. QED  BY <1>1, <1>9, <2>1
<1>. QED
  BY <1>2, <1>3, <1>4, <1>5, <1>6, <1>7, <1>8, <1>9, NextCases DEF Join, Report, vars

-----------------------------------------------------------------------------
(* Stopping, joining and the clock.                                        *)

LEMMA NextStopped == IInv /\ [Next]_vars => Stopped'
<1>. SUFFICES ASSUME IInv, [Next]_vars PROVE Stopped'
  OBVIOUS
<1>1. ASSUME NEW w \in Workers, SearchStep(w) PROVE Stopped'
  <2>1. /\ pc[w] # "done"
        /\ pc'[w] = "done" => remaining = 0
        /\ \A v \in Workers \ {w} : pc'[v] = pc[v]
    BY <1>1 DEF SearchStep, Arrive, Go, LocalEmpty, InjectorEmpty, InjectorRetry,
       VictimEmpty, VictimRetry, NextVictim, Sweep, SweepAgain, FoundNothing,
       Quit, Snooze, Goto, IInv, TypeOK
  <2>2. remaining' = remaining /\ joined' = joined /\ reported' = reported
    BY <1>1, SearchStepQuiet DEF Quiet, main
  <2>. QED  BY <2>1, <2>2 DEF IInv, Stopped
<1>2. ASSUME NEW w \in Workers, PopLocal(w) PROVE Stopped'
  BY <1>2 DEF PopLocal, Goto, IInv, TypeOK, Stopped, main
<1>3. ASSUME NEW w \in Workers, TakeBatch(w) PROVE Stopped'
  BY <1>3 DEF TakeBatch, Goto, IInv, TypeOK, Stopped, main
<1>4. ASSUME NEW w \in Workers, FinishBatch(w) PROVE Stopped'
  BY <1>4 DEF FinishBatch, Goto, IInv, TypeOK, Stopped, main
<1>5. ASSUME NEW w \in Workers, Steal(w) PROVE Stopped'
  BY <1>5 DEF Steal, Goto, IInv, TypeOK, Stopped, main
<1>6. ASSUME NEW w \in Workers, Hash(w) PROVE Stopped'
  BY <1>6 DEF Hash, Goto, IInv, TypeOK, Stopped, main
<1>7. ASSUME NEW w \in Workers, Count(w) PROVE Stopped'
  <2>1. remaining' \in Nat /\ remaining' = remaining - 1
    BY <1>7, CountOne DEF Count
  <2>2. remaining # 0
    BY <2>1
  <2>3. \A v \in Workers : pc[v] # "done"
    BY <2>2 DEF IInv, Stopped
  <2>. QED  BY <1>7, <2>3 DEF Count, Goto, IInv, TypeOK, Stopped, main
<1>8. ASSUME Join PROVE Stopped'
  BY <1>8 DEF Join, IInv, TypeOK, Stopped, Workers
<1>9. ASSUME Report PROVE Stopped'
  BY <1>9 DEF Report, IInv, TypeOK, Stopped
<1>10. ASSUME UNCHANGED vars PROVE Stopped'
  BY <1>10 DEF vars, main, IInv, Stopped
<1>. QED
  BY <1>1, <1>2, <1>3, <1>4, <1>5, <1>6, <1>7, <1>8, <1>9, <1>10, NextCases

\* A chunk that is in one sum is in no other.
LEMMA InOneSum ==
    ASSUME IInv, NEW c \in Chunks, NEW w \in Workers, sum[w][c] = 1
    PROVE  \A v \in Workers \ {w} : sum[v][c] = 0
BY DEF IInv, HashedOnce

LEMMA NextTotal == IInv /\ [Next]_vars => TotalIsJoined'
<1>. SUFFICES ASSUME IInv, [Next]_vars PROVE TotalIsJoined'
  OBVIOUS
<1>1. ASSUME NEW w \in Workers, Hash(w) PROVE TotalIsJoined'
  <2>1. \A v \in Workers : v < joined => v # w
    BY <1>1 DEF IInv, Stopped, Hash, Goto
  <2>2. \A v \in Workers : v < joined => sum'[v] = sum[v]
    BY <1>1, <2>1 DEF Hash, IInv, TypeOK
  <2>3. joined' = joined /\ total' = total
    BY <1>1 DEF Hash, main
  <2>. QED  BY <2>2, <2>3 DEF IInv, TotalIsJoined
<1>2. ASSUME Join PROVE TotalIsJoined'
  <2>1. /\ joined \in Workers /\ joined' = joined + 1 /\ sum' = sum
        /\ \A c \in Chunks : total'[c] = total[c] + sum[joined][c]
    BY <1>2 DEF Join
  <2>2. ASSUME NEW c \in Chunks, \A w \in Workers : w < joined' => sum'[w][c] = 0
        PROVE  total'[c] = 0
    <3>1. \A w \in Workers : w < joined + 1 => sum[w][c] = 0
      BY <2>1, <2>2
    <3>2. sum[joined][c] = 0 /\ \A w \in Workers : w < joined => sum[w][c] = 0
      BY <2>1, <3>1 DEF Workers
    <3>. QED  BY <2>1, <3>2 DEF IInv, TotalIsJoined
  <2>3. ASSUME NEW c \in Chunks, NEW w \in Workers, w < joined', sum'[w][c] = 1
        PROVE  total'[c] = 1
    <3>1. \A v \in Workers \ {w} : sum[v][c] = 0
      BY <2>1, <2>3, InOneSum
    <3>2. CASE w = joined
      <4>1. total[c] = 0
        BY <3>1, <3>2 DEF IInv, TotalIsJoined, Workers
      <4>. QED  BY <2>1, <2>3, <3>2, <4>1
    <3>3. CASE w # joined
      <4>1. w < joined
        BY <2>1, <2>3, <3>3 DEF Workers
      <4>2. total[c] = 1 /\ sum[joined][c] = 0
        BY <2>1, <2>3, <3>1, <3>3, <4>1 DEF IInv, TotalIsJoined
      <4>. QED  BY <2>1, <4>2
    <3>. QED  BY <3>2, <3>3
  <2>. QED  BY <2>2, <2>3 DEF TotalIsJoined
<1>3. ASSUME sum' = sum, joined' = joined, total' = total PROVE TotalIsJoined'
  BY <1>3 DEF IInv, TotalIsJoined
<1>4. ASSUME NEW w \in Workers, SearchStep(w) PROVE TotalIsJoined'
  BY <1>3, <1>4, SearchStepQuiet DEF Quiet, main
<1>5. ASSUME NEW w \in Workers,
             PopLocal(w) \/ TakeBatch(w) \/ FinishBatch(w) \/ Steal(w) \/ Count(w)
      PROVE  TotalIsJoined'
  BY <1>3, <1>5 DEF PopLocal, TakeBatch, FinishBatch, Steal, Count, main
<1>6. ASSUME Report \/ UNCHANGED vars PROVE TotalIsJoined'
  BY <1>3, <1>6 DEF Report, vars, main
<1>. QED  BY <1>1, <1>2, <1>4, <1>5, <1>6, NextCases

LEMMA NextClock == IInv /\ [Next]_vars => ClockRuns'
<1>. SUFFICES ASSUME IInv, [Next]_vars PROVE ClockRuns'
  OBVIOUS
<1>1. ASSUME NEW w \in Workers, Arrive(w) PROVE ClockRuns'
  BY <1>1 DEF Arrive, Goto, ClockRuns, AllArrived, IInv, TypeOK, queues
<1>2. ASSUME NEW w \in Workers, Go(w) PROVE ClockRuns'
  BY <1>2 DEF Go, Goto, ClockRuns, AllArrived, IInv, TypeOK, queues
<1>3. ASSUME NEW w \in Workers, Worker(w), ~Arrive(w), ~Go(w) PROVE ClockRuns'
  <2>1. /\ started' = started
        /\ pc[w] \notin {"spawned", "barrier"} /\ pc'[w] \notin {"spawned", "barrier"}
        /\ \A v \in Workers \ {w} : pc'[v] = pc[v]
    BY <1>3 DEF Worker, PopLocal, LocalEmpty, TakeBatch, FinishBatch, InjectorEmpty,
       InjectorRetry, Sweep, Steal, VictimEmpty, VictimRetry, NextVictim, SweepAgain,
       FoundNothing, Hash, Count, Quit, Snooze, Goto, IInv, TypeOK
  <2>2. started /\ AllArrived
    BY <2>1 DEF ClockRuns, IInv
  <2>. QED  BY <2>1, <2>2 DEF ClockRuns, AllArrived
<1>4. ASSUME UNCHANGED <<pc, started, queues>> PROVE ClockRuns'
  BY <1>4 DEF IInv, ClockRuns, AllArrived, queues
<1>. QED
  BY <1>1, <1>2, <1>3, <1>4 DEF Next, Join, Report, Exited, vars

-----------------------------------------------------------------------------

THEOREM Inductive == Spec => []IInv
<1>1. Init => IInv
  BY InitIInv
<1>2. IInv /\ [Next]_vars => IInv'
  BY NextTypeOK, NextHandOK, NextHeldOnce, NextHashedOnce, NextStopped, NextTotal,
     NextClock DEF IInv
<1>. QED  BY <1>1, <1>2, PTL DEF Spec

\* Type correctness; in particular `remaining` never wraps below zero.
THEOREM TypeCorrect == Spec => []TypeOK
<1>1. IInv => TypeOK
  BY DEF IInv
<1>. QED  BY <1>1, Inductive, PTL

\* No chunk is lost, duplicated, hashed twice or miscounted on its way from
\* the injector to a worker's sum.
THEOREM ChunksAreConserved == Spec => []ChunksConserved
<1>1. IInv => ChunksConserved
  BY DEF IInv, ChunksConserved
<1>. QED  BY <1>1, Inductive, PTL

\* With a count of zero nothing is left anywhere.
LEMMA ZeroMeansDone ==
    ASSUME IInv, remaining = 0
    PROVE  \A c \in Chunks : ~Pending(c)
<1>1. IsFiniteSet(Uncounted) /\ Cardinality(Uncounted) = 0
  BY UncountedFinite DEF IInv, RemainingCounts
<1>2. Uncounted = {}
  BY <1>1, FS_EmptySet
<1>. QED  BY <1>2 DEF Uncounted, Pending, StillToHash, Held

\* A worker that stopped left no work behind, in its own queue, in another's
\* or on the move.
THEOREM WorkersStopInTime == Spec => []NoEarlyQuit
<1>1. IInv => NoEarlyQuit
  BY ZeroMeansDone DEF IInv, Stopped, NoEarlyQuit
<1>. QED  BY <1>1, Inductive, PTL

\* The checksum that is printed has every chunk in it exactly once.
LEMMA IInvReportExact == IInv => ReportExact
<1>. SUFFICES ASSUME IInv, reported PROVE total = [c \in Chunks |-> 1]
  BY DEF ReportExact
<1>1. joined = Threads + 1 /\ 1 \in Workers /\ \A w \in Workers : w < joined
  BY DEF IInv, Stopped, Workers
<1>2. remaining = 0
  BY <1>1 DEF IInv, Stopped
<1>3. ASSUME NEW c \in Chunks PROVE total[c] = 1
  <2>1. \E w \in Workers : sum[w][c] = 1
    BY <1>2, ZeroMeansDone DEF IInv, HashedOnce
  <2>. QED  BY <1>1, <2>1 DEF IInv, TotalIsJoined
<1>. QED  BY <1>3 DEF IInv, TypeOK

THEOREM ReportedSumIsExact == Spec => []ReportExact
<1>. QED  BY IInvReportExact, Inductive, PTL

\* The clock runs, and all workers are at the start line, before any work.
THEOREM ClockCovers == Spec => []ClockCoversWork
<1>1. IInv => ClockCoversWork
  BY DEF IInv, ClockRuns, ClockCoversWork
<1>. QED  BY <1>1, Inductive, PTL

-----------------------------------------------------------------------------
(* The pool implements ExactlyOnce: hashing a chunk is Account, the main   *)
(* thread's report is Report, and every other step is a stutter.           *)

LEMMA HashAccounts ==
    ASSUME IInv, IInv', NEW w \in Workers, Hash(w)
    PROVE  \E c \in Chunks : EO!Account(c)
<1>1. PICK c \in Chunks : hand[w] = {c}
  BY DEF IInv, HandOK, Hash, Goto
<1>2. ~reported /\ reported' = reported
  BY DEF IInv, Stopped, Hash, Goto, Workers, main
<1>3. \A v \in Workers, x \in Chunks :
         sum'[v][x] = IF v = w /\ x = c THEN sum[v][x] + 1 ELSE sum[v][x]
  BY <1>1 DEF Hash, IInv, TypeOK
<1>4. \A v \in Workers : sum[v][c] = 0
  <2>1. Pending(c)
    BY <1>1 DEF Pending, StillToHash, Hash, Goto
  <2>. QED  BY <2>1 DEF IInv, HashedOnce
<1>5. c \notin HashedSet
  BY <1>4 DEF HashedSet
<1>6. c \in HashedSet'
  <2>1. sum'[w][c] = 1 /\ \A v \in Workers \ {w} : sum'[v][c] = 0
    BY <1>3, <1>4
  <2>. QED  BY <2>1 DEF HashedSet
<1>7. ASSUME NEW x \in Chunks, x # c PROVE x \in HashedSet' <=> x \in HashedSet
  <2>1. \A v \in Workers : sum'[v][x] = sum[v][x]
    BY <1>3, <1>7
  <2>. QED  BY <2>1 DEF HashedSet
<1>8. HashedSet' = HashedSet \cup {c}
  <2>1. HashedSet \subseteq Chunks /\ HashedSet' \subseteq Chunks
    BY DEF HashedSet
  <2>. QED  BY <1>6, <1>7, <2>1
<1>. QED  BY <1>2, <1>5, <1>8 DEF EO!Account

LEMMA ReportReports ==
    ASSUME IInv, Report
    PROVE  EO!Report
<1>1. remaining = 0
  BY DEF IInv, Stopped, Report, Workers
<1>2. \A c \in Chunks : \E w \in Workers :
         sum[w][c] = 1 /\ \A v \in Workers \ {w} : sum[v][c] = 0
  BY <1>1, ZeroMeansDone DEF IInv, HashedOnce
<1>3. HashedSet = Chunks
  BY <1>2 DEF HashedSet
<1>4. HashedSet' = HashedSet
  BY DEF HashedSet, Report
<1>. QED  BY <1>3, <1>4 DEF EO!Report, Report

\* Every chunk enters the checksum once, and the report comes after all.
THEOREM Refinement == Spec => ImplementsExactlyOnce
<1>1. Init => EO!Init
  <2>1. Init => HashedSet = {}
    BY DEF Init, Nothing, HashedSet
  <2>. QED  BY <2>1 DEF Init, EO!Init
<1>2. IInv /\ IInv' /\ [Next]_vars => [EO!Next]_(EO!vars)
  <2>. SUFFICES ASSUME IInv, IInv', [Next]_vars PROVE [EO!Next]_(EO!vars)
    OBVIOUS
  <2>1. ASSUME sum' = sum, reported' = reported PROVE UNCHANGED EO!vars
    BY <2>1 DEF HashedSet, EO!vars
  <2>2. ASSUME NEW w \in Workers, SearchStep(w) PROVE UNCHANGED EO!vars
    BY <2>1, <2>2, SearchStepQuiet DEF Quiet, main
  <2>3. ASSUME NEW w \in Workers,
               PopLocal(w) \/ TakeBatch(w) \/ FinishBatch(w) \/ Steal(w) \/ Count(w)
        PROVE  UNCHANGED EO!vars
    BY <2>1, <2>3 DEF PopLocal, TakeBatch, FinishBatch, Steal, Count, main
  <2>4. ASSUME NEW w \in Workers, Hash(w) PROVE EO!Next
    BY <2>4, HashAccounts DEF EO!Next
  <2>5. ASSUME Join PROVE UNCHANGED EO!vars
    BY <2>1, <2>5 DEF Join
  <2>6. ASSUME Report PROVE EO!Next
    BY <2>6, ReportReports DEF EO!Next
  <2>7. ASSUME UNCHANGED vars PROVE UNCHANGED EO!vars
    BY <2>1, <2>7 DEF vars, main
  <2>. QED  BY <2>2, <2>3, <2>4, <2>5, <2>6, <2>7, NextCases
<1>. QED  BY <1>1, <1>2, Inductive, PTL DEF Spec, EO!Spec, ImplementsExactlyOnce
=============================================================================
