--------------------------- MODULE WorkloadProofs ---------------------------
(***************************************************************************)
(* Proofs about ForkJoin and PingPong, for any number of tasks, items and  *)
(* increments, and of round trips and samples: what is counted is complete *)
(* when the main task reports it, and there is one token.                  *)
(***************************************************************************)
EXTENDS ForkJoin, PingPong, FiniteSetTheorems, TLAPS

-----------------------------------------------------------------------------
(* Products and quotients of natural numbers, on which chunk_bounds and    *)
(* the sampling of pingpong rest.                                          *)

LEMMA TimesMonotone ==
    ASSUME NEW a \in Nat, NEW b \in Nat, NEW e \in Nat, a <= b
    PROVE  a * e <= b * e
<1>1. PICK d \in Nat : b = a + d
  <2>1. b - a \in Nat /\ b = a + (b - a)
    OBVIOUS
  <2>. QED  BY <2>1
<1>2. b * e = a * e + d * e
  BY <1>1
<1>3. d * e >= 0
  OBVIOUS
<1>4. a * e \in Nat /\ b * e \in Nat /\ d * e \in Nat
  OBVIOUS
<1>. QED  BY <1>2, <1>3, <1>4

LEMMA Division ==
    ASSUME NEW a \in Nat, NEW b \in Nat \ {0}
    PROVE  /\ a \div b \in Nat
           /\ \E r \in 0 .. b - 1 : a = b * (a \div b) + r
<1>1. a \div b \in Nat
  OBVIOUS
<1>2. a = b * (a \div b) + (a % b)
  OBVIOUS
<1>3. a % b \in 0 .. b - 1
  OBVIOUS
<1>. QED  BY <1>1, <1>2, <1>3

LEMMA CeilingDivision ==
    ASSUME NEW n \in Nat, NEW chunks \in Nat \ {0},
           NEW each, each = (n + chunks - 1) \div chunks
    PROVE  /\ each \in Nat
           /\ n <= chunks * each
           /\ n > 0 => each > 0
<1>1. n + chunks - 1 \in Nat
  OBVIOUS
<1>2. each \in Nat
  BY <1>1
<1>3. PICK r \in 0 .. chunks - 1 : n + chunks - 1 = chunks * each + r
  BY <1>1, Division
<1>4. r \in 0 .. chunks - 1
  BY <1>3
<1>5. chunks * each \in Nat
  BY <1>2
<1>6. n <= chunks * each
  BY <1>3, <1>4, <1>5
<1>7. ASSUME n > 0, each = 0 PROVE FALSE
  BY <1>6, <1>7
<1>. QED  BY <1>2, <1>6, <1>7

\* The first multiple of b that is not below a is unique.
LEMMA NextMultiple ==
    ASSUME NEW b \in Nat \ {0}, NEW d \in Nat, NEW q \in Nat,
           q * b >= d * b, q * b < d * b + b
    PROVE  q = d
<1>1. q * b \in Nat /\ d * b \in Nat
  OBVIOUS
<1>2. ASSUME q > d PROVE FALSE
  <2>1. (d + 1) * b <= q * b
    BY <1>2, TimesMonotone
  <2>2. (d + 1) * b = d * b + b
    OBVIOUS
  <2>. QED  BY <1>1, <2>1, <2>2
<1>3. ASSUME q < d PROVE FALSE
  <2>1. (q + 1) * b <= d * b
    BY <1>3, TimesMonotone
  <2>2. (q + 1) * b = q * b + b
    OBVIOUS
  <2>. QED  BY <1>1, <2>1, <2>2
<1>. QED  BY <1>2, <1>3

-----------------------------------------------------------------------------
(* ForkJoin.                                                               *)

Unfinished == {t \in Tasks : pc[t] # "end"}
Counted    == {t \in Tasks : pc[t] \in {"counted", "blocked", "finish", "notify", "end"}}
Leavers    == {t \in Tasks : pc[t] \in {"notify", "end"}}

\* The types that TypeOK leaves out.
MoreTypes ==
    /\ pattern \in {"handles", "slots", "mutex", "scope", "notify"}
    /\ size \in Nat
    /\ twice \in BOOLEAN /\ closed \in BOOLEAN
    /\ sum \in [Items -> Nat]
    /\ DOMAIN slot = Tasks
    /\ counter \in Nat

\* Where a run of each pattern can be.
Patterns ==
    /\ twice => pattern \in {"handles", "slots"}
    /\ main = "again" => twice
    /\ Idle => main \notin {"join", "again"}
    /\ ~Idle => main \in {"spawn", "join", "again", "reported"}
    /\ \A t \in Tasks : pc[t] = "done" => pattern = "slots"
    /\ \A t \in Tasks : pc[t] \in {"read", "write"} => pattern = "mutex"
    /\ \A t \in Tasks : pc[t] \in {"counted", "blocked", "finish", "notify"} => Idle

\* The tasks are spawned in order.
Spawned ==
    /\ main = "spawn" => \E k \in Tasks : \A t \in Tasks : pc[t] = "new" <=> t >= k
    /\ main # "spawn" => \A t \in Tasks : pc[t] # "new"

\* A task that has ended has its result in its slot, and the WaitGroup counts
\* the others.
Results ==
    /\ group = IF pattern = "slots" THEN Cardinality(Unfinished) ELSE 0
    /\ pattern \in {"handles", "slots"} =>
          \A t \in Tasks : pc[t] \in {"done", "end"} => slot[t] = chunk_bounds(size, N, t - 1)

\* The sum is that of the tasks that have been joined, or of all.
Sums ==
    /\ pattern \notin {"handles", "mutex"} => joined = 0
    /\ \A t \in Tasks : t <= joined => pc[t] = "end"
    /\ pattern = "handles" => \A i \in Items :
          sum[i] = IF \E t \in Tasks : t <= joined /\ i \in slot[t] THEN 1 ELSE 0
    /\ pattern \in {"handles", "mutex"} /\ main \in {"again", "reported"} => joined = N
    /\ pattern = "slots" /\ main = "reported" => \A i \in Items : sum[i] = 1

\* The increments that have been made; one is made under the lock.
Increments ==
    /\ counter = Made
    /\ holder = {t \in Tasks : pc[t] \in {"read", "write"}}
    /\ \A t, u \in holder : t = u
    /\ \A t \in Tasks : pc[t] = "write" => local = counter
    /\ \A t \in Tasks : pc[t] \in {"read", "write"} => left[t] > 0
    /\ pattern = "mutex" => \A t \in Tasks : pc[t] = "end" => left[t] = 0

\* The counts of idle, and who has gone past the gate.
Gate ==
    /\ parked = IF Idle THEN Cardinality(Counted) ELSE 0
    /\ finished = IF Idle THEN Cardinality(Leavers) ELSE 0
    /\ closed => Idle /\ main \notin {"spawn", "poll", "sample", "close"}
    /\ Idle => \A t \in Tasks : pc[t] \in {"finish", "notify", "end"} => closed
    /\ main \in {"sample", "close"} => parked = N
    /\ Idle /\ main = "reported" => finished = N

IInv ==
    /\ TypeOK
    /\ MoreTypes
    /\ Patterns
    /\ Spawned
    /\ Results
    /\ Sums
    /\ Increments
    /\ Gate

-----------------------------------------------------------------------------
(* The chunks of chunk_bounds.                                             *)

(* Every item is in exactly one chunk of chunk_bounds, also when there are  *)
(* fewer items than chunks, or none.                                       *)
THEOREM ChunksPartition ==
    ASSUME NEW n \in Nat, NEW chunks \in Nat \ {0}, NEW i \in 0 .. n - 1
    PROVE  \E d \in 0 .. chunks - 1 :
              \A c \in Nat : i \in chunk_bounds(n, chunks, c) <=> c = d
<1>0. PICK each \in Nat \ {0} : n <= chunks * each /\ each = (n + chunks - 1) \div chunks
  BY CeilingDivision
<1>1. i \in Nat
  OBVIOUS
<1>2. PICK d \in Nat : \E r \in 0 .. each - 1 : i = each * d + r
  BY <1>1, Division
<1>3. d * each <= i /\ i < d * each + each /\ d * each \in Nat
  <2>1. each * d = d * each /\ d * each \in Nat
    BY <1>1
  <2>. QED  BY <1>1, <1>2, <2>1
<1>4. n <= chunks * each /\ chunks * each \in Nat
  BY <1>0
<1>5. d < chunks
  <2>. SUFFICES ASSUME d >= chunks PROVE FALSE
    BY <1>1
  <2>1. chunks * each <= d * each
    BY <1>1, TimesMonotone
  <2>. QED  BY <1>1, <1>3, <1>4, <2>1
<1>6. ASSUME NEW c \in Nat PROVE i \in chunk_bounds(n, chunks, c) <=> c = d
  <2>1. c * each \in Nat
    OBVIOUS
  <2>2. i \in chunk_bounds(n, chunks, c) <=> c * each <= i /\ i < c * each + each
    BY <1>0, <1>1, <2>1 DEF chunk_bounds, Lesser
  <2>3. ASSUME c < d PROVE ~(i < c * each + each)
    <3>1. (c + 1) * each <= d * each
      BY <1>1, <2>3, TimesMonotone
    <3>2. (c + 1) * each = c * each + each
      OBVIOUS
    <3>. QED  BY <1>1, <1>3, <2>1, <3>1, <3>2
  <2>4. ASSUME c > d PROVE ~(c * each <= i)
    <3>1. (d + 1) * each <= c * each
      BY <1>1, <2>4, TimesMonotone
    <3>2. (d + 1) * each = d * each + each
      BY <1>1
    <3>. QED  BY <1>1, <1>3, <2>1, <3>1, <3>2
  <2>. QED  BY <1>1, <1>3, <2>2, <2>3, <2>4
<1>7. d \in 0 .. chunks - 1
  BY <1>2, <1>5
<1>. QED  BY <1>6, <1>7

-----------------------------------------------------------------------------

USE ForkJoinAssumption

MadeSet == {x \in Tasks \X (1 .. Times) : x[2] > left[x[1]]}

LEMMA Sets ==
    /\ IsFiniteSet(Tasks) /\ Cardinality(Tasks) = N
    /\ IsFiniteSet(Tasks \X (1 .. Times)) /\ Cardinality(Tasks \X (1 .. Times)) = N * Times
    /\ IsFiniteSet(Unfinished) /\ Cardinality(Unfinished) \in 0 .. N
    /\ IsFiniteSet(Counted) /\ Cardinality(Counted) \in 0 .. N
    /\ IsFiniteSet(Leavers) /\ Cardinality(Leavers) \in 0 .. N
    /\ IsFiniteSet(MadeSet) /\ Cardinality(MadeSet) \in Nat
<1>1. IsFiniteSet(1 .. N) /\ Cardinality(1 .. N) = N
  BY FS_Interval
<1>2. IsFiniteSet(1 .. Times) /\ Cardinality(1 .. Times) = Times
  BY FS_Interval
<1>3. IsFiniteSet(Tasks) /\ Cardinality(Tasks) = N
  BY <1>1 DEF Tasks
<1>4. IsFiniteSet(Tasks \X (1 .. Times)) /\ Cardinality(Tasks \X (1 .. Times)) = N * Times
  BY <1>2, <1>3, FS_Product
<1>5. ASSUME NEW S \in SUBSET Tasks PROVE IsFiniteSet(S) /\ Cardinality(S) \in 0 .. N
  <2>1. IsFiniteSet(S) /\ Cardinality(S) <= N
    BY <1>3, FS_Subset
  <2>2. Cardinality(S) \in Nat
    BY <2>1, FS_CardinalityType
  <2>. QED  BY <2>1, <2>2
<1>6. MadeSet \in SUBSET (Tasks \X (1 .. Times))
  BY DEF MadeSet
<1>7. IsFiniteSet(MadeSet) /\ Cardinality(MadeSet) \in Nat
  BY <1>4, <1>6, FS_Subset, FS_CardinalityType
<1>8. /\ Unfinished \in SUBSET Tasks
      /\ Counted \in SUBSET Tasks
      /\ Leavers \in SUBSET Tasks
  BY DEF Unfinished, Counted, Leavers
<1>. QED  BY <1>3, <1>4, <1>5, <1>7, <1>8

\* A set of tasks that has N members is that of all tasks.
LEMMA AllTasks ==
    ASSUME NEW S \in SUBSET Tasks, Cardinality(S) = N
    PROVE  S = Tasks
BY Sets, FS_Subset

LEMMA Types ==
    ASSUME TypeOK
    PROVE  /\ pc \in [Tasks -> {"new", "run", "done", "read", "write", "counted",
                                "blocked", "finish", "notify", "end"}]
           /\ main \in {"spawn", "join", "again", "poll", "sample", "close", "check",
                        "notified", "waiting", "reported"}
           /\ left \in [Tasks -> 0 .. Times]
           /\ joined \in 0 .. N
BY DEF TypeOK

LEMMA InitIInv == Init => IInv
<1>. SUFFICES ASSUME Init PROVE IInv
  OBVIOUS
<1>1. /\ main = "spawn" /\ joined = 0
      /\ group = IF pattern = "slots" THEN N ELSE 0
      /\ pc = [t \in Tasks |-> "new"] /\ slot = [t \in Tasks |-> {}]
      /\ sum = [i \in Items |-> 0]
  BY DEF Init, Fresh
<1>2. /\ holder = {} /\ left = [t \in Tasks |-> Times] /\ counter = 0
      /\ parked = 0 /\ finished = 0 /\ closed = FALSE
      /\ size \in 0 .. MaxSize /\ twice \in BOOLEAN
      /\ pattern \in {"handles", "slots", "mutex", "scope", "notify"}
      /\ twice => pattern \in {"handles", "slots"}
  BY DEF Init
<1>3. TypeOK
  BY <1>1, <1>2 DEF TypeOK
<1>4. MoreTypes
  <2>1. sum \in [Items -> Nat] /\ DOMAIN slot = Tasks
    BY <1>1
  <2>2. size \in Nat /\ counter \in Nat
    <3>1. size \in 0 .. MaxSize /\ counter = 0
      BY <1>2
    <3>. QED  BY <3>1
  <2>3. closed \in BOOLEAN
    BY <1>2
  <2>. QED  BY <1>2, <2>1, <2>2, <2>3, Zenon DEF MoreTypes
<1>5. Patterns
  BY <1>1, <1>2 DEF Patterns, Idle
<1>6. Spawned
  <2>1. 1 \in Tasks /\ \A t \in Tasks : t >= 1
    BY DEF Tasks
  <2>. QED  BY <1>1, <2>1 DEF Spawned
<1>7. Results
  <2>1. Unfinished = Tasks
    BY <1>1 DEF Unfinished
  <2>. QED  BY <1>1, <2>1, Sets DEF Results
<1>8. Sums
  BY <1>1, <1>2 DEF Sums, Tasks
<1>9. Increments
  <2>1. MadeSet = {}
    BY <1>2 DEF MadeSet
  <2>2. Made = 0
    BY <2>1, FS_EmptySet DEF Made, MadeSet
  <2>. QED  BY <1>1, <1>2, <2>2 DEF Increments
<1>10. Gate
  <2>1. Counted = {} /\ Leavers = {}
    BY <1>1 DEF Counted, Leavers
  <2>. QED  BY <1>1, <1>2, <2>1, FS_EmptySet DEF Gate
<1>. QED  BY <1>3, <1>4, <1>5, <1>6, <1>7, <1>8, <1>9, <1>10 DEF IInv

-----------------------------------------------------------------------------
(* What the steps have in common.                                          *)

\* Every step is one of these.
LEMMA NextCases ==
    ASSUME [Next]_vars
    PROVE  \/ Spawn \/ SecondPass
           \/ Join \/ WaitSlots \/ Report
           \/ Poll \/ Sample \/ Close \/ Check \/ Notified \/ ScopeEnds
           \/ \E t \in Tasks : Task(t)
           \/ UNCHANGED vars
BY DEF Next, Main, Exited

\* Spawn starts the first task that has not been started.
LEMMA SpawnsNext ==
    ASSUME IInv, Spawn
    PROVE  \E k \in Tasks :
              /\ pc[k] = "new"
              /\ \A t \in Tasks : pc[t] = "new" <=> t >= k
              /\ pc' = [pc EXCEPT ![k] = "run"]
              /\ main' = IF k < N THEN "spawn" ELSE IF Idle THEN "poll" ELSE "join"
<1>. DEFINE Next1(t) == pc[t] = "new" /\ \A u \in 1 .. t - 1 : pc[u] # "new"
            first == CHOOSE t \in Tasks : Next1(t)
<1>1. PICK k \in Tasks : \A t \in Tasks : pc[t] = "new" <=> t >= k
  BY DEF IInv, Spawned, Spawn
<1>2. Next1(k)
  BY <1>1 DEF Tasks
<1>3. first \in Tasks /\ Next1(first)
  BY <1>2
<1>4. first = k
  <2>1. first >= k
    BY <1>1, <1>3
  <2>2. ~(k < first)
    BY <1>1, <1>2, <1>3 DEF Tasks
  <2>. QED  BY <1>3, <2>1, <2>2 DEF Tasks
<1>5. /\ pc' = [pc EXCEPT ![first] = "run"]
      /\ main' = IF first < N THEN "spawn" ELSE IF Idle THEN "poll" ELSE "join"
  BY DEF Spawn
<1>. HIDE DEF first
<1>. QED  BY <1>1, <1>2, <1>4, <1>5

\* The main task's other steps, apart from the second pass.
LEMMA MainMoves ==
    ASSUME \/ Join \/ WaitSlots \/ Report
           \/ Poll \/ Sample \/ Close \/ Check \/ Notified \/ ScopeEnds
    PROVE  /\ UNCHANGED <<pattern, size, twice, pc, group, slot, lock, parked, finished>>
           /\ main # "spawn" /\ main' # "spawn"
BY DEF Join, WaitSlots, Report, Poll, Sample, Close, Check, Notified, ScopeEnds,
       MainStep, setup, adds, lock, gate

\* The move of one task, which is somewhere between its spawn and its end.
LEMMA TaskMoves ==
    ASSUME IInv, NEW t \in Tasks, Task(t)
    PROVE  /\ UNCHANGED <<pattern, size, twice, joined, sum, closed>>
           /\ \A u \in Tasks \ {t} : pc'[u] = pc[u]
           /\ pc' = [pc EXCEPT ![t] = pc'[t]]
           /\ pc[t] \notin {"new", "end"} /\ pc'[t] # "new"
           /\ main' = main \/ (main = "waiting" /\ main' = "check")
<1>0. pc \in [Tasks -> {"new", "run", "done", "read", "write", "counted",
                       "blocked", "finish", "notify", "end"}]
  BY Types DEF IInv
<1>1. /\ UNCHANGED <<pattern, size, twice, joined, sum, closed>>
      /\ main' = main \/ (main = "waiting" /\ main' = "check")
  BY DEF Task, Result, Done, Lock, Read, WriteUnlock, LastIncrement, CountParked, Block, Pass,
         CountFinished, NotifyOne, setup, adds, gate
<1>2. PICK from \in {"run", "done", "read", "write", "counted", "blocked", "finish", "notify"},
           to \in {"run", "done", "read", "write", "counted", "blocked", "finish", "notify", "end"} :
         Step(t, from, to)
  BY DEF Task, Result, Done, Lock, Read, WriteUnlock, LastIncrement, CountParked, Block, Pass,
         CountFinished, NotifyOne
<1>3. pc[t] = from /\ pc'[t] = to /\ pc' = [pc EXCEPT ![t] = pc'[t]]
  BY <1>0, <1>2 DEF Step
<1>. QED  BY <1>0, <1>1, <1>3

\* The first state of the second pass.
LEMMA SecondPassStarts ==
    ASSUME SecondPass
    PROVE  /\ main = "again" /\ main' = "spawn" /\ joined' = 0
           /\ group' = IF pattern = "slots" THEN N ELSE 0
           /\ pc' = [t \in Tasks |-> "new"] /\ slot' = [t \in Tasks |-> {}]
           /\ sum' = [i \in Items |-> 0]
           /\ UNCHANGED <<pattern, size, twice, lock, gate>>
BY DEF SecondPass, Fresh, setup

-----------------------------------------------------------------------------

LEMMA NextPatterns == IInv /\ [Next]_vars => Patterns'
<1>. SUFFICES ASSUME IInv, [Next]_vars PROVE Patterns'
  OBVIOUS
<1>0. TypeOK /\ Patterns
  BY DEF IInv
<1>a. pc \in [Tasks -> {"new", "run", "done", "read", "write", "counted",
                       "blocked", "finish", "notify", "end"}]
  BY <1>0, Types
<1>1. CASE Spawn
  <2>1. PICK k \in Tasks :
           /\ pc' = [pc EXCEPT ![k] = "run"]
           /\ main' = IF k < N THEN "spawn" ELSE IF Idle THEN "poll" ELSE "join"
    BY <1>1, SpawnsNext
  <2>2. UNCHANGED <<pattern, twice>>
    BY <1>1 DEF Spawn, setup
  <2>. QED  BY <1>0, <1>a, <2>1, <2>2 DEF Patterns, Idle
<1>2. CASE SecondPass
  BY <1>0, <1>2, SecondPassStarts DEF Patterns, Idle
<1>3. CASE \/ Join \/ WaitSlots \/ Report
           \/ Poll \/ Sample \/ Close \/ Check \/ Notified \/ ScopeEnds
  <2>1. UNCHANGED <<pattern, twice, pc>>
    BY <1>3, MainMoves
  <2>2. \/ main' = main
        \/ main = "join" /\ main' \in {"again", "reported"} /\ (main' = "again" => twice)
        \/ main \notin {"spawn", "join", "again", "reported"}
             /\ main' \notin {"spawn", "join", "again"}
    BY <1>3 DEF Join, WaitSlots, Report, Poll, Sample, Close, Check, Notified, ScopeEnds, MainStep
  <2>. QED  BY <1>0, <2>1, <2>2 DEF Patterns, Idle
<1>4. ASSUME NEW t \in Tasks, Task(t) PROVE Patterns'
  <2>1. /\ UNCHANGED <<pattern, twice>>
        /\ \A u \in Tasks \ {t} : pc'[u] = pc[u]
        /\ main' = main \/ (main = "waiting" /\ main' = "check")
    BY <1>4, TaskMoves
  <2>2. /\ pc'[t] = "done" => pattern = "slots"
        /\ pc'[t] \in {"read", "write"} => pattern = "mutex"
        /\ pc'[t] \in {"counted", "blocked", "finish", "notify"} => Idle
    BY <1>0, <1>a, <1>4 DEF Patterns, Task, Result, Done, Lock, Read, WriteUnlock, LastIncrement,
       CountParked, Block, Pass, CountFinished, NotifyOne, Step
  <2>. QED  BY <1>0, <2>1, <2>2 DEF Patterns, Idle
<1>5. CASE UNCHANGED vars
  BY <1>0, <1>5 DEF Patterns, Idle, vars, setup
<1>. QED  BY <1>1, <1>2, <1>3, <1>4, <1>5, NextCases

LEMMA NextSpawned == IInv /\ [Next]_vars => Spawned'
<1>. SUFFICES ASSUME IInv, [Next]_vars PROVE Spawned'
  OBVIOUS
<1>0. TypeOK /\ Spawned
  BY DEF IInv
<1>a. pc \in [Tasks -> {"new", "run", "done", "read", "write", "counted",
                       "blocked", "finish", "notify", "end"}]
  BY <1>0, Types
<1>1. CASE Spawn
  <2>1. PICK k \in Tasks :
           /\ \A t \in Tasks : pc[t] = "new" <=> t >= k
           /\ pc' = [pc EXCEPT ![k] = "run"]
           /\ main' = IF k < N THEN "spawn" ELSE IF Idle THEN "poll" ELSE "join"
    BY <1>1, SpawnsNext
  <2>2. \A t \in Tasks : pc'[t] = "new" <=> t >= k + 1
    BY <1>a, <2>1 DEF Tasks
  <2>3. k < N => k + 1 \in Tasks
    BY DEF Tasks
  <2>4. ~(k < N) => \A t \in Tasks : ~(t >= k + 1)
    BY DEF Tasks
  <2>. QED  BY <2>1, <2>2, <2>3, <2>4 DEF Spawned
<1>2. CASE SecondPass
  <2>1. 1 \in Tasks /\ \A t \in Tasks : t >= 1
    BY DEF Tasks
  <2>. QED  BY <1>2, <2>1, SecondPassStarts DEF Spawned
<1>3. CASE \/ Join \/ WaitSlots \/ Report
           \/ Poll \/ Sample \/ Close \/ Check \/ Notified \/ ScopeEnds
  BY <1>0, <1>3, MainMoves DEF Spawned
<1>4. ASSUME NEW t \in Tasks, Task(t) PROVE Spawned'
  <2>1. /\ \A u \in Tasks : pc'[u] = "new" <=> pc[u] = "new"
        /\ main' = "spawn" <=> main = "spawn"
    BY <1>4, TaskMoves
  <2>. QED  BY <1>0, <2>1 DEF Spawned
<1>5. CASE UNCHANGED vars
  BY <1>0, <1>5 DEF Spawned, vars
<1>. QED  BY <1>1, <1>2, <1>3, <1>4, <1>5, NextCases

\* Which steps tasks of each pattern take.
LEMMA TaskPatterns ==
    ASSUME IInv, NEW t \in Tasks
    PROVE  /\ Result(t) => pattern \in {"handles", "slots"}
           /\ Done(t) => pattern = "slots"
           /\ Lock(t) \/ Read(t) \/ WriteUnlock(t) \/ LastIncrement(t) => pattern = "mutex"
           /\ CountParked(t) \/ Block(t) \/ Pass(t) \/ CountFinished(t) \/ NotifyOne(t) => Idle
BY DEF IInv, Patterns, Result, Done, Lock, Read, WriteUnlock, LastIncrement,
       CountParked, Block, Pass, CountFinished, NotifyOne, Step

LEMMA Subsets ==
    ASSUME NEW S \in SUBSET Tasks
    PROVE  IsFiniteSet(S) /\ Cardinality(S) \in 0 .. N
<1>1. IsFiniteSet(S) /\ Cardinality(S) <= N
  BY Sets, FS_Subset
<1>2. Cardinality(S) \in Nat
  BY <1>1, FS_CardinalityType
<1>. QED  BY <1>1, <1>2

LEMMA NextResults == IInv /\ [Next]_vars => Results'
<1>. SUFFICES ASSUME IInv, [Next]_vars PROVE Results'
  OBVIOUS
<1>0. TypeOK /\ MoreTypes /\ Results
  BY DEF IInv
<1>a. pc \in [Tasks -> {"new", "run", "done", "read", "write", "counted",
                       "blocked", "finish", "notify", "end"}]
  BY <1>0, Types
<1>1. CASE Spawn
  <2>1. PICK k \in Tasks : pc[k] = "new" /\ pc' = [pc EXCEPT ![k] = "run"]
    BY <1>1, SpawnsNext
  <2>2. UNCHANGED <<pattern, size, group, slot>>
    BY <1>1 DEF Spawn, setup, adds
  <2>3. Unfinished' = Unfinished
    BY <1>a, <2>1 DEF Unfinished
  <2>4. \A t \in Tasks : pc'[t] \in {"done", "end"} => pc[t] \in {"done", "end"}
    BY <1>a, <2>1
  <2>. QED  BY <1>0, <2>2, <2>3, <2>4 DEF Results
<1>2. CASE SecondPass
  <2>1. Unfinished' = Tasks
    BY <1>2, SecondPassStarts DEF Unfinished
  <2>. QED  BY <1>2, <2>1, Sets, SecondPassStarts DEF Results
<1>3. CASE \/ Join \/ WaitSlots \/ Report
           \/ Poll \/ Sample \/ Close \/ Check \/ Notified \/ ScopeEnds
  BY <1>0, <1>3, MainMoves DEF Results, Unfinished
<1>4. ASSUME NEW t \in Tasks, Result(t) PROVE Results'
  <2>1. /\ UNCHANGED <<pattern, size, group>>
        /\ slot' = [slot EXCEPT ![t] = chunk_bounds(size, N, t - 1)]
        /\ pc[t] = "run" /\ pc' = [pc EXCEPT ![t] = IF pattern = "slots" THEN "done" ELSE "end"]
    BY <1>4 DEF Result, Step, setup
  <2>2. pattern = "slots" => Unfinished' = Unfinished
    BY <1>a, <2>1 DEF Unfinished
  <2>3. \A u \in Tasks : u # t => slot'[u] = slot[u] /\ pc'[u] = pc[u]
    BY <2>1
  <2>4. slot'[t] = chunk_bounds(size, N, t - 1)
    BY <1>0, <2>1 DEF MoreTypes
  <2>. QED  BY <1>0, <2>1, <2>2, <2>3, <2>4 DEF Results
<1>5. ASSUME NEW t \in Tasks, Done(t) PROVE Results'
  <2>1. /\ UNCHANGED <<pattern, size, slot>> /\ group' = group - 1
        /\ pc[t] = "done" /\ pc' = [pc EXCEPT ![t] = "end"]
    BY <1>5 DEF Done, Step, setup
  <2>2. pattern = "slots"
    BY <1>5, TaskPatterns
  <2>3. Unfinished' = Unfinished \ {t} /\ t \in Unfinished
    BY <1>a, <2>1 DEF Unfinished
  <2>4. Cardinality(Unfinished)' = Cardinality(Unfinished) - 1
    BY <2>3, Sets, FS_RemoveElement
  <2>5. \A u \in Tasks : pc'[u] \in {"done", "end"} => pc[u] \in {"done", "end"}
    BY <1>a, <2>1
  <2>. QED  BY <1>0, <2>1, <2>2, <2>4, <2>5 DEF Results
<1>6. ASSUME NEW t \in Tasks, Task(t), ~Result(t), ~Done(t) PROVE Results'
  <2>1. pattern \notin {"handles", "slots"}
    BY <1>6, TaskPatterns DEF Task, Idle
  <2>2. UNCHANGED <<pattern, group>>
    BY <1>6 DEF Task, Lock, Read, WriteUnlock, LastIncrement, CountParked, Block, Pass,
       CountFinished, NotifyOne, setup, adds
  <2>. QED  BY <1>0, <2>1, <2>2 DEF Results
<1>7. CASE UNCHANGED vars
  BY <1>0, <1>7 DEF Results, Unfinished, vars, setup, adds
<1>. QED  BY <1>1, <1>2, <1>3, <1>4, <1>5, <1>6, <1>7, NextCases

\* Of the chunks of N tasks one has item i.
LEMMA OneChunk ==
    ASSUME MoreTypes, NEW i \in Items
    PROVE  \E t \in Tasks : \A u \in Tasks : i \in chunk_bounds(size, N, u - 1) <=> u = t
<1>1. PICK d \in 0 .. N - 1 : \A c \in Nat : i \in chunk_bounds(size, N, c) <=> c = d
  <2>1. size \in Nat /\ N \in Nat \ {0} /\ i \in 0 .. size - 1
    BY DEF MoreTypes, Items
  <2>. QED  BY <2>1, ChunksPartition
<1>2. d + 1 \in Tasks
  BY DEF Tasks
<1>3. ASSUME NEW u \in Tasks PROVE i \in chunk_bounds(size, N, u - 1) <=> u = d + 1
  <2>1. u - 1 \in Nat /\ (u - 1 = d <=> u = d + 1)
    BY DEF Tasks
  <2>. QED  BY <1>1, <2>1
<1>. QED  BY <1>2, <1>3

LEMMA JoinAdds ==
    ASSUME IInv, Join
    PROVE  Sums'
<1>0. TypeOK /\ MoreTypes /\ Results /\ Sums
  BY DEF IInv
<1>a. joined \in 0 .. N
  BY <1>0, Types
<1>1. PICK j \in Tasks : j = joined + 1 /\ pc[j] = "end" /\ sum' = Plus(sum, slot[j])
  BY <1>a DEF Join, Tasks
<1>2. /\ UNCHANGED <<pattern, size, main, pc, slot>> /\ main = "join"
      /\ pattern \in {"handles", "mutex"} /\ joined' = joined + 1
  BY DEF Join, setup
<1>3. \A t \in Tasks : t <= joined' <=> t <= joined \/ t = j
  BY <1>a, <1>1, <1>2 DEF Tasks
<1>4. ASSUME pattern = "handles", NEW i \in Items
      PROVE  sum'[i] = IF \E t \in Tasks : t <= joined' /\ i \in slot[t] THEN 1 ELSE 0
  <2>1. sum'[i] = sum[i] + (IF i \in slot[j] THEN 1 ELSE 0)
    BY <1>1 DEF Plus
  <2>2. sum[i] = IF \E t \in Tasks : t <= joined /\ i \in slot[t] THEN 1 ELSE 0
    BY <1>0, <1>4 DEF Sums
  <2>3. PICK o \in Tasks : \A u \in Tasks : i \in chunk_bounds(size, N, u - 1) <=> u = o
    BY <1>0, OneChunk
  <2>4. \A t \in Tasks : t <= joined' => (i \in slot[t] <=> t = o)
    BY <1>0, <1>1, <1>3, <1>4, <2>3 DEF Sums, Results
  <2>5. ~(j <= joined)
    BY <1>a, <1>1
  <2>. QED  BY <1>3, <2>1, <2>2, <2>4, <2>5
<1>5. Items' = Items
  BY <1>2 DEF Items
<1>. QED  BY <1>0, <1>1, <1>2, <1>3, <1>4, <1>5 DEF Sums

LEMMA WaitSlotsAdds ==
    ASSUME IInv, WaitSlots
    PROVE  Sums'
<1>0. TypeOK /\ MoreTypes /\ Results /\ Sums
  BY DEF IInv
<1>1. /\ pattern = "slots" /\ group = 0
      /\ UNCHANGED <<pattern, size, pc, slot, joined>>
      /\ sum' = [i \in Items |-> Cardinality({t \in Tasks : i \in slot[t]})]
  BY DEF WaitSlots, setup
<1>2. \A t \in Tasks : pc[t] = "end"
  <2>1. Cardinality(Unfinished) = 0
    BY <1>0, <1>1 DEF Results
  <2>2. Unfinished = {}
    BY <2>1, Sets, FS_EmptySet
  <2>. QED  BY <2>2 DEF Unfinished
<1>3. ASSUME NEW i \in Items PROVE sum'[i] = 1
  <2>1. PICK o \in Tasks : \A u \in Tasks : i \in chunk_bounds(size, N, u - 1) <=> u = o
    BY <1>0, OneChunk
  <2>2. {t \in Tasks : i \in slot[t]} = {o}
    BY <1>0, <1>1, <1>2, <2>1 DEF Results
  <2>. QED  BY <1>1, <2>2, FS_Singleton
<1>4. Items' = Items
  BY <1>1 DEF Items
<1>. QED  BY <1>0, <1>1, <1>3, <1>4 DEF Sums

LEMMA NextSums == IInv /\ [Next]_vars => Sums'
<1>. SUFFICES ASSUME IInv, [Next]_vars PROVE Sums'
  OBVIOUS
<1>0. TypeOK /\ MoreTypes /\ Patterns /\ Sums
  BY DEF IInv
<1>a. pc \in [Tasks -> {"new", "run", "done", "read", "write", "counted",
                       "blocked", "finish", "notify", "end"}]
  BY <1>0, Types
<1>b. ASSUME UNCHANGED size PROVE Items' = Items
  BY <1>b DEF Items
<1>1. CASE Spawn
  <2>1. PICK k \in Tasks :
           /\ pc[k] = "new" /\ pc' = [pc EXCEPT ![k] = "run"]
           /\ main' \in {"spawn", "poll", "join"}
    BY <1>1, SpawnsNext
  <2>2. UNCHANGED <<pattern, size, joined, sum, slot>>
    BY <1>1 DEF Spawn, setup, adds
  <2>3. \A t \in Tasks : pc[t] = "end" => pc'[t] = "end"
    BY <1>a, <2>1
  <2>. QED  BY <1>0, <1>b, <2>1, <2>2, <2>3 DEF Sums
<1>2. CASE SecondPass
  <2>1. \A t \in Tasks : ~(t <= 0)
    BY DEF Tasks
  <2>. QED  BY <1>2, <1>b, <2>1, SecondPassStarts DEF Sums
<1>3. CASE Join
  BY <1>3, JoinAdds
<1>4. CASE WaitSlots
  BY <1>4, WaitSlotsAdds
<1>5. CASE Report
  <2>1. /\ UNCHANGED <<pattern, size, pc, joined, sum, slot>>
        /\ main = "join" /\ joined = N
    BY <1>5 DEF Report, MainStep, setup, adds
  <2>2. pattern # "slots"
    BY <1>0, <2>1 DEF Sums
  <2>. QED  BY <1>0, <1>b, <2>1, <2>2 DEF Sums
<1>6. CASE Poll \/ Sample \/ Close \/ Check \/ Notified \/ ScopeEnds
  <2>1. UNCHANGED <<pattern, size, pc, joined, sum, slot>>
    BY <1>6 DEF Poll, Sample, Close, Check, Notified, ScopeEnds, setup, adds
  <2>2. Idle
    BY <1>0, <1>6 DEF Poll, Sample, Close, Check, Notified, ScopeEnds, MainStep, Patterns
  <2>. QED  BY <1>0, <1>b, <2>1, <2>2 DEF Sums, Idle
<1>7. ASSUME NEW t \in Tasks, Task(t) PROVE Sums'
  <2>1. /\ UNCHANGED <<pattern, size, joined, sum>>
        /\ \A u \in Tasks \ {t} : pc'[u] = pc[u]
        /\ pc[t] # "end"
        /\ main' = main \/ (main = "waiting" /\ main' = "check")
    BY <1>7, TaskMoves
  <2>2. \A u \in Tasks \ {t} : slot'[u] = slot[u]
    <3>1. UNCHANGED slot \/ \E v : slot' = [slot EXCEPT ![t] = v]
      BY <1>7 DEF Task, Result, Done, Lock, Read, WriteUnlock, LastIncrement, CountParked, Block,
         Pass, CountFinished, NotifyOne, adds
    <3>2. DOMAIN slot = Tasks
      BY <1>0 DEF MoreTypes
    <3>. QED  BY <3>1, <3>2
  <2>3. \A u \in Tasks : u <= joined => u # t
    BY <1>0, <2>1 DEF Sums
  <2>. QED  BY <1>0, <1>b, <2>1, <2>2, <2>3 DEF Sums
<1>8. CASE UNCHANGED vars
  BY <1>0, <1>b, <1>8 DEF Sums, vars, setup, adds
<1>. QED  BY <1>1, <1>2, <1>3, <1>4, <1>5, <1>6, <1>7, <1>8, NextCases

-----------------------------------------------------------------------------
(* The lock and the counter.                                               *)

\* A step that leaves the lock alone and no task with it.
LEMMA LockAside ==
    ASSUME Increments, UNCHANGED <<pattern, lock>>,
           \A t \in Tasks : \/ pc'[t] = pc[t]
                           \/ /\ pc[t] \notin {"read", "write"} /\ pc'[t] \notin {"read", "write"}
                              /\ pattern = "mutex" => pc'[t] # "end"
    PROVE  Increments'
<1>1. Made' = Made
  BY DEF Made, lock
<1>2. \A t \in Tasks : pc'[t] \in {"read", "write"} <=> pc[t] \in {"read", "write"}
  OBVIOUS
<1>3. \A t \in Tasks : pc'[t] = "write" <=> pc[t] = "write"
  OBVIOUS
<1>4. pattern = "mutex" => \A t \in Tasks : pc'[t] = "end" => pc[t] = "end"
  OBVIOUS
<1>. QED  BY <1>1, <1>2, <1>3, <1>4 DEF Increments, lock

LEMMA UnlockMakes ==
    ASSUME IInv, NEW t \in Tasks, WriteUnlock(t)
    PROVE  Made' = Made + 1
<1>1. left \in [Tasks -> 0 .. Times]
  BY Types DEF IInv
<1>2. left[t] \in 1 .. Times
  <2>1. left[t] > 0
    BY DEF IInv, Increments, WriteUnlock, Step
  <2>. QED  BY <1>1, <2>1
<1>3. left' = [left EXCEPT ![t] = left[t] - 1]
  BY DEF WriteUnlock
<1>4. <<t, left[t]>> \notin MadeSet
  BY <1>1 DEF MadeSet
<1>5. MadeSet' = MadeSet \cup {<<t, left[t]>>}
  <2>1. ASSUME NEW u \in Tasks, NEW i \in 1 .. Times
        PROVE  i > left'[u] <=> i > left[u] \/ (u = t /\ i = left[t])
    BY <1>1, <1>2, <1>3
  <2>. QED  BY <1>2, <2>1 DEF MadeSet
<1>6. Cardinality(MadeSet \cup {<<t, left[t]>>}) = Cardinality(MadeSet) + 1
  BY <1>4, Sets, FS_AddElement
<1>. QED  BY <1>5, <1>6 DEF Made, MadeSet

LEMMA NextIncrements == IInv /\ [Next]_vars => Increments'
<1>. SUFFICES ASSUME IInv, [Next]_vars PROVE Increments'
  OBVIOUS
<1>0. TypeOK /\ Patterns /\ Increments
  BY DEF IInv
<1>a. pc \in [Tasks -> {"new", "run", "done", "read", "write", "counted",
                       "blocked", "finish", "notify", "end"}]
  BY <1>0, Types
<1>b. holder = {t \in Tasks : pc[t] \in {"read", "write"}} /\ \A t, u \in holder : t = u
  BY <1>0 DEF Increments
<1>1. CASE Spawn
  <2>1. PICK k \in Tasks : pc[k] = "new" /\ pc' = [pc EXCEPT ![k] = "run"]
    BY <1>1, SpawnsNext
  <2>2. UNCHANGED <<pattern, lock>>
    BY <1>1 DEF Spawn, setup
  <2>3. \A t \in Tasks : t # k => pc'[t] = pc[t]
    BY <1>a, <2>1
  <2>4. pc[k] = "new" /\ pc'[k] = "run"
    BY <1>a, <2>1
  <2>5. \A u \in Tasks : \/ pc'[u] = pc[u]
                          \/ /\ pc[u] \notin {"read", "write"} /\ pc'[u] \notin {"read", "write"}
                             /\ pattern = "mutex" => pc'[u] # "end"
    BY <2>3, <2>4
  <2>. QED  BY <1>0, <2>2, <2>5, LockAside
<1>2. CASE SecondPass
  <2>1. pattern # "mutex"
    BY <1>0, <1>2, SecondPassStarts DEF Patterns
  <2>2. \A t \in Tasks : pc[t] \notin {"read", "write"} /\ pc'[t] = "new"
    BY <1>0, <1>2, <2>1, SecondPassStarts DEF Patterns
  <2>3. UNCHANGED <<pattern, lock>>
    BY <1>2, SecondPassStarts
  <2>4. \A u \in Tasks : \/ pc'[u] = pc[u]
                          \/ /\ pc[u] \notin {"read", "write"} /\ pc'[u] \notin {"read", "write"}
                             /\ pattern = "mutex" => pc'[u] # "end"
    BY <2>2
  <2>. QED  BY <1>0, <2>3, <2>4, LockAside
<1>3. CASE \/ Join \/ WaitSlots \/ Report
           \/ Poll \/ Sample \/ Close \/ Check \/ Notified \/ ScopeEnds
  <2>1. UNCHANGED <<pattern, lock>> /\ UNCHANGED pc
    BY <1>3, MainMoves
  <2>. QED  BY <1>0, <2>1, LockAside
<1>4. ASSUME NEW t \in Tasks, Lock(t) PROVE Increments'
  <2>1. /\ left[t] > 0 /\ holder = {} /\ holder' = {t}
        /\ pc[t] = "run" /\ pc' = [pc EXCEPT ![t] = "read"]
        /\ UNCHANGED <<pattern, left, counter>>
    BY <1>4 DEF Lock, Step, setup
  <2>2. Made' = Made
    BY <2>1 DEF Made
  <2>3. \A u \in Tasks : pc[u] \notin {"read", "write"}
    BY <1>b, <2>1
  <2>4. pc'[t] = "read" /\ \A u \in Tasks : u # t => pc'[u] = pc[u]
    BY <1>a, <2>1
  <2>5. holder' = {u \in Tasks : pc'[u] \in {"read", "write"}}
    BY <2>1, <2>3, <2>4
  <2>6. \A u \in Tasks : pc'[u] # "write"
    BY <2>3, <2>4
  <2>7. \A u \in Tasks : pc'[u] \in {"read", "write"} => left'[u] > 0
    BY <2>1, <2>3, <2>4
  <2>8. pattern' = "mutex" => \A u \in Tasks : pc'[u] = "end" => left'[u] = 0
    BY <1>0, <2>1, <2>4 DEF Increments
  <2>9. counter' = Made' /\ \A u, v \in holder' : u = v
    BY <1>0, <2>1, <2>2 DEF Increments
  <2>. QED  BY <2>5, <2>6, <2>7, <2>8, <2>9 DEF Increments
<1>5. ASSUME NEW t \in Tasks, Read(t) PROVE Increments'
  <2>1. /\ local' = counter
        /\ pc[t] = "read" /\ pc' = [pc EXCEPT ![t] = "write"]
        /\ UNCHANGED <<pattern, holder, left, counter>>
    BY <1>5 DEF Read, Step, setup
  <2>2. Made' = Made
    BY <2>1 DEF Made
  <2>3. pc'[t] = "write" /\ \A u \in Tasks : u # t => pc'[u] = pc[u]
    BY <1>a, <2>1
  <2>4. \A u \in Tasks : pc'[u] \in {"read", "write"} <=> pc[u] \in {"read", "write"}
    BY <2>1, <2>3
  <2>5. \A u \in Tasks : pc'[u] = "end" => pc[u] = "end"
    BY <2>1, <2>3
  <2>6. \A u \in Tasks : pc'[u] \in {"read", "write"} => left'[u] > 0
    BY <1>0, <2>1, <2>4 DEF Increments
  <2>7. pattern' = "mutex" => \A u \in Tasks : pc'[u] = "end" => left'[u] = 0
    BY <1>0, <2>1, <2>5 DEF Increments
  <2>8. /\ counter' = Made' /\ \A u, v \in holder' : u = v
        /\ holder' = {u \in Tasks : pc'[u] \in {"read", "write"}}
    BY <1>0, <2>1, <2>2, <2>4 DEF Increments
  <2>. QED  BY <2>1, <2>6, <2>7, <2>8 DEF Increments
<1>6. ASSUME NEW t \in Tasks, WriteUnlock(t) PROVE Increments'
  <2>1. /\ counter' = local + 1 /\ holder' = holder \ {t}
        /\ left' = [left EXCEPT ![t] = left[t] - 1]
        /\ pc[t] = "write" /\ pc' = [pc EXCEPT ![t] = "run"]
        /\ UNCHANGED <<pattern, local>>
    BY <1>6 DEF WriteUnlock, Step, setup
  <2>2. counter' = Made'
    BY <1>0, <1>6, <2>1, UnlockMakes DEF IInv, Increments
  <2>3. pc'[t] = "run" /\ \A u \in Tasks : u # t => pc'[u] = pc[u] /\ left'[u] = left[u]
    <3>1. left \in [Tasks -> 0 .. Times]
      BY <1>0, Types
    <3>. QED  BY <1>a, <2>1, <3>1
  <2>4. holder = {t}
    BY <1>b, <2>1
  <2>5. \A u \in Tasks : pc'[u] \notin {"read", "write"}
    BY <1>b, <2>3, <2>4
  <2>6. pattern' = "mutex" => \A u \in Tasks : pc'[u] = "end" => left'[u] = 0
    BY <1>0, <2>1, <2>3 DEF Increments
  <2>7. holder' = {}
    BY <2>1, <2>4
  <2>. QED  BY <2>2, <2>5, <2>6, <2>7 DEF Increments
<1>7. ASSUME NEW t \in Tasks, LastIncrement(t) PROVE Increments'
  <2>1. /\ left[t] = 0
        /\ pc[t] = "run" /\ pc' = [pc EXCEPT ![t] = "end"]
        /\ UNCHANGED <<pattern, lock>>
    BY <1>7 DEF LastIncrement, Step, setup
  <2>2. Made' = Made
    BY <2>1 DEF Made, lock
  <2>3. pc'[t] = "end" /\ \A u \in Tasks : u # t => pc'[u] = pc[u]
    BY <1>a, <2>1
  <2>4. \A u \in Tasks : pc'[u] \in {"read", "write"} <=> pc[u] \in {"read", "write"}
    BY <2>1, <2>3
  <2>5. \A u \in Tasks : pc'[u] = "write" <=> pc[u] = "write"
    BY <2>1, <2>3
  <2>6. pattern = "mutex" => \A u \in Tasks : pc'[u] = "end" => left[u] = 0
    BY <1>0, <2>1, <2>3 DEF Increments
  <2>. QED  BY <1>0, <2>1, <2>2, <2>4, <2>5, <2>6 DEF Increments, lock
<1>8. ASSUME NEW t \in Tasks, Task(t), ~Lock(t), ~Read(t), ~WriteUnlock(t), ~LastIncrement(t)
      PROVE  Increments'
  <2>1. pattern # "mutex"
    BY <1>8, TaskPatterns DEF Task, Idle
  <2>2. UNCHANGED <<pattern, lock>> /\ \A u \in Tasks : u # t => pc'[u] = pc[u]
    <3>1. UNCHANGED <<pattern, lock>>
      BY <1>8 DEF Task, Result, Done, CountParked, Block, Pass, CountFinished, NotifyOne, setup
    <3>. QED  BY <1>8, <3>1, TaskMoves
  <2>3. pc[t] \notin {"read", "write"} /\ pc'[t] \notin {"read", "write"}
    BY <1>a, <1>8 DEF Task, Result, Done, CountParked, Block, Pass, CountFinished, NotifyOne, Step
  <2>. QED  BY <1>0, <2>1, <2>2, <2>3, LockAside
<1>9. CASE UNCHANGED vars
  <2>1. UNCHANGED <<pattern, lock>> /\ UNCHANGED pc
    BY <1>9 DEF vars, setup
  <2>. QED  BY <1>0, <2>1, LockAside
<1>. QED  BY <1>1, <1>2, <1>3, <1>4, <1>5, <1>6, <1>7, <1>8, <1>9, NextCases

-----------------------------------------------------------------------------
(* The gate of idle.                                                       *)

\* A step that moves no task past a count, and the main task not at all.
LEMMA GateAside ==
    ASSUME Gate, UNCHANGED <<pattern, main, gate>>,
           \A t \in Tasks : \/ pc'[t] = pc[t]
                           \/ /\ t \in Counted <=> t \in Counted'
                              /\ t \in Leavers <=> t \in Leavers'
                              /\ pc'[t] = "finish" => closed
                           \/ ~Idle
    PROVE  Gate'
<1>1. Idle => Counted' = Counted /\ Leavers' = Leavers
  BY DEF Counted, Leavers
<1>2. Idle => \A t \in Tasks : pc'[t] \in {"finish", "notify", "end"} => closed
  <2>. SUFFICES ASSUME Idle, NEW t \in Tasks, pc'[t] \in {"finish", "notify", "end"} PROVE closed
    OBVIOUS
  <2>. QED  BY DEF Gate, Leavers
<1>3. Idle' = Idle
  BY DEF Idle
<1>. QED  BY <1>1, <1>2, <1>3 DEF Gate, gate

\* A step of the main task in idle that leaves the tasks and their counts.
LEMMA GateMainMoves ==
    ASSUME IInv, Idle, UNCHANGED <<pattern, pc, parked, finished>>,
           closed' \in BOOLEAN, closed => closed',
           closed' => main' \notin {"spawn", "poll", "sample", "close"},
           main' \in {"sample", "close"} => parked = N,
           main' = "reported" => finished = N
    PROVE  Gate'
<1>1. Gate
  BY DEF IInv
<1>2. Idle' = Idle /\ Counted' = Counted /\ Leavers' = Leavers
  BY DEF Idle, Counted, Leavers
<1>. QED  BY <1>1, <1>2 DEF Gate

LEMMA CountParkedCounts ==
    ASSUME IInv, NEW t \in Tasks, CountParked(t)
    PROVE  Gate'
<1>0. TypeOK /\ Gate
  BY DEF IInv
<1>a. pc \in [Tasks -> {"new", "run", "done", "read", "write", "counted",
                       "blocked", "finish", "notify", "end"}]
  BY <1>0, Types
<1>1. /\ Idle /\ UNCHANGED <<pattern, main, finished, closed>> /\ parked' = parked + 1
      /\ pc[t] = "run" /\ pc' = [pc EXCEPT ![t] = "counted"]
  BY DEF CountParked, Step, setup
<1>2. Counted' = Counted \cup {t} /\ t \notin Counted
  BY <1>a, <1>1 DEF Counted
<1>3. Leavers' = Leavers
  BY <1>a, <1>1 DEF Leavers
<1>4. Cardinality(Counted \cup {t}) = Cardinality(Counted) + 1
  BY <1>2, Sets, FS_AddElement
<1>5. parked # N
  <2>1. parked = Cardinality(Counted)
    BY <1>0, <1>1 DEF Gate
  <2>2. Counted \in SUBSET Tasks /\ Counted # Tasks
    BY <1>2 DEF Counted
  <2>. QED  BY <2>1, <2>2, AllTasks
<1>6. \A u \in Tasks : pc'[u] \in {"finish", "notify", "end"} => pc[u] \in {"finish", "notify", "end"}
  BY <1>a, <1>1
<1>7. parked' = Cardinality(Counted') /\ finished' = Cardinality(Leavers')
  BY <1>0, <1>1, <1>2, <1>3, <1>4 DEF Gate
<1>8. main \notin {"sample", "close"}
  BY <1>0, <1>5 DEF Gate
<1>9. Idle'
  BY <1>1 DEF Idle
<1>. QED  BY <1>0, <1>1, <1>6, <1>7, <1>8, <1>9 DEF Gate

LEMMA CountFinishedCounts ==
    ASSUME IInv, NEW t \in Tasks, CountFinished(t)
    PROVE  Gate'
<1>0. TypeOK /\ Gate
  BY DEF IInv
<1>a. pc \in [Tasks -> {"new", "run", "done", "read", "write", "counted",
                       "blocked", "finish", "notify", "end"}]
  BY <1>0, Types
<1>1. /\ Idle /\ UNCHANGED <<pattern, main, parked, closed>> /\ finished' = finished + 1
      /\ pc[t] = "finish"
  BY TaskPatterns DEF CountFinished, Step, setup
<1>2. PICK to \in {"notify", "end"} : pc' = [pc EXCEPT ![t] = to]
  BY DEF CountFinished, Step
<1>3. Leavers' = Leavers \cup {t} /\ t \notin Leavers
  BY <1>a, <1>1, <1>2 DEF Leavers
<1>4. Counted' = Counted
  BY <1>a, <1>1, <1>2 DEF Counted
<1>5. Cardinality(Leavers \cup {t}) = Cardinality(Leavers) + 1
  BY <1>3, Sets, FS_AddElement
<1>6. finished # N
  <2>1. finished = Cardinality(Leavers)
    BY <1>0, <1>1 DEF Gate
  <2>2. Leavers \in SUBSET Tasks /\ Leavers # Tasks
    BY <1>3 DEF Leavers
  <2>. QED  BY <2>1, <2>2, AllTasks
<1>7. parked' = Cardinality(Counted') /\ finished' = Cardinality(Leavers')
  BY <1>0, <1>1, <1>3, <1>4, <1>5 DEF Gate
<1>8. main # "reported" /\ closed
  BY <1>0, <1>1, <1>6 DEF Gate
<1>9. Idle'
  BY <1>1 DEF Idle
<1>. QED  BY <1>0, <1>1, <1>7, <1>8, <1>9 DEF Gate

LEMMA NotifyOneLeaves ==
    ASSUME IInv, NEW t \in Tasks, NotifyOne(t)
    PROVE  Gate'
<1>0. TypeOK /\ Gate
  BY DEF IInv
<1>a. pc \in [Tasks -> {"new", "run", "done", "read", "write", "counted",
                       "blocked", "finish", "notify", "end"}]
  BY <1>0, Types
<1>1. /\ Idle /\ UNCHANGED <<pattern, parked, finished, closed>>
      /\ pc[t] = "notify" /\ pc' = [pc EXCEPT ![t] = "end"]
      /\ main' = main \/ main' = "check"
  BY TaskPatterns DEF NotifyOne, Step, setup
<1>2. Counted' = Counted /\ Leavers' = Leavers
  BY <1>a, <1>1 DEF Counted, Leavers
<1>3. \A u \in Tasks : pc'[u] \in {"finish", "notify", "end"} => closed
  BY <1>0, <1>1 DEF Gate
<1>4. Idle'
  BY <1>1 DEF Idle
<1>. QED  BY <1>0, <1>1, <1>2, <1>3, <1>4 DEF Gate

LEMMA NextGate == IInv /\ [Next]_vars => Gate'
<1>. SUFFICES ASSUME IInv, [Next]_vars PROVE Gate'
  OBVIOUS
<1>0. TypeOK /\ MoreTypes /\ Patterns /\ Gate
  BY DEF IInv
<1>a. pc \in [Tasks -> {"new", "run", "done", "read", "write", "counted",
                       "blocked", "finish", "notify", "end"}]
  BY <1>0, Types
<1>b. closed \in BOOLEAN
  BY <1>0 DEF MoreTypes
<1>1. CASE Spawn
  <2>1. PICK k \in Tasks :
           /\ pc[k] = "new" /\ pc' = [pc EXCEPT ![k] = "run"]
           /\ main' = IF k < N THEN "spawn" ELSE IF Idle THEN "poll" ELSE "join"
    BY <1>1, SpawnsNext
  <2>2. UNCHANGED <<pattern, gate>> /\ main = "spawn"
    BY <1>1 DEF Spawn, setup
  <2>3. Counted' = Counted /\ Leavers' = Leavers
    BY <1>a, <2>1 DEF Counted, Leavers
  <2>4. \A u \in Tasks : pc'[u] \in {"finish", "notify", "end"} => pc[u] \in {"finish", "notify", "end"}
    BY <1>a, <2>1
  <2>5. ~closed
    BY <1>0, <2>2 DEF Gate
  <2>6. Idle' = Idle
    BY <2>2 DEF Idle
  <2>. QED  BY <1>0, <2>1, <2>2, <2>3, <2>4, <2>5, <2>6 DEF Gate, gate
<1>2. CASE SecondPass
  <2>1. ~Idle /\ UNCHANGED <<pattern, gate>>
    BY <1>0, <1>2, SecondPassStarts DEF Patterns
  <2>2. Idle' = Idle
    BY <2>1 DEF Idle
  <2>3. main' = "spawn"
    BY <1>2, SecondPassStarts
  <2>. QED  BY <1>0, <2>1, <2>2, <2>3 DEF Gate, gate
<1>3. CASE Join \/ WaitSlots \/ Report
  <2>1. UNCHANGED <<pattern, gate>>
    BY <1>3 DEF Join, WaitSlots, Report, setup
  <2>2. main = "join" /\ main' \in {"join", "again", "reported"}
    BY <1>3 DEF Join, WaitSlots, Report, MainStep
  <2>3. ~Idle
    BY <1>0, <2>2 DEF Patterns
  <2>4. Idle' = Idle
    BY <2>1 DEF Idle
  <2>. QED  BY <1>0, <2>1, <2>2, <2>3, <2>4 DEF Gate, gate
<1>4. CASE Poll \/ Sample \/ Close \/ Check \/ Notified \/ ScopeEnds
  <2>1. UNCHANGED <<pattern, pc, parked, finished>>
    BY <1>4, MainMoves
  <2>2. main \in {"poll", "sample", "close", "check", "notified"}
    BY <1>4 DEF Poll, Sample, Close, Check, Notified, ScopeEnds, MainStep
  <2>3. Idle
    BY <1>0, <2>2 DEF Patterns
  <2>4. CASE Poll
    <3>1. main = "poll" /\ main' = "sample" /\ parked = N /\ closed' = closed
      BY <2>4 DEF Poll, MainStep, gate
    <3>2. ~closed
      BY <1>0, <3>1 DEF Gate
    <3>. QED  BY <1>b, <2>1, <2>3, <3>1, <3>2, GateMainMoves
  <2>5. CASE Sample
    <3>1. main = "sample" /\ main' = "close" /\ closed' = closed
      BY <2>5 DEF Sample, MainStep, gate
    <3>2. ~closed /\ parked = N
      BY <1>0, <3>1 DEF Gate
    <3>. QED  BY <1>b, <2>1, <2>3, <3>1, <3>2, GateMainMoves
  <2>6. CASE Close
    <3>1. main' = "check" /\ closed' = TRUE
      BY <2>6 DEF Close, MainStep
    <3>. QED  BY <1>b, <2>1, <2>3, <3>1, GateMainMoves
  <2>7. CASE Check
    <3>1. main' = (IF finished < N THEN "notified" ELSE "reported") /\ closed' = closed
      BY <2>7 DEF Check, MainStep, gate
    <3>2. finished \in 0 .. N
      BY <1>0, <2>3, Sets DEF Gate
    <3>3. main' = "reported" => finished = N
      BY <3>1, <3>2
    <3>4. main' \in {"notified", "reported"}
      BY <3>1
    <3>. QED  BY <1>b, <2>1, <2>3, <3>1, <3>3, <3>4, GateMainMoves
  <2>8. CASE Notified
    <3>1. main' \in {"check", "waiting"} /\ closed' = closed
      BY <2>8 DEF Notified, MainStep
    <3>. QED  BY <1>b, <2>1, <2>3, <3>1, GateMainMoves
  <2>9. CASE ScopeEnds
    <3>1. main' = "reported" /\ closed' = closed /\ \A t \in Tasks : pc[t] = "end"
      BY <2>9 DEF ScopeEnds, MainStep, gate
    <3>2. Leavers = Tasks
      BY <3>1 DEF Leavers
    <3>3. finished = N
      BY <1>0, <2>3, <3>2, Sets DEF Gate
    <3>. QED  BY <1>b, <2>1, <2>3, <3>1, <3>3, GateMainMoves
  <2>. QED  BY <1>4, <2>4, <2>5, <2>6, <2>7, <2>8, <2>9
<1>5. ASSUME NEW t \in Tasks, Block(t) \/ Pass(t) PROVE Gate'
  <2>1. UNCHANGED <<pattern, main, gate>> /\ pc[t] \in {"counted", "blocked"}
    BY <1>5 DEF Block, Pass, Step, setup
  <2>2. PICK to \in {"blocked", "finish"} : pc' = [pc EXCEPT ![t] = to] /\ (to = "finish" => closed)
    BY <1>5 DEF Block, Pass, Step
  <2>3. pc'[t] = to /\ \A u \in Tasks : u # t => pc'[u] = pc[u]
    BY <1>a, <2>2
  <2>4. t \in Counted /\ t \in Counted' /\ t \notin Leavers /\ t \notin Leavers'
    BY <2>1, <2>3 DEF Counted, Leavers
  <2>5. \A u \in Tasks : \/ pc'[u] = pc[u]
                          \/ /\ u \in Counted <=> u \in Counted'
                             /\ u \in Leavers <=> u \in Leavers'
                             /\ pc'[u] = "finish" => closed
                          \/ ~Idle
    BY <2>2, <2>3, <2>4
  <2>. QED  BY <1>0, <2>1, <2>5, GateAside
<1>6. ASSUME NEW t \in Tasks, Task(t), ~Block(t), ~Pass(t), ~CountParked(t), ~CountFinished(t),
             ~NotifyOne(t)
      PROVE  Gate'
  <2>1. ~Idle
    BY <1>6, TaskPatterns DEF Task, Idle
  <2>2. UNCHANGED <<pattern, main, gate>>
    BY <1>6 DEF Task, Result, Done, Lock, Read, WriteUnlock, LastIncrement, setup
  <2>. QED  BY <1>0, <2>1, <2>2, GateAside
<1>7. CASE UNCHANGED vars
  <2>1. UNCHANGED <<pattern, main, gate>> /\ UNCHANGED pc
    BY <1>7 DEF vars, setup
  <2>. QED  BY <1>0, <2>1, GateAside
<1>. QED  BY <1>1, <1>2, <1>3, <1>4, <1>5, <1>6, <1>7, NextCases, CountParkedCounts,
             CountFinishedCounts, NotifyOneLeaves DEF Task

-----------------------------------------------------------------------------
(* The types.                                                              *)

LEMMA NextPc ==
    ASSUME IInv, [Next]_vars
    PROVE  pc' \in [Tasks -> {"new", "run", "done", "read", "write", "counted",
                              "blocked", "finish", "notify", "end"}]
<1>a. pc \in [Tasks -> {"new", "run", "done", "read", "write", "counted",
                       "blocked", "finish", "notify", "end"}]
  BY Types DEF IInv
<1>1. CASE Spawn
  <2>1. PICK k \in Tasks : pc' = [pc EXCEPT ![k] = "run"]
    BY <1>1, SpawnsNext
  <2>. QED  BY <1>a, <2>1
<1>2. CASE SecondPass
  BY <1>2, SecondPassStarts
<1>3. CASE \/ Join \/ WaitSlots \/ Report
           \/ Poll \/ Sample \/ Close \/ Check \/ Notified \/ ScopeEnds
  BY <1>a, <1>3, MainMoves
<1>4. ASSUME NEW t \in Tasks, Task(t)
      PROVE  pc' \in [Tasks -> {"new", "run", "done", "read", "write", "counted",
                                "blocked", "finish", "notify", "end"}]
  <2>1. PICK to \in {"run", "done", "read", "write", "counted", "blocked", "finish", "notify", "end"} :
           pc' = [pc EXCEPT ![t] = to]
    BY <1>4 DEF Task, Result, Done, Lock, Read, WriteUnlock, LastIncrement, CountParked, Block,
       Pass, CountFinished, NotifyOne, Step
  <2>. QED  BY <1>a, <2>1
<1>5. CASE UNCHANGED vars
  BY <1>a, <1>5 DEF vars
<1>. QED  BY <1>1, <1>2, <1>3, <1>4, <1>5, NextCases

LEMMA NextMain ==
    ASSUME IInv, [Next]_vars
    PROVE  main' \in {"spawn", "join", "again", "poll", "sample", "close", "check",
                      "notified", "waiting", "reported"}
<1>a. main \in {"spawn", "join", "again", "poll", "sample", "close", "check",
                "notified", "waiting", "reported"}
  BY Types DEF IInv
<1>1. CASE Spawn
  BY <1>1 DEF Spawn
<1>2. CASE SecondPass
  BY <1>2, SecondPassStarts
<1>3. CASE \/ Join \/ WaitSlots \/ Report
           \/ Poll \/ Sample \/ Close \/ Check \/ Notified \/ ScopeEnds
  BY <1>a, <1>3 DEF Join, WaitSlots, Report, Poll, Sample, Close, Check, Notified, ScopeEnds,
     MainStep
<1>4. ASSUME NEW t \in Tasks, Task(t) PROVE main' = main \/ main' = "check"
  BY <1>4, TaskMoves
<1>5. CASE UNCHANGED vars
  BY <1>a, <1>5 DEF vars
<1>. QED  BY <1>a, <1>1, <1>2, <1>3, <1>4, <1>5, NextCases

LEMMA NextLeft ==
    ASSUME IInv, [Next]_vars
    PROVE  left' \in [Tasks -> 0 .. Times]
<1>a. left \in [Tasks -> 0 .. Times]
  BY Types DEF IInv
<1>1. ASSUME NEW t \in Tasks, WriteUnlock(t) PROVE left' \in [Tasks -> 0 .. Times]
  <2>1. left' = [left EXCEPT ![t] = left[t] - 1] /\ left[t] > 0
    BY <1>1 DEF WriteUnlock, Step, IInv, Increments
  <2>2. left[t] - 1 \in 0 .. Times
    BY <1>a, <2>1
  <2>. QED  BY <1>a, <2>1, <2>2
<1>2. ASSUME NEW t \in Tasks, Task(t), ~WriteUnlock(t) PROVE left' = left
  BY <1>2 DEF Task, Result, Done, Lock, Read, LastIncrement, CountParked, Block,
     Pass, CountFinished, NotifyOne, lock
<1>3. CASE \/ Spawn \/ SecondPass \/ Join \/ WaitSlots \/ Report
           \/ Poll \/ Sample \/ Close \/ Check \/ Notified \/ ScopeEnds \/ UNCHANGED vars
  BY <1>a, <1>3 DEF Spawn, SecondPass, Join, WaitSlots, Report, Poll, Sample, Close, Check,
     Notified, ScopeEnds, vars, lock
<1>. QED  BY <1>a, <1>1, <1>2, <1>3, NextCases

LEMMA NextJoined ==
    ASSUME IInv, [Next]_vars
    PROVE  joined' \in 0 .. N
<1>a. joined \in 0 .. N
  BY Types DEF IInv
<1>1. CASE Join
  BY <1>a, <1>1 DEF Join
<1>2. CASE SecondPass
  BY <1>2, SecondPassStarts
<1>3. ASSUME NEW t \in Tasks, Task(t) PROVE joined' = joined
  BY <1>3, TaskMoves
<1>4. CASE \/ Spawn \/ WaitSlots \/ Report
           \/ Poll \/ Sample \/ Close \/ Check \/ Notified \/ ScopeEnds \/ UNCHANGED vars
  BY <1>a, <1>4 DEF Spawn, WaitSlots, Report, Poll, Sample, Close, Check, Notified, ScopeEnds,
     vars, adds
<1>. QED  BY <1>a, <1>1, <1>2, <1>3, <1>4, NextCases

LEMMA NextTypeOK == IInv /\ [Next]_vars => TypeOK'
<1>. SUFFICES ASSUME IInv, [Next]_vars PROVE TypeOK'
  OBVIOUS
<1>1. Results' /\ Gate'
  BY NextResults, NextGate
<1>2. /\ Cardinality(Unfinished') \in 0 .. N
      /\ Cardinality(Counted') \in 0 .. N
      /\ Cardinality(Leavers') \in 0 .. N
  <2>1. /\ Unfinished' \in SUBSET Tasks
        /\ Counted' \in SUBSET Tasks
        /\ Leavers' \in SUBSET Tasks
    BY DEF Unfinished, Counted, Leavers
  <2>. QED  BY <2>1, Subsets
<1>3. group' \in 0 .. N
  <2>1. group' = IF pattern' = "slots" THEN Cardinality(Unfinished') ELSE 0
    BY <1>1 DEF Results
  <2>. QED  BY <1>2, <2>1
<1>4. parked' \in 0 .. N /\ finished' \in 0 .. N
  <2>1. /\ parked' = IF Idle' THEN Cardinality(Counted') ELSE 0
        /\ finished' = IF Idle' THEN Cardinality(Leavers') ELSE 0
    BY <1>1 DEF Gate
  <2>. QED  BY <1>2, <2>1
<1>. QED  BY <1>3, <1>4, NextPc, NextMain, NextLeft, NextJoined, Zenon DEF TypeOK

LEMMA NextSum ==
    ASSUME IInv, [Next]_vars
    PROVE  sum' \in [Items' -> Nat] /\ DOMAIN slot' = Tasks /\ UNCHANGED <<pattern, size, twice>>
<1>0. MoreTypes
  BY DEF IInv
<1>a. sum \in [Items -> Nat] /\ DOMAIN slot = Tasks
  BY <1>0 DEF MoreTypes
<1>b. ASSUME UNCHANGED size PROVE Items' = Items
  BY <1>b DEF Items
<1>1. CASE Join
  <2>1. PICK v : sum' = Plus(sum, v)
    BY <1>1 DEF Join
  <2>2. sum' \in [Items -> Nat]
    BY <1>a, <2>1 DEF Plus
  <2>3. UNCHANGED <<pattern, size, twice, slot>>
    BY <1>1 DEF Join, setup
  <2>. QED  BY <1>a, <1>b, <2>2, <2>3
<1>2. CASE WaitSlots
  <2>1. \A i \in Items : Cardinality({t \in Tasks : i \in slot[t]}) \in Nat
    <3>. TAKE i \in Items
    <3>1. PICK S \in SUBSET Tasks : S = {t \in Tasks : i \in slot[t]}
      OBVIOUS
    <3>. QED  BY <3>1, Subsets
  <2>2. sum' \in [Items -> Nat]
    BY <1>2, <2>1 DEF WaitSlots
  <2>3. UNCHANGED <<pattern, size, twice, slot>>
    BY <1>2 DEF WaitSlots, setup
  <2>. QED  BY <1>a, <1>b, <2>2, <2>3
<1>3. CASE SecondPass
  <2>1. sum' \in [Items -> Nat] /\ DOMAIN slot' = Tasks
    BY <1>3, SecondPassStarts
  <2>. QED  BY <1>3, <1>b, <2>1, SecondPassStarts
<1>4. ASSUME NEW t \in Tasks, Task(t)
      PROVE  sum' \in [Items' -> Nat] /\ DOMAIN slot' = Tasks /\ UNCHANGED <<pattern, size, twice>>
  <2>1. UNCHANGED slot \/ \E v : slot' = [slot EXCEPT ![t] = v]
    BY <1>4 DEF Task, Result, Done, Lock, Read, WriteUnlock, LastIncrement, CountParked, Block,
       Pass, CountFinished, NotifyOne, adds
  <2>. QED  BY <1>4, <1>a, <1>b, <2>1, TaskMoves
<1>5. CASE \/ Spawn \/ Report
           \/ Poll \/ Sample \/ Close \/ Check \/ Notified \/ ScopeEnds \/ UNCHANGED vars
  <2>1. UNCHANGED <<pattern, size, twice, sum, slot>>
    BY <1>5 DEF Spawn, Report, Poll, Sample, Close, Check, Notified, ScopeEnds, vars, setup, adds
  <2>. QED  BY <1>a, <1>b, <2>1
<1>. QED  BY <1>1, <1>2, <1>3, <1>4, <1>5, NextCases

LEMMA NextMoreTypes == IInv /\ [Next]_vars => MoreTypes'
<1>. SUFFICES ASSUME IInv, [Next]_vars PROVE MoreTypes'
  OBVIOUS
<1>0. MoreTypes
  BY DEF IInv
<1>1. counter' \in Nat
  <2>1. counter' = Cardinality(MadeSet')
    BY NextIncrements DEF Increments, Made, MadeSet
  <2>2. MadeSet' \in SUBSET (Tasks \X (1 .. Times))
    BY DEF MadeSet
  <2>. QED  BY <2>1, <2>2, Sets, FS_Subset, FS_CardinalityType
<1>2. closed' \in BOOLEAN
  <2>1. closed' = closed \/ closed' = TRUE
    <3>1. ASSUME NEW t \in Tasks, Task(t) PROVE closed' = closed
      BY <3>1, TaskMoves
    <3>2. CASE SecondPass
      BY <3>2, SecondPassStarts DEF gate
    <3>3. CASE \/ Spawn \/ Join \/ WaitSlots \/ Report
               \/ Poll \/ Sample \/ Close \/ Check \/ Notified \/ ScopeEnds \/ UNCHANGED vars
      BY <3>3 DEF Spawn, Join, WaitSlots, Report, Poll, Sample, Close, Check, Notified,
         ScopeEnds, vars, gate
    <3>. QED  BY <3>1, <3>2, <3>3, NextCases
  <2>. QED  BY <1>0, <2>1, Zenon DEF MoreTypes
<1>3. /\ pattern' \in {"handles", "slots", "mutex", "scope", "notify"}
      /\ size' \in Nat /\ twice' \in BOOLEAN
  BY <1>0, NextSum, Zenon DEF MoreTypes
<1>. QED  BY <1>1, <1>2, <1>3, NextSum, Zenon DEF MoreTypes

THEOREM Inductive == Spec => []IInv
<1>1. IInv /\ [Next]_vars => IInv'
  BY NextTypeOK, NextMoreTypes, NextPatterns, NextSpawned, NextResults, NextSums,
     NextIncrements, NextGate DEF IInv
<1>. QED  BY <1>1, InitIInv, PTL DEF Spec

-----------------------------------------------------------------------------

LEMMA EndComplete ==
    ASSUME IInv, main = "reported", ~Idle
    PROVE  IF pattern = "mutex" THEN counter = N * Times ELSE \A i \in Items : sum[i] = 1
<1>0. TypeOK /\ MoreTypes /\ Results /\ Sums /\ Increments
  BY DEF IInv
<1>1. CASE pattern \in {"handles", "mutex"}
  <2>1. \A t \in Tasks : t <= joined /\ pc[t] = "end"
    BY <1>0, <1>1 DEF Sums, Tasks
  <2>2. CASE pattern = "mutex"
    <3>1. \A t \in Tasks : left[t] = 0
      BY <1>0, <2>1, <2>2 DEF Increments
    <3>2. MadeSet = Tasks \X (1 .. Times)
      <4>1. \A i \in 1 .. Times : i > 0
        OBVIOUS
      <4>. QED  BY <3>1, <4>1 DEF MadeSet
    <3>3. counter = Cardinality(MadeSet)
      BY <1>0 DEF Increments, Made, MadeSet
    <3>. QED  BY <2>2, <3>2, <3>3, Sets
  <2>3. CASE pattern = "handles"
    <3>. SUFFICES ASSUME NEW i \in Items PROVE sum[i] = 1
      BY <2>3
    <3>1. PICK o \in Tasks : \A u \in Tasks : i \in chunk_bounds(size, N, u - 1) <=> u = o
      BY <1>0, OneChunk
    <3>2. i \in slot[o] /\ o <= joined
      BY <1>0, <2>1, <2>3, <3>1 DEF Results
    <3>. QED  BY <1>0, <2>3, <3>2 DEF Sums
  <2>. QED  BY <1>1, <2>2, <2>3
<1>2. CASE pattern = "slots"
  BY <1>0, <1>2 DEF Sums
<1>3. pattern \in {"handles", "mutex", "slots"}
  <2>1. pattern \in {"handles", "slots", "mutex", "scope", "notify"}
    BY <1>0 DEF MoreTypes
  <2>. QED  BY <2>1 DEF Idle
<1>. QED  BY <1>1, <1>2, <1>3

(* The runs lose no item and no increment, however many tasks there are:   *)
(* results that are joined or left in slots, passes that start over, and   *)
(* increments of which one at a time is between its read and its write.    *)
THEOREM NothingIsLost == Spec => []NothingLost
<1>1. IInv => NothingLost
  <2>. SUFFICES ASSUME IInv PROVE NothingLost
    OBVIOUS
  <2>0. TypeOK /\ Increments
    BY DEF IInv
  <2>1. \A t, u \in Tasks : {pc[t], pc[u]} \subseteq {"read", "write"} => t = u
    BY <2>0 DEF Increments
  <2>. QED  BY <2>0, <2>1, EndComplete DEF NothingLost, Increments
<1>. QED  BY <1>1, Inductive, PTL

(* The memory of idle is sampled while every task has been counted and     *)
(* none has been let past the gate, and all have left when it is reported. *)
THEOREM SampledIdle == Spec => []SampledWhileIdle
<1>1. IInv => SampledWhileIdle
  <2>. SUFFICES ASSUME IInv PROVE SampledWhileIdle
    OBVIOUS
  <2>0. TypeOK /\ Patterns /\ Gate
    BY DEF IInv
  <2>1. ASSUME main \in {"sample", "close"}, NEW t \in Tasks
        PROVE  pc[t] \in {"counted", "blocked"}
    <3>1. Idle /\ ~closed /\ parked = N
      BY <2>0, <2>1 DEF Patterns, Gate
    <3>2. Counted = Tasks
      <4>1. Cardinality(Counted) = N /\ Counted \in SUBSET Tasks
        BY <2>0, <3>1 DEF Gate, Counted
      <4>. QED  BY <4>1, AllTasks
    <3>3. pc[t] \notin {"finish", "notify", "end"}
      BY <2>0, <3>1 DEF Gate
    <3>. QED  BY <3>2, <3>3 DEF Counted
  <2>2. main = "reported" /\ Idle => finished = N
    BY <2>0 DEF Gate
  <2>. QED  BY <2>1, <2>2 DEF SampledWhileIdle
<1>. QED  BY <1>1, Inductive, PTL

-----------------------------------------------------------------------------
(* PingPong.                                                               *)

PingPongTypes ==
    /\ trips \in Nat /\ every \in Nat \ {0} /\ owned \in BOOLEAN
    /\ trip \in 0 .. trips
    /\ ping \in {"send", "recv", "end"} /\ pong \in {"recv", "send", "end"}
    /\ sender \in BOOLEAN /\ receiver \in BOOLEAN

\* Who hangs up, and when.
Leaving ==
    /\ ping = "recv" => trip < trips
    /\ ping = "end" => trip = trips /\ ~sender /\ pong \in {"recv", "end"}
    /\ ping # "end" => sender /\ receiver /\ pong # "end"

\* The token is in ping's hands, or in one place on its way there and back.
Token ==
    /\ token = 2 * trip
    /\ ping # "recv" => toB = <<>> /\ toA = <<>> /\ pong # "send"
    /\ ping = "recv" => \/ pong = "recv" /\ toB = <<2 * trip + 1>> /\ toA = <<>>
                        \/ pong = "send" /\ toB = <<>> /\ toA = <<>> /\ last = 2 * trip + 1
                        \/ pong = "recv" /\ toB = <<>> /\ toA = <<2 * trip + 2>>

\* The samples are those of the rounds played, one in `every`.
Sampled ==
    /\ samples = {k \in 0 .. trip - 1 : k % every = 0}
    /\ IsFiniteSet(samples)
    /\ Cardinality(samples) * every >= trip
    /\ Cardinality(samples) * every < trip + every

PingPongIInv ==
    /\ PingPongTypes
    /\ Leaving
    /\ Token
    /\ Sampled

-----------------------------------------------------------------------------

LEMMA PingPongStarts == ASSUME PingPongInit PROVE PingPongIInv
<1>1. trips \in Nat /\ every \in Nat \ {0} /\ trip \in 0 .. trips
  <2>1. trips \in 0 .. MaxRounds /\ every \in 1 .. MaxEvery /\ trip = 0
    BY DEF PingPongInit
  <2>. QED  BY <2>1, PingPongAssumption
<1>2. PingPongTypes
  BY <1>1, Zenon DEF PingPongInit, PingPongTypes
<1>3. Leaving /\ Token
  BY DEF PingPongInit, Leaving, Token
<1>4. Sampled
  <2>1. samples = {} /\ trip = 0
    BY DEF PingPongInit
  <2>2. IsFiniteSet(samples) /\ Cardinality(samples) = 0
    BY <2>1, FS_EmptySet
  <2>3. {k \in 0 .. trip - 1 : k % every = 0} = {}
    BY <2>1
  <2>. QED  BY <1>1, <2>1, <2>2, <2>3 DEF Sampled
<1>. QED  BY <1>2, <1>3, <1>4 DEF PingPongIInv

\* One more round is played, and timed if it is its turn.
LEMMA RoundSampled ==
    ASSUME PingPongTypes, Sampled, trip < trips, trip' = trip + 1, UNCHANGED every,
           samples' = IF trip % every = 0 THEN samples \cup {trip} ELSE samples
    PROVE  Sampled'
<1>0. trip \in Nat /\ every \in Nat \ {0}
  BY DEF PingPongTypes
<1>1. samples' = {k \in 0 .. trip' - 1 : k % every' = 0}
  <2>1. \A k : k \in 0 .. trip' - 1 <=> k \in 0 .. trip - 1 \/ k = trip
    BY <1>0
  <2>. QED  BY <2>1 DEF Sampled
<1>2. PICK q \in Nat : q = Cardinality(samples)
  BY FS_CardinalityType DEF Sampled
<1>3. q * every >= trip /\ q * every < trip + every /\ q * every \in Nat
  BY <1>0, <1>2 DEF Sampled
<1>4. CASE trip % every = 0
  <2>1. samples' = samples \cup {trip} /\ trip \notin samples
    BY <1>0, <1>4 DEF Sampled
  <2>2. IsFiniteSet(samples') /\ Cardinality(samples') = q + 1
    BY <1>2, <2>1, FS_AddElement DEF Sampled
  <2>3. PICK d \in Nat : trip = d * every
    <3>1. PICK d \in Nat : d = trip \div every
      BY <1>0
    <3>2. trip = every * d + (trip % every)
      BY <1>0, <3>1
    <3>3. trip = every * d + 0
      BY <1>4, <3>2
    <3>4. every * d = d * every /\ d * every \in Nat
      BY <1>0
    <3>. QED  BY <3>3, <3>4
  <2>4. q = d
    BY <1>0, <1>3, <2>3, NextMultiple
  <2>5. (q + 1) * every = trip + every
    BY <1>0, <2>3, <2>4
  <2>. QED  BY <1>0, <1>1, <2>2, <2>5 DEF Sampled
<1>5. CASE trip % every # 0
  <2>1. samples' = samples
    BY <1>5
  <2>2. q * every # trip
    <3>. SUFFICES ASSUME q * every = trip PROVE FALSE
      OBVIOUS
    <3>1. PICK r \in 0 .. every - 1 : trip = every * (trip \div every) + r /\ r = trip % every
      BY <1>0
    <3>2. PICK d \in Nat : d = trip \div every
      BY <1>0
    <3>3. trip = d * every + r /\ d * every \in Nat
      BY <1>0, <3>1, <3>2
    <3>4. q = d
      BY <1>0, <3>1, <3>3, NextMultiple
    <3>. QED  BY <1>0, <1>5, <3>1, <3>3, <3>4
  <2>3. PICK m \in Nat : m = q * every
    BY <1>3
  <2>4. m >= trip + 1 /\ m < trip + 1 + every
    BY <1>0, <1>3, <2>2, <2>3
  <2>5. IsFiniteSet(samples') /\ Cardinality(samples') * every = m
    BY <1>2, <2>1, <2>3 DEF Sampled
  <2>. QED  BY <1>1, <2>4, <2>5 DEF Sampled
<1>. QED  BY <1>4, <1>5

LEMMA SamplesAside ==
    ASSUME Sampled, UNCHANGED <<every, trip, samples>>
    PROVE  Sampled'
BY DEF Sampled

LEMMA PingPongKeeps == PingPongIInv /\ [PingPongNext]_pingPongVars => PingPongIInv'
<1>. SUFFICES ASSUME PingPongIInv, [PingPongNext]_pingPongVars PROVE PingPongIInv'
  OBVIOUS
<1>0. PingPongTypes /\ Leaving /\ Token /\ Sampled
  BY DEF PingPongIInv
<1>a. trip \in Nat /\ trips \in Nat
  BY <1>0 DEF PingPongTypes
<1>1. CASE PingSend
  <2>1. /\ ping = "send" /\ trip < trips /\ ping' = "recv" /\ toB' = <<token + 1>>
        /\ UNCHANGED <<parameters, pong, trip, token, last, toA, sender, receiver, samples>>
    BY <1>1 DEF PingSend
  <2>2. pong = "recv"
    BY <1>0, <2>1 DEF PingPongTypes, Leaving, Token
  <2>3. PingPongTypes'
    BY <1>0, <2>1, Zenon DEF PingPongTypes, parameters
  <2>4. Leaving'
    BY <1>0, <2>1 DEF Leaving, parameters
  <2>5. Token'
    BY <1>0, <2>1, <2>2 DEF Token
  <2>. QED  BY <1>0, <2>1, <2>3, <2>4, <2>5, SamplesAside DEF PingPongIInv, parameters
<1>2. CASE PingRecv
  <2>1. /\ ping = "recv" /\ toA # <<>> /\ token' = Head(toA) /\ toA' = Tail(toA)
        /\ samples' = IF trip % every = 0 THEN samples \cup {trip} ELSE samples
        /\ trip' = trip + 1 /\ ping' = "send"
        /\ UNCHANGED <<parameters, pong, last, toB, sender, receiver>>
    BY <1>2 DEF PingRecv
  <2>2. pong = "recv" /\ toB = <<>> /\ toA = <<2 * trip + 2>> /\ trip < trips
    BY <1>0, <2>1 DEF Token, Leaving
  <2>3. token' = 2 * trip + 2 /\ toA' = <<>>
    BY <2>1, <2>2
  <2>4. trip' \in 0 .. trips'
    BY <1>a, <2>1, <2>2 DEF parameters
  <2>5. PingPongTypes'
    BY <1>0, <2>1, <2>4, Zenon DEF PingPongTypes, parameters
  <2>6. Leaving'
    BY <1>0, <2>1 DEF Leaving, parameters
  <2>7. Token'
    BY <1>a, <2>1, <2>2, <2>3 DEF Token
  <2>8. Sampled'
    BY <1>0, <2>1, <2>2, RoundSampled DEF parameters
  <2>. QED  BY <2>5, <2>6, <2>7, <2>8 DEF PingPongIInv
<1>3. CASE HangUp
  <2>1. /\ ping = "send" /\ trip = trips /\ ping' = "end" /\ sender' = FALSE /\ receiver' = ~owned
        /\ UNCHANGED <<parameters, pong, trip, token, last, toB, toA, samples>>
    BY <1>3 DEF HangUp
  <2>2. PingPongTypes'
    BY <1>0, <2>1, Zenon DEF PingPongTypes, parameters
  <2>3. pong = "recv"
    BY <1>0, <2>1, Zenon DEF Leaving, Token, PingPongTypes
  <2>4. Leaving'
    BY <1>0, <2>1, <2>3 DEF Leaving, parameters
  <2>5. Token'
    BY <1>0, <2>1 DEF Token
  <2>. QED  BY <1>0, <2>1, <2>2, <2>4, <2>5, SamplesAside DEF PingPongIInv, parameters
<1>4. CASE PongRecv
  <2>1. /\ pong = "recv" /\ toB # <<>> /\ last' = Head(toB) /\ toB' = Tail(toB) /\ pong' = "send"
        /\ UNCHANGED <<parameters, ping, trip, token, toA, sender, receiver, samples>>
    BY <1>4 DEF PongRecv
  <2>2. ping = "recv" /\ toB = <<2 * trip + 1>> /\ toA = <<>>
    BY <1>0, <2>1 DEF Token
  <2>3. last' = 2 * trip + 1 /\ toB' = <<>>
    BY <2>1, <2>2
  <2>4. PingPongTypes'
    BY <1>0, <2>1, Zenon DEF PingPongTypes, parameters
  <2>5. Leaving'
    BY <1>0, <2>1, <2>2 DEF Leaving, parameters
  <2>6. Token'
    BY <1>0, <2>1, <2>2, <2>3 DEF Token
  <2>. QED  BY <1>0, <2>1, <2>4, <2>5, <2>6, SamplesAside DEF PingPongIInv, parameters
<1>5. CASE PongSend
  <2>1. /\ pong = "send" /\ toA = <<>>
        /\ UNCHANGED <<parameters, ping, trip, token, last, toB, sender, receiver, samples>>
    BY <1>5 DEF PongSend
  <2>2. ping = "recv" /\ toB = <<>> /\ last = 2 * trip + 1
    BY <1>0, <2>1 DEF Token
  <2>3. receiver
    BY <1>0, <2>2 DEF Leaving
  <2>4. toA' = <<last + 1>> /\ pong' = "recv"
    BY <1>5, <2>3 DEF PongSend
  <2>5. PingPongTypes'
    BY <1>0, <2>1, <2>4, Zenon DEF PingPongTypes, parameters
  <2>6. Leaving'
    BY <1>0, <2>1, <2>2, <2>4 DEF Leaving, parameters
  <2>7. last + 1 = 2 * trip + 2
    BY <1>a, <2>2
  <2>8. Token'
    BY <1>0, <2>1, <2>2, <2>4, <2>7 DEF Token
  <2>. QED  BY <1>0, <2>1, <2>5, <2>6, <2>8, SamplesAside DEF PingPongIInv, parameters
<1>6. CASE PongEnd
  <2>1. /\ pong = "recv" /\ ~sender /\ pong' = "end"
        /\ UNCHANGED <<parameters, ping, trip, token, last, toB, toA, sender, receiver, samples>>
    BY <1>6 DEF PongEnd, channels
  <2>2. ping = "end"
    BY <1>0, <2>1 DEF Leaving
  <2>3. PingPongTypes'
    BY <1>0, <2>1, Zenon DEF PingPongTypes, parameters
  <2>4. Leaving'
    BY <1>0, <2>1, <2>2 DEF Leaving, parameters
  <2>5. Token'
    BY <1>0, <2>1, <2>2 DEF Token
  <2>. QED  BY <1>0, <2>1, <2>3, <2>4, <2>5, SamplesAside DEF PingPongIInv, parameters
<1>7. CASE UNCHANGED pingPongVars
  <2>1. UNCHANGED <<parameters, ping, pong, trip, token, last, toB, toA, sender, receiver, samples>>
    BY <1>7 DEF pingPongVars, channels
  <2>2. PingPongTypes'
    BY <1>0, <2>1, Zenon DEF PingPongTypes, parameters
  <2>3. Leaving' /\ Token'
    BY <1>0, <2>1 DEF Leaving, Token, parameters
  <2>. QED  BY <1>0, <2>1, <2>2, <2>3, SamplesAside DEF PingPongIInv, parameters
<1>. QED  BY <1>1, <1>2, <1>3, <1>4, <1>5, <1>6, <1>7 DEF PingPongNext, Ping, Pong, BothExited

-----------------------------------------------------------------------------

\* As many samples as are allocated before the clock starts are enough.
LEMMA EnoughAllocated ==
    ASSUME PingPongTypes, Sampled
    PROVE  Cardinality(samples) <= (trips \div every) + 1
<1>0. trip \in 0 .. trips /\ trips \in Nat /\ every \in Nat \ {0}
  BY DEF PingPongTypes
<1>1. PICK q \in Nat : q = Cardinality(samples)
  BY FS_CardinalityType DEF Sampled
<1>2. PICK d \in Nat : d = trips \div every
  BY <1>0
<1>3. PICK r \in 0 .. every - 1 : trips = every * d + r
  BY <1>0, <1>2, Division
<1>4. q * every < trip + every /\ q * every \in Nat
  BY <1>0, <1>1 DEF Sampled
<1>5. trips = d * every + r /\ d * every \in Nat
  BY <1>0, <1>3
<1>6. ASSUME q > d + 1 PROVE FALSE
  <2>1. (d + 2) * every <= q * every
    BY <1>0, <1>6, TimesMonotone
  <2>2. (d + 2) * every = d * every + 2 * every
    BY <1>0
  <2>. QED  BY <1>0, <1>3, <1>4, <1>5, <2>1, <2>2
<1>. QED  BY <1>1, <1>2, <1>6

\* What Min takes.
LEMMA MinIs ==
    ASSUME NEW S \in SUBSET Nat, NEW m \in S, \A x \in S : m <= x
    PROVE  Min(S) = m
<1>1. \A y \in S : (\A x \in S : y <= x) => y = m
  <2>. SUFFICES ASSUME NEW y \in S, \A x \in S : y <= x PROVE y = m
    OBVIOUS
  <2>1. y <= m /\ m <= y /\ y \in Nat /\ m \in Nat
    OBVIOUS
  <2>. QED  BY <2>1
<1>. QED  BY <1>1 DEF Min

(* How far off the percentiles are, for any number of samples and any      *)
(* share of them, and that it is always a sample: the one reported has the *)
(* nearest rank, or the next one when the share is a whole number of       *)
(* samples.                                                                *)
THEOREM PercentileIsOneAbove ==
    ASSUME NEW len \in Nat \ {0}, NEW den \in Nat \ {0}, NEW num \in 1 .. den - 1
    PROVE  /\ percentile(len, num, den) + 1 \in 1 .. len
           /\ percentile(len, num, den) + 1 =
                 nearest_rank(len, num, den) + (IF (len * num) % den = 0 THEN 1 ELSE 0)
<1>1. PICK p \in Nat \ {0} : p = len * num
  OBVIOUS
<1>2. PICK r \in 0 .. den - 1, f \in Nat : f = p \div den /\ r = p % den /\ p = den * f + r
  <2>1. PICK f \in Nat : f = p \div den
    BY <1>1
  <2>2. p % den \in 0 .. den - 1 /\ p = den * (p \div den) + (p % den)
    OBVIOUS
  <2>. QED  BY <2>1, <2>2
<1>3. f < len
  <2>1. p < len * den
    <3>1. PICK e \in Nat \ {0} : den = num + e
      <4>1. den - num \in Nat \ {0} /\ den = num + (den - num)
        OBVIOUS
      <4>. QED  BY <4>1
    <3>2. len * den = p + len * e
      BY <1>1, <3>1
    <3>3. len * e \in Nat \ {0}
      OBVIOUS
    <3>. QED  BY <1>1, <3>2, <3>3
  <2>2. len <= f => len * den <= f * den
    BY TimesMonotone
  <2>3. f * den <= p
    BY <1>2
  <2>4. len * den \in Nat /\ f * den \in Nat
    OBVIOUS
  <2>. QED  BY <2>1, <2>2, <2>3, <2>4
<1>4. percentile(len, num, den) = f
  <2>1. Min({f, len - 1}) = f
    BY <1>3, MinIs
  <2>. QED  BY <1>1, <1>2, <2>1 DEF percentile
<1>. DEFINE K == {k \in 1 .. len : den * k >= p}
<1>5. nearest_rank(len, num, den) = Min(K)
  BY <1>1 DEF nearest_rank
\* A rank has the share when it is f or, with something left over, above f.
<1>6. \A k \in Nat : den * k >= p <=> IF r = 0 THEN k >= f ELSE k > f
  <2>. SUFFICES ASSUME NEW k \in Nat
                PROVE  den * k >= p <=> IF r = 0 THEN k >= f ELSE k > f
    OBVIOUS
  <2>0. PICK a \in Nat, b \in Nat : a = den * f /\ b = den * k
    OBVIOUS
  <2>1. k >= f => b >= a
    BY <2>0, TimesMonotone
  <2>2. k > f => b >= a + den
    <3>1. k > f => (f + 1) * den <= k * den
      BY TimesMonotone
    <3>2. (f + 1) * den = a + den
      BY <2>0
    <3>. QED  BY <2>0, <3>1, <3>2
  <2>3. k <= f => b <= a
    BY <2>0, TimesMonotone
  <2>4. k < f => b + den <= a
    <3>1. k < f => (k + 1) * den <= f * den
      BY TimesMonotone
    <3>2. (k + 1) * den = b + den
      BY <2>0
    <3>. QED  BY <2>0, <3>1, <3>2
  <2>5. p = a + r
    BY <1>2, <2>0
  <2>. QED  BY <2>0, <2>1, <2>2, <2>3, <2>4, <2>5
<1>7. (len * num) % den = r
  BY <1>1, <1>2
<1>8. CASE r = 0
  <2>1. f # 0
    BY <1>2, <1>8
  <2>2. f \in K /\ \A k \in K : f <= k
    BY <1>3, <1>6, <1>8, <2>1
  <2>3. Min(K) = f
    BY <2>2, MinIs
  <2>. QED  BY <1>3, <1>4, <1>5, <1>7, <1>8, <2>3
<1>9. CASE r # 0
  <2>1. f + 1 \in K /\ \A k \in K : f + 1 <= k
    BY <1>3, <1>6, <1>9
  <2>2. Min(K) = f + 1
    BY <2>1, MinIs
  <2>. QED  BY <1>3, <1>4, <1>5, <1>7, <1>9, <2>2
<1>. QED  BY <1>8, <1>9

LEMMA OneSlot == Len(<<>>) <= 1 /\ \A x : Len(<<x>>) <= 1
OBVIOUS

\* Token, as the property puts it.
LEMMA TokenInFlight ==
    ASSUME PingPongTypes, Leaving, Token
    PROVE  IF ping = "recv"
           THEN Len(InFlight) = 1 /\ InFlight[1] = Hops
           ELSE InFlight = <<>> /\ token = Hops
<1>1. CASE ping # "recv"
  BY <1>1 DEF Token, InFlight, Hops
<1>2. CASE ping = "recv" /\ pong = "recv" /\ toB = <<2 * trip + 1>> /\ toA = <<>>
  <2>1. InFlight = <<2 * trip + 1>>
    BY <1>2 DEF InFlight
  <2>2. Hops = 2 * trip + 1
    BY <1>2 DEF Hops
  <2>. QED  BY <1>2, <2>1, <2>2
<1>3. CASE ping = "recv" /\ pong = "send" /\ toB = <<>> /\ toA = <<>> /\ last = 2 * trip + 1
  <2>1. InFlight = <<2 * trip + 1>>
    BY <1>3 DEF InFlight
  <2>2. Hops = 2 * trip + 1
    BY <1>3 DEF Hops
  <2>. QED  BY <1>3, <2>1, <2>2
<1>4. CASE ping = "recv" /\ pong = "recv" /\ toB = <<>> /\ toA = <<2 * trip + 2>>
  <2>1. InFlight = <<2 * trip + 2>>
    BY <1>4 DEF InFlight
  <2>2. Hops = 2 * trip + 2
    BY <1>4 DEF Hops
  <2>. QED  BY <1>4, <2>1, <2>2
<1>. QED  BY <1>1, <1>2, <1>3, <1>4 DEF Token

(* There is one token however many rounds are played, so pong's sends find *)
(* their receiver and ping's find an empty slot; and the samples fit into  *)
(* what is allocated for them.                                             *)
THEOREM TokenIsOne == PingPongSpec => []OneToken
<1>1. PingPongIInv => OneToken
  <2>. SUFFICES ASSUME PingPongIInv PROVE OneToken
    OBVIOUS
  <2>0. PingPongTypes /\ Leaving /\ Token /\ Sampled
    BY DEF PingPongIInv
  <2>1. Len(toB) <= 1 /\ Len(toA) <= 1
    <3>1. /\ toB = <<>> \/ \E x : toB = <<x>>
          /\ toA = <<>> \/ \E x : toA = <<x>>
      BY <2>0, Zenon DEF Token
    <3>. QED  BY <3>1, OneSlot, Zenon
  <2>2. PingPongTypeOK
    BY <2>0, <2>1, Zenon DEF PingPongTypes, PingPongTypeOK
  <2>3. pong = "send" => receiver /\ toA = <<>>
    BY <2>0 DEF Leaving, Token
  <2>4. samples = {k \in 0 .. trip - 1 : k % every = 0}
    BY <2>0 DEF Sampled
  <2>. QED
    BY <2>0, <2>2, <2>3, <2>4, TokenInFlight, EnoughAllocated
    DEF OneToken
<1>2. PingPongInit => PingPongIInv
  BY PingPongStarts
<1>. QED  BY <1>1, <1>2, PingPongKeeps, PTL DEF PingPongSpec
=============================================================================
