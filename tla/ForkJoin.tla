------------------------------ MODULE ForkJoin ------------------------------
(***************************************************************************)
(* The workloads whose tasks only meet the main task at the end: spawn and *)
(* cpu, where each task has a result of its own, mutex, where the tasks    *)
(* increment one counter, and idle, where they wait at a gate.             *)
(*                                                                         *)
(*   "handles"  spawn and cpu: the main task joins the tasks in the order  *)
(*              it spawned them and adds up as it goes (Rust)              *)
(*   "slots"    spawn and cpu: each task writes a slot and calls           *)
(*              WaitGroup.Done; the slots are added up after Wait (Go)     *)
(*   "mutex"    the tasks are joined, and the counter read                 *)
(*   "scope"    idle, where a scope or a WaitGroup waits for the tasks     *)
(*   "notify"   idle without handles: the main task loops on the count of  *)
(*              the finished, and the last one calls notify_one (tokio)    *)
(*                                                                         *)
(* A task's result is the set of items, of 0 .. size - 1, that it adds up. *)
(* spawn has as many items as tasks, and runs twice; only the second pass  *)
(* is reported.                                                            *)
(***************************************************************************)
EXTENDS Harness, FiniteSets

CONSTANTS N,        \* number of tasks (--tasks, --workers; --size of spawn and idle)
          MaxSize,  \* bound of cpu's --size
          Times     \* increments of each task (size / workers)

ASSUME ForkJoinAssumption == N \in Nat \ {0} /\ MaxSize \in Nat /\ Times \in Nat

Tasks == 1 .. N

VARIABLES
    pattern, size, twice,   \* for the whole run; twice for spawn
    main,       \* where the main task is
    pass,       \* the pass it is in, 1 or 2
    joined,     \* how many handles have been joined
    group,      \* the WaitGroup of "slots"
    pc,         \* where each task is
    slot,       \* the items in the result of each task
    sum,        \* how often each item is in the sum
    holder,     \* who holds the lock
    left,       \* increments each task has still to make
    local,      \* what the holder has read
    counter,    \* the shared counter
    parked, finished,   \* the counts of idle
    closed,     \* whether the gate is closed
    permit      \* whether the Notify holds a permit

setup == <<pattern, size, twice>>
adds  == <<joined, group, slot, sum>>
lock  == <<holder, left, local, counter>>
gate  == <<parked, finished, closed, permit>>
vars  == <<setup, main, pass, pc, adds, lock, gate>>

Items == 0 .. size - 1
Idle  == pattern \in {"scope", "notify"}

TypeOK ==
    /\ main \in {"spawn", "join", "again", "poll", "sample", "close", "check",
                 "notified", "waiting", "reported"}
    /\ joined \in 0 .. N /\ group \in 0 .. N
    /\ pc \in [Tasks -> {"new", "run", "done", "read", "write", "counted",
                         "blocked", "finish", "notify", "end"}]
    /\ left \in [Tasks -> 0 .. Times]
    /\ parked \in 0 .. N /\ finished \in 0 .. N

\* What a pass of spawn starts from; Go clears the slots of the one before.
Fresh == [main |-> "spawn", joined |-> 0, group |-> IF pattern = "slots" THEN N ELSE 0,
          pc |-> [t \in Tasks |-> "new"], slot |-> [t \in Tasks |-> {}],
          sum |-> [i \in Items |-> 0]]

Init ==
    /\ pattern \in {"handles", "slots", "mutex", "scope", "notify"}
    /\ size \in 0 .. MaxSize
    /\ twice \in BOOLEAN
    /\ twice => pattern \in {"handles", "slots"} /\ size = N
    /\ pass = 1
    /\ main = Fresh.main /\ joined = Fresh.joined /\ group = Fresh.group
    /\ pc = Fresh.pc /\ slot = Fresh.slot /\ sum = Fresh.sum
    /\ holder = {} /\ left = [t \in Tasks |-> Times] /\ local = 0 /\ counter = 0
    /\ parked = 0 /\ finished = 0 /\ closed = FALSE /\ permit = FALSE

-----------------------------------------------------------------------------
Step(t, from, to) == pc[t] = from /\ pc' = [pc EXCEPT ![t] = to]

MainStep(from, to) == main = from /\ main' = to

Plus(total, items) == [i \in Items |-> total[i] + (IF i \in items THEN 1 ELSE 0)]

\* Mistakes: SampledWhileIdle, the memory is sampled before all are counted;
\* Terminates, the main task goes on although all have finished.
PollOffByOne ==
    /\ parked >= N - 1
    /\ MainStep("poll", "sample")
    /\ UNCHANGED <<setup, pass, pc, adds, lock, gate>>

CheckAtMost ==
    /\ pattern = "notify" /\ main = "check" /\ finished <= N
    /\ UNCHANGED vars

-----------------------------------------------------------------------------
(* The main task.                                                          *)

Spawn ==
    /\ main = "spawn"
    /\ LET t == CHOOSE t \in Tasks : pc[t] = "new" /\ \A u \in 1 .. t - 1 : pc[u] # "new"
       IN  /\ pc' = [pc EXCEPT ![t] = "run"]
           /\ main' = IF t < N THEN "spawn" ELSE IF Idle THEN "poll" ELSE "join"
    /\ UNCHANGED <<setup, pass, adds, lock, gate>>

\* One handle, in the order of the spawns.
Join ==
    /\ main = "join" /\ pattern \in {"handles", "mutex"}
    /\ joined < N
    /\ pc[joined + 1] = "end"
    /\ joined' = joined + 1
    /\ sum' = Plus(sum, slot[joined + 1])
    /\ UNCHANGED <<setup, main, pass, pc, group, slot, lock, gate>>

\* wg.Wait(), and the loop over the slots.
WaitSlots ==
    /\ pattern = "slots" /\ group = 0
    /\ MainStep("join", IF twice /\ pass = 1 THEN "again" ELSE "reported")
    /\ sum' = [i \in Items |-> Cardinality({t \in Tasks : i \in slot[t]})]
    /\ UNCHANGED <<setup, pass, pc, joined, group, slot, lock, gate>>

\* All handles are joined, and the counter's lock is free.
Report ==
    /\ joined = N /\ holder = {}
    /\ MainStep("join", IF twice /\ pass = 1 THEN "again" ELSE "reported")
    /\ UNCHANGED <<setup, pass, pc, adds, lock, gate>>

SecondPass ==
    /\ main = "again"
    /\ pass' = 2
    /\ main' = Fresh.main /\ joined' = Fresh.joined /\ group' = Fresh.group
    /\ pc' = Fresh.pc /\ slot' = Fresh.slot /\ sum' = Fresh.sum
    /\ UNCHANGED <<setup, lock, gate>>

\* The loop that sleeps until all are counted, and the pause.
Poll ==
    /\ parked = N
    /\ MainStep("poll", "sample")
    /\ UNCHANGED <<setup, pass, pc, adds, lock, gate>>

Sample ==
    /\ MainStep("sample", "close")
    /\ UNCHANGED <<setup, pass, pc, adds, lock, gate>>

Close ==
    /\ MainStep("close", "check")
    /\ closed' = TRUE
    /\ UNCHANGED <<setup, pass, pc, adds, lock, parked, finished, permit>>

Check ==
    /\ pattern = "notify"
    /\ MainStep("check", IF finished < N THEN "notified" ELSE "reported")
    /\ UNCHANGED <<setup, pass, pc, adds, lock, gate>>

\* notified().await takes the permit, or waits.
Notified ==
    /\ MainStep("notified", IF permit THEN "check" ELSE "waiting")
    /\ permit' = FALSE
    /\ UNCHANGED <<setup, pass, pc, adds, lock, parked, finished, closed>>

ScopeEnds ==
    /\ pattern = "scope"
    /\ \A t \in Tasks : pc[t] = "end"
    /\ MainStep("check", "reported")
    /\ UNCHANGED <<setup, pass, pc, adds, lock, gate>>

-----------------------------------------------------------------------------
(* spawn and cpu: the value of a handle, or a slot.                        *)

Result(t) ==
    /\ pattern \in {"handles", "slots"}
    /\ Step(t, "run", IF pattern = "slots" THEN "done" ELSE "end")
    /\ slot' = [slot EXCEPT ![t] = chunk_bounds(size, N, t - 1)]
    /\ UNCHANGED <<setup, main, pass, joined, group, sum, lock, gate>>

Done(t) ==
    /\ Step(t, "done", "end")
    /\ group' = group - 1
    /\ UNCHANGED <<setup, main, pass, joined, slot, sum, lock, gate>>

(* increment: the lock is taken, the counter read, written, and unlocked.  *)

Lock(t) ==
    /\ pattern = "mutex" /\ left[t] > 0 /\ holder = {}
    /\ Step(t, "run", "read")
    /\ holder' = {t}
    /\ UNCHANGED <<setup, main, pass, adds, left, local, counter, gate>>

Read(t) ==
    /\ Step(t, "read", "write")
    /\ local' = counter
    /\ UNCHANGED <<setup, main, pass, adds, holder, left, counter, gate>>

WriteUnlock(t) ==
    /\ Step(t, "write", "run")
    /\ counter' = local + 1
    /\ left' = [left EXCEPT ![t] = @ - 1]
    /\ holder' = holder \ {t}
    /\ UNCHANGED <<setup, main, pass, adds, local, gate>>

LastIncrement(t) ==
    /\ pattern = "mutex" /\ left[t] = 0
    /\ Step(t, "run", "end")
    /\ UNCHANGED <<setup, main, pass, adds, lock, gate>>

(* park                                                                    *)

CountParked(t) ==
    /\ Idle
    /\ Step(t, "run", "counted")
    /\ parked' = parked + 1
    /\ UNCHANGED <<setup, main, pass, adds, lock, finished, closed, permit>>

Block(t) ==
    /\ ~closed
    /\ Step(t, "counted", "blocked")
    /\ UNCHANGED <<setup, main, pass, adds, lock, gate>>

\* The gate is found closed, or is closed while the task waits there.
Pass(t) ==
    /\ closed
    /\ Step(t, "counted", "finish") \/ Step(t, "blocked", "finish")
    /\ UNCHANGED <<setup, main, pass, adds, lock, gate>>

CountFinished(t) ==
    /\ Step(t, "finish", IF pattern = "notify" /\ finished + 1 = N THEN "notify" ELSE "end")
    /\ finished' = finished + 1
    /\ UNCHANGED <<setup, main, pass, adds, lock, parked, closed, permit>>

\* Notify::notify_one wakes the main task, or leaves a permit.
NotifyOne(t) ==
    /\ Step(t, "notify", "end")
    /\ IF main = "waiting"
       THEN main' = "check" /\ UNCHANGED permit
       ELSE permit' = TRUE /\ UNCHANGED main
    /\ UNCHANGED <<setup, pass, adds, lock, parked, finished, closed>>

-----------------------------------------------------------------------------
Main ==
    \/ Spawn \/ Join \/ WaitSlots \/ Report \/ SecondPass
    \/ Poll \/ Sample \/ Close \/ Check \/ Notified \/ ScopeEnds

Task(t) ==
    \/ Result(t) \/ Done(t)
    \/ Lock(t) \/ Read(t) \/ WriteUnlock(t) \/ LastIncrement(t)
    \/ CountParked(t) \/ Block(t) \/ Pass(t) \/ CountFinished(t) \/ NotifyOne(t)

Exited == main = "reported" /\ UNCHANGED vars

Next == Main \/ (\E t \in Tasks : Task(t)) \/ Exited

Spec == Init /\ [][Next]_vars

(* Every task that can run does in the end; nothing is assumed of who gets *)
(* the lock.                                                               *)
FairSpec == Spec /\ WF_vars(Main) /\ \A t \in Tasks : WF_vars(Task(t))

-----------------------------------------------------------------------------
\* Increments that have been made.
Made == Cardinality({x \in Tasks \X (1 .. Times) : x[2] > left[x[1]]})

(* No item and no increment is lost or counted twice: at most one task is  *)
(* between its read and its write of the counter, which is the number of   *)
(* increments made, and the report is made of every item once, whatever    *)
(* the number of chunks and the pass, or of every task's increments.       *)
NothingLost ==
    /\ TypeOK
    /\ counter = Made
    /\ \A t, u \in Tasks : {pc[t], pc[u]} \subseteq {"read", "write"} => t = u
    /\ main = "reported" /\ ~Idle =>
          IF pattern = "mutex"
          THEN counter = N * Times
          ELSE \A i \in Items : sum[i] = 1

(* The memory is sampled while every task exists and none has gone past    *)
(* the gate, so it is divided by the number of tasks it is made of; that   *)
(* each has got as far as blocking is up to the pause.  The report comes   *)
(* when all have counted themselves finished.                              *)
SampledWhileIdle ==
    /\ main \in {"sample", "close"} =>
          \A t \in Tasks : pc[t] \in {"counted", "blocked"}
    /\ main = "reported" /\ Idle => finished = N

(* Every run is reported: the lock is not kept, the gate lets everybody    *)
(* through, those included that come late, and the main task never sleeps  *)
(* through the last notify_one.                                            *)
Terminates == <>(main = "reported")
=============================================================================
