---------------------------- MODULE LastTaskWakes ----------------------------
(***************************************************************************)
(* The spawn workload without join handles (tokio-tuned-bench/src/lib.rs:  *)
(* spawn, spawn_once, record; the no-handles variant is the same code).    *)
(*                                                                         *)
(* Each of n tasks stores its index in its own slot and counts itself      *)
(* done; the task that brings the count to n calls notify_one.  The        *)
(* spawner loops: while the count is below n it awaits the Notify.  Then   *)
(* it adds the slots up.  The whole is done twice on the same object, a    *)
(* warm-up pass and a timed pass, with the slots and the count reset in    *)
(* between, while the last task of the warm-up pass may not have called    *)
(* notify_one yet.                                                         *)
(*                                                                         *)
(* Notify is tokio's: notify_one wakes the waiting task, or else stores    *)
(* one permit that the next notified().await takes without waiting.        *)
(*                                                                         *)
(* Slots and count are accessed with Ordering::Relaxed.  With Strong the   *)
(* slot stores of a task are visible to whoever sees its increment, as on  *)
(* x86; otherwise the language lets the sum miss any of them.              *)
(***************************************************************************)
EXTENDS Integers, FiniteSets

CONSTANTS N,       \* number of tasks (--size)
          Strong   \* whether stores become visible in order

ASSUME TasksAssumption == N \in Nat \ {0}
ASSUME StrongAssumption == Strong \in BOOLEAN

Tasks  == 1 .. N
Passes == {"warmup", "timed"}

VARIABLES
    pass,      \* the pass the spawner is in
    pc,        \* where the spawner is
    task,      \* where each task of each pass is
    slot,      \* the tasks that stored their index since the last reset
    done,      \* the count
    permit,    \* whether the Notify holds a permit
    early,     \* wake-ups of this pass that found the count below n
    sum        \* the slots that are in the sum, once it is made

vars == <<pass, pc, task, slot, done, permit, early, sum>>

TypeOK ==
    /\ pass \in Passes
    /\ pc \in {"spawn", "check", "notified", "waiting", "woken",
               "sum", "reset", "reported"}
    /\ task \in [Passes -> [Tasks -> {"new", "store", "count", "notify", "end"}]]
    /\ slot \in SUBSET Tasks
    /\ done \in 0 .. N
    /\ permit \in BOOLEAN
    /\ early \in Nat
    /\ sum \in SUBSET Tasks

Init ==
    /\ pass = "warmup"
    /\ pc = "spawn"
    /\ task = [q \in Passes |-> [i \in Tasks |-> "new"]]
    /\ slot = {}
    /\ done = 0
    /\ permit = FALSE
    /\ early = 0
    /\ sum = {}

-----------------------------------------------------------------------------
Step(q, i, from, to) ==
    /\ task[q][i] = from
    /\ task' = [task EXCEPT ![q][i] = to]

(* Mistakes.  Each of these is an operation below with one thing wrong,    *)
(* and breaks the property it is named with; none is part of Spec.         *)

\* PassesApart: a task that counts itself first.
SpawnToCountFirst(i) ==
    /\ pc = "spawn"
    /\ task[pass][i] = "new"
    /\ \A j \in 1 .. i - 1 : task[pass][j] # "new"
    /\ task' = [task EXCEPT ![pass][i] = "count"]
    /\ pc' = IF i = N THEN "check" ELSE "spawn"
    /\ UNCHANGED <<pass, slot, done, permit, early, sum>>

\* OneExtraCheck: every task calls notify_one.
CountAndNotify(q, i) ==
    /\ Step(q, i, "count", "notify")
    /\ done' = done + 1
    /\ UNCHANGED <<pass, pc, slot, permit, early, sum>>

\* ImplementsExactlyOnce: the spawner does not wait for the last task.
CheckOffByOne ==
    /\ pc = "check"
    /\ pc' = IF done < N - 1 THEN "notified" ELSE "sum"
    /\ UNCHANGED <<pass, task, slot, done, permit, early, sum>>

\* NoLostWakeup: a notify_one without a waiter is forgotten.
NotifyWaiterOnly(q, i) ==
    /\ Step(q, i, "notify", "end")
    /\ pc' = IF pc = "waiting" THEN "woken" ELSE pc
    /\ UNCHANGED <<pass, slot, done, permit, early, sum>>

\* Terminates: the warm-up pass again, on a count nobody resets.
ResetToWarmup ==
    /\ pc = "reset"
    /\ sum' = {}
    /\ pc' = "check"
    /\ UNCHANGED <<pass, task, slot, done, permit, early>>

-----------------------------------------------------------------------------
(* record                                                                  *)

Store(q, i) ==
    /\ Step(q, i, "store", "count")
    /\ slot' = slot \cup {i}
    /\ UNCHANGED <<pass, pc, done, permit, early, sum>>

Count(q, i) ==
    /\ Step(q, i, "count", IF done + 1 = N THEN "notify" ELSE "end")
    /\ done' = done + 1
    /\ UNCHANGED <<pass, pc, slot, permit, early, sum>>

\* Notify::notify_one
NotifyOne(q, i) ==
    /\ Step(q, i, "notify", "end")
    /\ IF pc = "waiting"
       THEN pc' = "woken" /\ UNCHANGED permit
       ELSE permit' = TRUE /\ UNCHANGED pc
    /\ UNCHANGED <<pass, slot, done, early, sum>>

(* spawn_once                                                              *)

Spawn(i) ==
    /\ pc = "spawn"
    /\ task[pass][i] = "new"
    /\ \A j \in 1 .. i - 1 : task[pass][j] # "new"
    /\ task' = [task EXCEPT ![pass][i] = "store"]
    /\ pc' = IF i = N THEN "check" ELSE "spawn"
    /\ UNCHANGED <<pass, slot, done, permit, early, sum>>

Check ==
    /\ pc = "check"
    /\ pc' = IF done < N THEN "notified" ELSE "sum"
    /\ UNCHANGED <<pass, task, slot, done, permit, early, sum>>

\* notified().await: take the permit, or wait.
TakePermit ==
    /\ pc = "notified"
    /\ permit
    /\ permit' = FALSE
    /\ pc' = "woken"
    /\ UNCHANGED <<pass, task, slot, done, early, sum>>

Wait ==
    /\ pc = "notified"
    /\ ~permit
    /\ pc' = "waiting"
    /\ UNCHANGED <<pass, task, slot, done, permit, early, sum>>

\* The await has returned: back to the loop's condition.
Resume ==
    /\ pc = "woken"
    /\ pc' = "check"
    /\ early' = IF done < N THEN early + 1 ELSE early
    /\ UNCHANGED <<pass, task, slot, done, permit, sum>>

\* Without Strong the sum may miss the stores of tasks it has not
\* synchronized with: any of them, as the loop can end on the load alone.
Sum ==
    /\ pc = "sum"
    /\ \E seen \in SUBSET slot :
          /\ Strong => seen = slot
          /\ sum' = seen
    /\ pc' = IF pass = "warmup" THEN "reset" ELSE "reported"
    /\ UNCHANGED <<pass, task, slot, done, permit, early>>

(* spawn: the reset between the two passes.                                *)

Reset ==
    /\ pc = "reset"
    /\ slot' = {}
    /\ done' = 0
    /\ early' = 0
    /\ sum' = {}
    /\ pass' = "timed"
    /\ pc' = "spawn"
    /\ UNCHANGED <<task, permit>>

Exited ==
    /\ pc = "reported"
    /\ UNCHANGED vars

Task(q, i) == Store(q, i) \/ Count(q, i) \/ NotifyOne(q, i)

Spawner ==
    \/ \E i \in Tasks : Spawn(i)
    \/ Check \/ TakePermit \/ Wait \/ Resume \/ Sum \/ Reset

Next ==
    \/ \E q \in Passes, i \in Tasks : Task(q, i)
    \/ Spawner
    \/ Exited

Spec == Init /\ [][Next]_vars

(* The runtime polls every task that is ready.                             *)
Fairness ==
    /\ \A q \in Passes, i \in Tasks : WF_vars(Task(q, i))
    /\ WF_vars(Spawner)

FairSpec == Spec /\ Fairness

-----------------------------------------------------------------------------

Notifying(q) == \E i \in Tasks : task[q][i] = "notify"

(* No wake-up is lost: a spawner that waits although every task of its     *)
(* pass is counted has a notify_one still to come.                         *)
NoLostWakeup == pc = "waiting" /\ done = N => Notifying(pass)

(* "A permit left over from the warm-up pass only causes one extra loop    *)
(* check": of the wake-ups of a pass at most one comes too early, none in  *)
(* the warm-up pass, and a notify_one that comes late is one of those.     *)
OneExtraCheck == early <= IF pass = "warmup" THEN 0 ELSE 1

(* The reset is safe: when it happens every task of the warm-up pass has   *)
(* stored and counted, so nothing of it shows up in the timed pass but its *)
(* late notify_one.                                                        *)
WarmupIsOver ==
    pass = "timed" \/ pc = "reset" =>
        \A i \in Tasks : task["warmup"][i] \in {"notify", "end"}

(* The spawner adds the slots up only after all tasks have filled theirs.  *)
SumAfterAll == pc = "sum" => slot = Tasks

(* The two passes on the same slots, count and Notify do not disturb each  *)
(* other; the count never goes beyond N.                                   *)
PassesApart == TypeOK /\ WarmupIsOver /\ SumAfterAll

(* The sum has every task's index in it ("like the Go version with its     *)
(* results slice and WaitGroup").                                          *)
SumComplete == pc \in {"reset", "reported"} => sum = Tasks

(* The spawner always gets through both passes.                            *)
Terminates == <>(pc = "reported")

EO == INSTANCE ExactlyOnce WITH
        units <- Tasks,
        accounted <- IF pass = "timed" THEN slot ELSE {},
        reported <- pc = "reported"

(* In the timed pass each task is accounted for once and the report comes  *)
(* after all of them, whatever is left of the warm-up pass.                *)
ImplementsExactlyOnce == EO!Spec
=============================================================================
