------------------------ MODULE LastTaskWakesProofs -------------------------
(***************************************************************************)
(* Proofs about LastTaskWakes, for any number of tasks, whether or not     *)
(* stores become visible in order.                                         *)
(***************************************************************************)
EXTENDS LastTaskWakes, FiniteSetTheorems, TLAPS

Counted(q) == {i \in Tasks : task[q][i] \in {"notify", "end"}}

\* The count and the slots are those of the current pass.
CountIsOfPass ==
    /\ done = Cardinality(Counted(pass))
    /\ slot = {i \in Tasks : task[pass][i] \in {"count", "notify", "end"}}
    /\ pass = "warmup" => \A i \in Tasks : task["timed"][i] = "new"
    /\ pass = "timed" => Counted("warmup") = Tasks

\* The spawner goes on when it has spawned all, and leaves the loop when all
\* are counted.
SpawnerWaits ==
    /\ pc # "spawn" => \A i \in Tasks : task[pass][i] # "new"
    /\ pc \in {"sum", "reset", "reported"} => done = N
    /\ pc = "reset" => pass = "warmup"
    /\ pc = "reported" => pass = "timed"

\* One task of a pass calls notify_one, when all are counted.
OneNotifier ==
    /\ \A q \in Passes, i, j \in Tasks :
          task[q][i] = "notify" /\ task[q][j] = "notify" => i = j
    /\ Notifying(pass) => done = N

\* A spawner that is about to wait for a complete count will be woken.
WakeupToCome ==
    /\ pc = "waiting" => ~permit
    /\ pc \in {"notified", "waiting"} /\ done = N => permit \/ Notifying(pass)

One(b) == IF b THEN 1 ELSE 0

\* Wake-ups for the spawner from the warm-up pass, still to come or on the way.
Leftover == One(Notifying("warmup")) + One(permit) + One(pc = "woken")

\* There is one notification in the warm-up pass, and it comes when all are
\* counted; a timed pass that is not complete has at most that one.
Leftovers ==
    /\ pass = "warmup" => early = 0 /\ Leftover <= 1 /\ (Leftover > 0 => done = N)
    /\ pass = "timed" => early <= 1 /\ (done < N => early + Leftover <= 1)

IInv ==
    /\ TypeOK
    /\ CountIsOfPass
    /\ SpawnerWaits
    /\ OneNotifier
    /\ WakeupToCome
    /\ Leftovers

-----------------------------------------------------------------------------

USE TasksAssumption

LEMMA CountedFinite ==
    ASSUME NEW q
    PROVE  /\ IsFiniteSet(Counted(q)) /\ Counted(q) \subseteq Tasks
           /\ Cardinality(Counted(q)) \in 0 .. N
           /\ Cardinality(Counted(q)) = N => Counted(q) = Tasks
<1>1. IsFiniteSet(Tasks) /\ Cardinality(Tasks) = N
  BY FS_Interval DEF Tasks
<1>2. Counted(q) \subseteq Tasks
  BY DEF Counted
<1>3. /\ IsFiniteSet(Counted(q)) /\ Cardinality(Counted(q)) <= N
      /\ Cardinality(Counted(q)) = N => Counted(q) = Tasks
  BY <1>1, <1>2, FS_Subset
<1>4. Cardinality(Counted(q)) \in Nat
  BY <1>3, FS_CardinalityType
<1>. QED  BY <1>2, <1>3, <1>4

States == {"new", "store", "count", "notify", "end"}

LEMMA Types ==
    ASSUME TypeOK
    PROVE  /\ task \in [Passes -> [Tasks -> States]]
           /\ pass \in Passes
           /\ permit \in BOOLEAN
           /\ done \in 0 .. N /\ early \in Nat
BY DEF TypeOK, States

LEMMA Stepped ==
    ASSUME TypeOK, NEW q \in Passes, NEW i \in Tasks, NEW to \in States,
           task' = [task EXCEPT ![q][i] = to]
    PROVE  /\ task' \in [Passes -> [Tasks -> States]]
           /\ \A r \in Passes, j \in Tasks :
                 task'[r][j] = IF r = q /\ j = i THEN to ELSE task[r][j]
BY Types

LEMMA LeftoverType == Leftover \in 0 .. 3
BY DEF Leftover, One

\* Only tasks of the current pass store and count.
LEMMA StoreAndCountOfPass ==
    ASSUME IInv, NEW q \in Passes, NEW i \in Tasks, task[q][i] \in {"store", "count"}
    PROVE  q = pass
BY DEF IInv, TypeOK, CountIsOfPass, Counted, Passes

LEMMA InitIInv == Init => IInv
<1>. SUFFICES ASSUME Init PROVE IInv
  OBVIOUS
<1>1. \A q \in Passes, i \in Tasks : task[q][i] = "new"
  BY DEF Init
<1>2. pass = "warmup" /\ pass \in Passes
  BY DEF Init, Passes
<1>3. TypeOK
  <2>1. task \in [Passes -> [Tasks -> {"new", "store", "count", "notify", "end"}]]
    BY DEF Init
  <2>2. pc = "spawn" /\ slot = {} /\ done = 0 /\ permit = FALSE /\ early = 0 /\ sum = {}
    BY DEF Init
  <2>3. done \in 0 .. N /\ early \in Nat
    BY <2>2
  <2>. QED  BY <1>2, <2>1, <2>2, <2>3 DEF TypeOK
<1>4. CountIsOfPass
  <2>1. Counted(pass) = {}
    BY <1>1, <1>2 DEF Counted
  <2>2. Cardinality(Counted(pass)) = 0
    BY <2>1, FS_EmptySet
  <2>3. slot = {i \in Tasks : task[pass][i] \in {"count", "notify", "end"}}
    BY <1>1, <1>2 DEF Init
  <2>. QED  BY <1>1, <1>2, <2>2, <2>3 DEF Init, CountIsOfPass, Passes
<1>5. SpawnerWaits /\ WakeupToCome
  BY DEF Init, SpawnerWaits, WakeupToCome
<1>6. OneNotifier
  BY <1>1, <1>2 DEF OneNotifier, Notifying
<1>7. Leftovers
  <2>1. ~Notifying("warmup")
    BY <1>1 DEF Notifying, Passes
  <2>. QED  BY <2>1 DEF Init, Leftovers, Leftover, One
<1>. QED  BY <1>3, <1>4, <1>5, <1>6, <1>7 DEF IInv

-----------------------------------------------------------------------------

LEMMA StoreKeeps ==
    ASSUME IInv, NEW q \in Passes, NEW i \in Tasks, Store(q, i)
    PROVE  IInv'
<1>0. /\ TypeOK /\ CountIsOfPass /\ SpawnerWaits /\ OneNotifier /\ WakeupToCome /\ Leftovers
      /\ UNCHANGED <<pass, pc, done, permit, early, sum>>
  BY DEF IInv, Store
<1>1. q = pass /\ task[q][i] = "store"
  BY StoreAndCountOfPass DEF Store, Step
<1>2. /\ task' \in [Passes -> [Tasks -> States]]
      /\ \A r \in Passes, j \in Tasks :
            task'[r][j] = IF r = q /\ j = i THEN "count" ELSE task[r][j]
  <2>1. "count" \in States
    BY DEF States
  <2>. QED  BY <1>0, <2>1, Stepped DEF Store, Step
<1>3. \A r \in Passes : Counted(r)' = Counted(r)
  BY <1>1, <1>2 DEF Counted
<1>4. \A r \in Passes : Notifying(r)' <=> Notifying(r)
  BY <1>1, <1>2 DEF Notifying
<1>5. TypeOK'
  <2>1. slot' \in SUBSET Tasks
    BY <1>0 DEF TypeOK, Store
  <2>. QED  BY <1>0, <1>2, <2>1 DEF TypeOK, States
<1>6. CountIsOfPass'
  <2>1. slot' = {j \in Tasks : task'[pass][j] \in {"count", "notify", "end"}}
    BY <1>0, <1>1, <1>2, Types DEF CountIsOfPass, Store
  <2>2. pass = "warmup" => \A j \in Tasks : task'["timed"][j] = "new"
    BY <1>0, <1>1, <1>2 DEF CountIsOfPass, Passes
  <2>. QED  BY <1>0, <1>3, <2>1, <2>2, Types DEF CountIsOfPass, Passes
<1>7. SpawnerWaits'
  BY <1>0, <1>1, <1>2, Types DEF SpawnerWaits
<1>8. OneNotifier'
  BY <1>0, <1>2, <1>4, Types DEF OneNotifier
<1>9. WakeupToCome'
  BY <1>0, <1>4, Types DEF WakeupToCome
<1>10. Leftovers'
  BY <1>0, <1>4 DEF Leftovers, Leftover, One, Passes
<1>. QED  BY <1>5, <1>6, <1>7, <1>8, <1>9, <1>10 DEF IInv

LEMMA CountKeeps ==
    ASSUME IInv, NEW q \in Passes, NEW i \in Tasks, Count(q, i)
    PROVE  IInv'
<1>0. /\ TypeOK /\ CountIsOfPass /\ SpawnerWaits /\ OneNotifier /\ WakeupToCome /\ Leftovers
      /\ UNCHANGED <<pass, pc, slot, permit, early, sum>> /\ done' = done + 1
  BY DEF IInv, Count
<1>1. q = pass /\ task[q][i] = "count"
  BY StoreAndCountOfPass DEF Count, Step
<1>. DEFINE to == IF done + 1 = N THEN "notify" ELSE "end"
<1>2. /\ task' \in [Passes -> [Tasks -> States]]
      /\ \A r \in Passes, j \in Tasks :
            task'[r][j] = IF r = q /\ j = i THEN to ELSE task[r][j]
  <2>1. to \in States
    BY DEF States
  <2>. QED  BY <1>0, <2>1, Stepped DEF Count, Step
<1>3. /\ Counted(pass)' = Counted(pass) \cup {i} /\ i \notin Counted(pass)
      /\ \A r \in Passes \ {pass} : Counted(r)' = Counted(r)
  BY <1>0, <1>1, <1>2 DEF Counted
<1>4. done' = Cardinality(Counted(pass)')
  BY <1>0, <1>3, CountedFinite, FS_AddElement DEF CountIsOfPass
<1>5. done' \in 0 .. N /\ done < N
  <2>1. Cardinality(Counted(pass)') \in 0 .. N
    <3>1. IsFiniteSet(Tasks) /\ Cardinality(Tasks) = N
      BY FS_Interval DEF Tasks
    <3>2. Counted(pass)' \subseteq Tasks
      BY DEF Counted
    <3>3. Cardinality(Counted(pass)') <= N /\ IsFiniteSet(Counted(pass)')
      BY <3>1, <3>2, FS_Subset
    <3>. QED  BY <3>3, FS_CardinalityType
  <2>. QED  BY <1>0, <1>4, <2>1, Types
<1>6. /\ ~Notifying(pass)
      /\ Notifying(pass)' <=> done' = N
      /\ \A r \in Passes \ {pass} : Notifying(r)' <=> Notifying(r)
  <2>1. ~Notifying(pass)
    BY <1>0, <1>5, Types DEF OneNotifier
  <2>. QED  BY <1>0, <1>1, <1>2, <2>1 DEF Notifying
<1>7. TypeOK'
  BY <1>0, <1>2, <1>5 DEF TypeOK, States
<1>8. CountIsOfPass'
  <2>1. slot' = {j \in Tasks : task'[pass][j] \in {"count", "notify", "end"}}
    BY <1>0, <1>1, <1>2, Types DEF CountIsOfPass
  <2>2. pass = "warmup" => \A j \in Tasks : task'["timed"][j] = "new"
    BY <1>0, <1>1, <1>2 DEF CountIsOfPass, Passes
  <2>. QED  BY <1>0, <1>3, <1>4, <2>1, <2>2, Types DEF CountIsOfPass, Passes
<1>9. SpawnerWaits'
  BY <1>0, <1>1, <1>2, <1>5, Types DEF SpawnerWaits
<1>10. OneNotifier'
  <2>. SUFFICES ASSUME NEW r \in Passes, NEW j \in Tasks, NEW k \in Tasks,
                       task'[r][j] = "notify", task'[r][k] = "notify"
                PROVE  j = k
    BY <1>0, <1>6 DEF OneNotifier
  <2>. QED  BY <1>0, <1>1, <1>2, <1>6 DEF OneNotifier, Notifying
<1>11. WakeupToCome'
  BY <1>0, <1>6 DEF WakeupToCome
<1>12. Leftovers'
  <2>1. CASE pass = "warmup"
    <3>1. ~(done = N)
      BY <1>5, <1>0, Types
    <3>2. ~(Leftover > 0)
      BY <1>0, <2>1, <3>1 DEF Leftovers
    <3>3. ~permit /\ pc # "woken"
      BY <3>2 DEF Leftover, One
    <3>. QED  BY <1>0, <1>6, <2>1, <3>3 DEF Leftovers, Leftover, One
  <2>2. CASE pass = "timed"
    <3>1. Leftover' = Leftover
      BY <1>0, <1>6, <2>2 DEF Leftover, One, Passes
    <3>. QED  BY <1>0, <1>5, <2>2, <3>1 DEF Leftovers
  <2>. QED  BY <1>0, <2>1, <2>2, Types DEF Passes
<1>. QED  BY <1>7, <1>8, <1>9, <1>10, <1>11, <1>12 DEF IInv

LEMMA NotifyKeeps ==
    ASSUME IInv, NEW q \in Passes, NEW i \in Tasks, NotifyOne(q, i)
    PROVE  IInv'
<1>0. /\ TypeOK /\ CountIsOfPass /\ SpawnerWaits /\ OneNotifier /\ WakeupToCome /\ Leftovers
      /\ UNCHANGED <<pass, slot, done, early, sum>> /\ task[q][i] = "notify"
      /\ pc = "waiting" => pc' = "woken" /\ permit' = permit
      /\ pc # "waiting" => pc' = pc /\ permit' = TRUE
  BY DEF IInv, NotifyOne, Step
<1>1. /\ task' \in [Passes -> [Tasks -> States]]
      /\ \A r \in Passes, j \in Tasks :
            task'[r][j] = IF r = q /\ j = i THEN "end" ELSE task[r][j]
  <2>1. "end" \in States
    BY DEF States
  <2>2. task' = [task EXCEPT ![q][i] = "end"]
    BY DEF NotifyOne, Step
  <2>. QED  BY <1>0, <2>1, <2>2, Stepped
<1>2. \A r \in Passes : Counted(r)' = Counted(r)
  BY <1>0, <1>1 DEF Counted
<1>3. /\ Notifying(q) /\ ~Notifying(q)'
      /\ \A r \in Passes \ {q} : Notifying(r)' <=> Notifying(r)
  BY <1>0, <1>1 DEF OneNotifier, Notifying
<1>4. TypeOK'
  <2>1. permit' \in BOOLEAN
    BY <1>0, Types
  <2>. QED  BY <1>0, <1>1, <2>1 DEF TypeOK, States
<1>5. CountIsOfPass'
  <2>1. slot' = {j \in Tasks : task'[pass][j] \in {"count", "notify", "end"}}
    BY <1>0, <1>1, Types DEF CountIsOfPass
  <2>2. pass = "warmup" => \A j \in Tasks : task'["timed"][j] = "new"
    BY <1>0, <1>1 DEF CountIsOfPass, Passes
  <2>. QED  BY <1>0, <1>2, <2>1, <2>2, Types DEF CountIsOfPass, Passes
<1>6. SpawnerWaits'
  BY <1>0, <1>1, Types DEF SpawnerWaits
<1>7. OneNotifier'
  <2>1. \A r \in Passes, j, k \in Tasks :
           task'[r][j] = "notify" /\ task'[r][k] = "notify" => j = k
    BY <1>0, <1>1 DEF OneNotifier
  <2>. QED  BY <1>0, <1>3, <2>1, Types DEF OneNotifier
<1>8. WakeupToCome'
  BY <1>0, Types DEF WakeupToCome
<1>9. Leftovers'
  <2>1. CASE q = "warmup"
    <3>0. Notifying("warmup") /\ ~Notifying("warmup")'
      BY <1>3, <2>1
    <3>1. CASE pc = "waiting"
      <4>1. ~permit /\ ~permit' /\ pc # "woken" /\ pc' = "woken"
        BY <1>0, <3>1 DEF WakeupToCome
      <4>2. Leftover' = Leftover
        BY <3>0, <4>1 DEF Leftover, One
      <4>. QED  BY <1>0, <4>2, LeftoverType DEF Leftovers
    <3>2. CASE pc # "waiting" /\ permit
      <4>1. Leftover > 1
        BY <3>0, <3>2 DEF Leftover, One
      <4>. QED  BY <1>0, <4>1, LeftoverType, Types DEF Leftovers, Passes
    <3>3. CASE pc # "waiting" /\ ~permit
      <4>1. permit' /\ pc' = pc
        BY <1>0, <3>3
      <4>2. Leftover' = Leftover
        BY <3>0, <3>3, <4>1 DEF Leftover, One
      <4>. QED  BY <1>0, <4>2, LeftoverType DEF Leftovers
    <3>. QED  BY <3>1, <3>2, <3>3
  <2>2. CASE q = "timed"
    <3>1. pass = "timed" /\ done = N
      BY <1>0, <1>3, <2>2, Types DEF CountIsOfPass, OneNotifier, Passes
    <3>. QED  BY <1>0, <3>1, Types DEF Leftovers
  <2>. QED  BY <2>1, <2>2 DEF Passes
<1>. QED  BY <1>4, <1>5, <1>6, <1>7, <1>8, <1>9 DEF IInv

LEMMA SpawnKeeps ==
    ASSUME IInv, NEW i \in Tasks, Spawn(i)
    PROVE  IInv'
<1>0. /\ TypeOK /\ CountIsOfPass /\ SpawnerWaits /\ OneNotifier /\ WakeupToCome /\ Leftovers
      /\ UNCHANGED <<pass, slot, done, permit, early, sum>>
      /\ pc = "spawn" /\ pc' = (IF i = N THEN "check" ELSE "spawn")
      /\ task[pass][i] = "new" /\ \A j \in 1 .. i - 1 : task[pass][j] # "new"
  BY DEF IInv, Spawn
<1>1. /\ task' \in [Passes -> [Tasks -> States]]
      /\ \A r \in Passes, j \in Tasks :
            task'[r][j] = IF r = pass /\ j = i THEN "store" ELSE task[r][j]
  <2>1. "store" \in States /\ pass \in Passes
    BY <1>0, Types DEF States
  <2>. QED  BY <1>0, <2>1, Stepped DEF Spawn
<1>2. \A r \in Passes : Counted(r)' = Counted(r)
  BY <1>0, <1>1 DEF Counted
<1>3. \A r \in Passes : Notifying(r)' <=> Notifying(r)
  BY <1>0, <1>1 DEF Notifying
<1>4. TypeOK'
  BY <1>0, <1>1 DEF TypeOK, States
<1>5. CountIsOfPass'
  <2>1. slot' = {j \in Tasks : task'[pass][j] \in {"count", "notify", "end"}}
    BY <1>0, <1>1, Types DEF CountIsOfPass
  <2>2. pass = "warmup" => \A j \in Tasks : task'["timed"][j] = "new"
    BY <1>0, <1>1 DEF CountIsOfPass, Passes
  <2>. QED  BY <1>0, <1>2, <2>1, <2>2, Types DEF CountIsOfPass, Passes
<1>6. SpawnerWaits'
  <2>1. ASSUME i = N, NEW j \in Tasks PROVE task'[pass][j] # "new"
    BY <1>0, <1>1, <2>1, Types DEF Tasks
  <2>. QED  BY <1>0, <2>1 DEF SpawnerWaits
<1>7. OneNotifier'
  <2>1. \A r \in Passes, j, k \in Tasks :
           task'[r][j] = "notify" /\ task'[r][k] = "notify" => j = k
    BY <1>0, <1>1 DEF OneNotifier
  <2>. QED  BY <1>0, <1>3, <2>1, Types DEF OneNotifier
<1>8. WakeupToCome'
  BY <1>0 DEF WakeupToCome
<1>9. Leftovers'
  BY <1>0, <1>3 DEF Leftovers, Leftover, One, Passes
<1>. QED  BY <1>4, <1>5, <1>6, <1>7, <1>8, <1>9 DEF IInv

\* The steps of the spawner's loop, and the sum, leave tasks and slots alone.
LEMMA LoopKeeps ==
    ASSUME IInv, Check \/ TakePermit \/ Wait \/ Resume \/ Sum
    PROVE  IInv'
<1>0. /\ TypeOK /\ CountIsOfPass /\ SpawnerWaits /\ OneNotifier /\ WakeupToCome /\ Leftovers
      /\ UNCHANGED <<pass, task, slot, done>>
  BY DEF IInv, Check, TakePermit, Wait, Resume, Sum
<1>1. /\ \A r \in Passes : Counted(r)' = Counted(r) /\ (Notifying(r)' <=> Notifying(r))
      /\ Counted(pass)' = Counted(pass) /\ (Notifying(pass)' <=> Notifying(pass))
  BY <1>0 DEF Counted, Notifying
<1>2. CountIsOfPass'
  BY <1>0, <1>1 DEF CountIsOfPass, Passes
<1>3. OneNotifier'
  BY <1>0, <1>1 DEF OneNotifier
<1>4. SpawnerWaits'
  BY <1>0, Types DEF SpawnerWaits, Check, TakePermit, Wait, Resume, Sum, Passes
<1>5. TypeOK'
  <2>0. permit' \in BOOLEAN
    BY <1>0, Types DEF Check, TakePermit, Wait, Resume, Sum
  <2>1. early' \in Nat
    BY <1>0, Types DEF Check, TakePermit, Wait, Resume, Sum
  <2>2. pc' \in {"check", "notified", "waiting", "woken", "sum", "reset", "reported"}
    BY <1>0 DEF Check, TakePermit, Wait, Resume, Sum
  <2>3. sum' \in SUBSET Tasks
    BY <1>0 DEF TypeOK, Check, TakePermit, Wait, Resume, Sum
  <2>. QED  BY <1>0, <2>0, <2>1, <2>2, <2>3 DEF TypeOK
<1>6. WakeupToCome'
  BY <1>0, <1>1, Types DEF WakeupToCome, Check, TakePermit, Wait, Resume, Sum
<1>7. Leftovers'
  <2>0. Notifying("warmup")' <=> Notifying("warmup")
    BY <1>1 DEF Passes
  <2>1. CASE Check \/ Wait \/ Sum
    <3>1. /\ UNCHANGED <<permit, early>> /\ pc # "woken" /\ pc' # "woken"
      BY <2>1 DEF Check, Wait, Sum
    <3>2. Leftover' = Leftover
      BY <2>0, <3>1 DEF Leftover, One
    <3>. QED  BY <1>0, <3>1, <3>2 DEF Leftovers
  <2>2. CASE TakePermit
    <3>1. Leftover' = Leftover
      BY <2>0, <2>2 DEF Leftover, One, TakePermit
    <3>. QED  BY <1>0, <2>2, <3>1 DEF Leftovers, TakePermit
  <2>3. CASE Resume
    <3>1. Leftover \in Nat /\ Leftover' = Leftover - 1 /\ Leftover > 0
      BY <2>0, <2>3 DEF Leftover, One, Resume
    <3>. QED  BY <1>0, <2>3, <3>1, Types DEF Leftovers, Resume
  <2>. QED  BY <2>1, <2>2, <2>3
<1>. QED  BY <1>2, <1>3, <1>4, <1>5, <1>6, <1>7 DEF IInv

LEMMA ResetKeeps ==
    ASSUME IInv, Reset
    PROVE  IInv'
<1>0. /\ TypeOK /\ CountIsOfPass /\ SpawnerWaits /\ OneNotifier /\ WakeupToCome /\ Leftovers
      /\ UNCHANGED <<task, permit>>
      /\ pc = "reset" /\ pc' = "spawn" /\ pass' = "timed"
      /\ slot' = {} /\ done' = 0 /\ early' = 0 /\ sum' = {}
  BY DEF IInv, Reset
<1>1. pass = "warmup" /\ done = N
  BY <1>0 DEF SpawnerWaits
<1>2. Counted("warmup") = Tasks
  BY <1>0, <1>1, CountedFinite DEF CountIsOfPass
<1>3. \A i \in Tasks : task["timed"][i] = "new"
  BY <1>0, <1>1 DEF CountIsOfPass
<1>4. /\ Counted("timed") = {} /\ ~Notifying("timed")
      /\ \A r : Counted(r)' = Counted(r) /\ (Notifying(r)' <=> Notifying(r))
  BY <1>0, <1>3 DEF Counted, Notifying
<1>5. TypeOK'
  <2>1. done' \in 0 .. N /\ early' \in Nat /\ pass' \in Passes
    BY <1>0 DEF Passes
  <2>. QED  BY <1>0, <2>1 DEF TypeOK
<1>6. CountIsOfPass'
  <2>1. Counted(pass)' = {}
    BY <1>0, <1>3 DEF Counted
  <2>2. Cardinality(Counted(pass))' = 0
    BY <2>1, FS_EmptySet
  <2>3. slot' = {i \in Tasks : task'[pass'][i] \in {"count", "notify", "end"}}
    BY <1>0, <1>3
  <2>4. Counted("warmup")' = Tasks
    BY <1>2, <1>4
  <2>. QED  BY <1>0, <2>2, <2>3, <2>4 DEF CountIsOfPass
<1>7. SpawnerWaits'
  BY <1>0 DEF SpawnerWaits
<1>8. OneNotifier'
  <2>1. ~Notifying(pass)'
    BY <1>0, <1>3 DEF Notifying
  <2>2. \A q \in Passes, i, j \in Tasks :
           task'[q][i] = "notify" /\ task'[q][j] = "notify" => i = j
    BY <1>0 DEF OneNotifier
  <2>. QED  BY <2>1, <2>2 DEF OneNotifier
<1>9. WakeupToCome'
  BY <1>0 DEF WakeupToCome
<1>10. Leftovers'
  <2>1. Leftover' = Leftover
    BY <1>0, <1>4 DEF Leftover, One
  <2>2. Leftover <= 1
    BY <1>0, <1>1 DEF Leftovers
  <2>. QED  BY <1>0, <2>1, <2>2, LeftoverType DEF Leftovers
<1>. QED  BY <1>5, <1>6, <1>7, <1>8, <1>9, <1>10 DEF IInv

LEMMA StutterKeeps ==
    ASSUME IInv, UNCHANGED vars
    PROVE  IInv'
BY DEF IInv, vars, TypeOK, CountIsOfPass, Counted, SpawnerWaits, OneNotifier, Notifying,
       WakeupToCome, Leftovers, Leftover, One

LEMMA NextIInv == IInv /\ [Next]_vars => IInv'
BY StoreKeeps, CountKeeps, NotifyKeeps, SpawnKeeps, LoopKeeps, ResetKeeps, StutterKeeps
   DEF Next, Task, Spawner, Exited

\* The invariant holds in every state.
THEOREM Inductive == Spec => []IInv
BY InitIInv, NextIInv, PTL DEF Spec

\* A spawner that waits for a complete count has a notify_one to come.
THEOREM WakeupIsNotLost == Spec => []NoLostWakeup
<1>1. IInv => NoLostWakeup
  BY DEF IInv, WakeupToCome, NoLostWakeup
<1>. QED  BY <1>1, Inductive, PTL

\* A permit left over from the warm-up pass costs one loop check at most.
THEOREM AtMostOneExtraCheck == Spec => []OneExtraCheck
<1>1. IInv => OneExtraCheck
  BY Types DEF IInv, Leftovers, OneExtraCheck, Passes
<1>. QED  BY <1>1, Inductive, PTL

\* When all are counted, all have stored.
LEMMA CompleteCount ==
    ASSUME IInv, done = N
    PROVE  Counted(pass) = Tasks /\ slot = Tasks
<1>1. Counted(pass) = Tasks
  BY CountedFinite DEF IInv, CountIsOfPass
<1>2. \A i \in Tasks : task[pass][i] \in {"count", "notify", "end"}
  BY <1>1 DEF Counted
<1>. QED  BY <1>1, <1>2 DEF IInv, CountIsOfPass

\* The two passes do not disturb each other.
THEOREM PassesAreApart == Spec => []PassesApart
<1>1. ASSUME IInv PROVE PassesApart
  <2>1. TypeOK
    BY <1>1 DEF IInv
  <2>2. WarmupIsOver
    <3>1. ASSUME pass = "timed" \/ pc = "reset" PROVE Counted("warmup") = Tasks
      BY <1>1, <3>1, CompleteCount DEF IInv, CountIsOfPass, SpawnerWaits
    <3>. QED  BY <3>1 DEF WarmupIsOver, Counted
  <2>3. SumAfterAll
    BY <1>1, CompleteCount DEF IInv, SpawnerWaits, SumAfterAll
  <2>. QED  BY <2>1, <2>2, <2>3 DEF PassesApart
<1>. QED  BY <1>1, Inductive, PTL

\* With stores that become visible in order no slot is missing from the sum.
THEOREM StrongSumIsComplete ==
    ASSUME Strong
    PROVE  Spec => []SumComplete
<1>1. Init => SumComplete
  BY DEF Init, SumComplete
<1>2. ASSUME IInv, SumComplete, [Next]_vars PROVE SumComplete'
  <2>1. CASE Sum
    <3>1. slot = Tasks
      BY <1>2, <2>1, CompleteCount DEF Sum, IInv, SpawnerWaits
    <3>. QED  BY <2>1, <3>1 DEF Sum, SumComplete
  <2>2. CASE Check \/ TakePermit \/ Wait \/ Resume \/ Reset
    BY <2>2 DEF Check, TakePermit, Wait, Resume, Reset, SumComplete
  <2>3. ASSUME NEW i \in Tasks, Spawn(i) PROVE SumComplete'
    BY <2>3 DEF Spawn, SumComplete
  <2>4. ASSUME NEW q \in Passes, NEW i \in Tasks, Store(q, i) \/ Count(q, i) \/ NotifyOne(q, i)
        PROVE  SumComplete'
    BY <1>2, <2>4 DEF Store, Count, NotifyOne, SumComplete
  <2>5. CASE UNCHANGED vars
    BY <1>2, <2>5 DEF vars, SumComplete
  <2>. QED
    BY <1>2, <2>1, <2>2, <2>3, <2>4, <2>5 DEF Next, Task, Spawner, Exited
<1>. QED  BY <1>1, <1>2, Inductive, PTL DEF Spec

-----------------------------------------------------------------------------
(* In the timed pass storing a slot is Account, and the sum is Report.     *)

LEMMA StoreAccounts ==
    ASSUME IInv, NEW q \in Passes, NEW i \in Tasks, Store(q, i)
    PROVE  [EO!Next]_(EO!vars)
<1>1. q = pass /\ task[pass][i] = "store"
  BY StoreAndCountOfPass DEF Store, Step
<1>2. UNCHANGED <<pass, pc>> /\ slot' = slot \cup {i}
  BY DEF Store
<1>3. CASE pass = "timed"
  <2>1. i \notin slot
    BY <1>1 DEF IInv, CountIsOfPass
  <2>2. pc # "reported"
    <3>1. ASSUME pc = "reported" PROVE FALSE
      <4>1. Counted(pass) = Tasks
        BY <3>1, CompleteCount DEF IInv, SpawnerWaits
      <4>. QED  BY <1>1, <4>1 DEF Counted
    <3>. QED  BY <3>1
  <2>3. EO!Account(i)
    BY <1>2, <1>3, <2>1, <2>2 DEF EO!Account
  <2>. QED  BY <2>3 DEF EO!Next
<1>4. CASE pass # "timed"
  BY <1>2, <1>4 DEF EO!vars
<1>. QED  BY <1>3, <1>4

LEMMA SumReports ==
    ASSUME IInv, Sum
    PROVE  [EO!Next]_(EO!vars)
<1>1. pc = "sum" /\ UNCHANGED <<pass, slot>>
  BY DEF Sum
<1>2. slot = Tasks
  BY <1>1, CompleteCount DEF IInv, SpawnerWaits
<1>3. CASE pass = "timed"
  <2>1. pc' = "reported"
    BY <1>3 DEF Sum
  <2>2. EO!Report
    BY <1>1, <1>2, <1>3, <2>1 DEF EO!Report
  <2>. QED  BY <2>2 DEF EO!Next
<1>4. CASE pass = "warmup"
  BY <1>1, <1>4 DEF Sum, EO!vars
<1>. QED  BY <1>3, <1>4, Types DEF IInv, Passes

\* The timed pass accounts for every task once and reports after all of them,
\* whatever is left of the warm-up pass.
THEOREM Refinement == Spec => ImplementsExactlyOnce
<1>1. Init => EO!Init
  BY DEF Init, EO!Init
<1>2. IInv /\ [Next]_vars => [EO!Next]_(EO!vars)
  <2>. SUFFICES ASSUME IInv, [Next]_vars PROVE [EO!Next]_(EO!vars)
    OBVIOUS
  <2>1. CASE Reset
    <3>1. pass = "warmup" /\ slot' = {} /\ pc = "reset" /\ pc' = "spawn"
      BY <2>1 DEF Reset, IInv, SpawnerWaits
    <3>. QED  BY <3>1 DEF EO!vars
  <2>2. CASE Check \/ TakePermit \/ Wait \/ Resume
    BY <2>2 DEF Check, TakePermit, Wait, Resume, EO!vars
  <2>3. ASSUME NEW i \in Tasks, Spawn(i) PROVE UNCHANGED EO!vars
    BY <2>3 DEF Spawn, EO!vars
  <2>4. ASSUME NEW q \in Passes, NEW i \in Tasks, Count(q, i) \/ NotifyOne(q, i)
        PROVE  UNCHANGED EO!vars
    BY <2>4 DEF Count, NotifyOne, EO!vars
  <2>5. CASE UNCHANGED vars
    BY <2>5 DEF vars, EO!vars
  <2>. QED
    BY <2>1, <2>2, <2>3, <2>4, <2>5, StoreAccounts, SumReports DEF Next, Task, Spawner, Exited
<1>. QED  BY <1>1, <1>2, Inductive, PTL DEF Spec, EO!Spec, ImplementsExactlyOnce
=============================================================================
