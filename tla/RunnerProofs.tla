---------------------------- MODULE RunnerProofs ----------------------------
(***************************************************************************)
(* Proofs about Runner and what Summary and Statistics make of its rows,   *)
(* for any number of implementations, configurations, rounds and runs,     *)
(* whatever the binaries do and whenever the runner is stopped; and about  *)
(* Command, for any sizes, threads and numbers of variants.                *)
(***************************************************************************)
EXTENDS Runner, Command, SequenceTheorems, FiniteSetTheorems, WellFoundedInduction, TLAPS

-----------------------------------------------------------------------------
(* The majority, of any log of rows.                                       *)

\* The implementations whose runs are all right.
Honest(log, k) ==
    {impl \in Involved(log) :
        \A i \in Unverified(log) : log[i].impl = impl => log[i].checksum = k}

LEMMA InvolvedFinite ==
    ASSUME NEW log, IsFiniteSet(DOMAIN log)
    PROVE  /\ IsFiniteSet(Involved(log))
           /\ \A k : Voters(log, k) \subseteq Involved(log)
<1>1. IsFiniteSet(Unverified(log))
  BY FS_Subset DEF Unverified
<1>2. IsFiniteSet(Involved(log))
  <2>1. [i \in Unverified(log) |-> log[i].impl] \in Surjection(Unverified(log), Involved(log))
    BY DEF Surjection, Involved
  <2>. QED  BY <1>1, <2>1, FS_Surjection
<1>. QED  BY <1>2 DEF Voters, Involved

LEMMA VotersOf ==
    ASSUME NEW log, NEW k, NEW impl
    PROVE  impl \in Voters(log, k)
              <=> \E i \in Unverified(log) : log[i].impl = impl /\ log[i].checksum = k
BY DEF Voters

(* If all runs of more than half of the implementations printed k, then k  *)
(* is accepted and nothing else, whatever the others printed and whenever. *)
LEMMA MajorityAccepted ==
    ASSUME NEW log, IsFiniteSet(DOMAIN log), NEW right,
           2 * Cardinality(Honest(log, right)) > Cardinality(Involved(log))
    PROVE  Accepted(log) = {right}
<1>. DEFINE all    == Cardinality(Involved(log))
            votes(k) == Cardinality(Voters(log, k))
            honest == Cardinality(Honest(log, right))
<1>1. IsFiniteSet(Involved(log)) /\ all \in Nat
  BY InvolvedFinite, FS_CardinalityType
<1>2. ASSUME NEW k PROVE IsFiniteSet(Voters(log, k)) /\ votes(k) \in Nat
  BY <1>1, InvolvedFinite, FS_Subset, FS_CardinalityType
<1>3. Honest(log, right) \subseteq Involved(log) /\ IsFiniteSet(Honest(log, right)) /\ honest \in Nat
  BY <1>1, FS_Subset, FS_CardinalityType DEF Honest
<1>4. Honest(log, right) \subseteq Voters(log, right)
  <2>. SUFFICES ASSUME NEW impl \in Honest(log, right) PROVE impl \in Voters(log, right)
    OBVIOUS
  <2>1. PICK i \in Unverified(log) : log[i].impl = impl
    BY DEF Honest, Involved
  <2>. QED  BY <2>1, VotersOf DEF Honest
<1>5. honest <= votes(right)
  BY <1>2, <1>4, FS_Subset
<1>6. ASSUME NEW k, k # right PROVE votes(k) < votes(right)
  <2>1. Voters(log, k) \cap Honest(log, right) = {}
    BY <1>6, VotersOf DEF Honest
  <2>2. ~(votes(k) + honest > all)
    BY <1>1, <1>3, <2>1, InvolvedFinite, FS_MajoritiesIntersect
  <2>3. votes(k) \in Nat /\ votes(right) \in Nat
    BY <1>2
  <2>. QED  BY <1>1, <1>3, <1>5, <2>2, <2>3
<1>7. right \in Reported(log)
  <2>1. Honest(log, right) # {}
    <3>. SUFFICES ASSUME Honest(log, right) = {} PROVE FALSE
      OBVIOUS
    <3>1. honest = 0
      BY FS_EmptySet
    <3>. QED  BY <1>1, <3>1
  <2>2. PICK i \in Unverified(log) : log[i].checksum = right
    BY <1>4, <2>1, VotersOf
  <2>. QED  BY <2>2 DEF Reported
<1>. DEFINE Wins(k) == \A m \in Reported(log) \ {k} :
                          \/ votes(m) < votes(k)
                          \/ votes(m) = votes(k) /\ FirstRow(log, k) < FirstRow(log, m)
<1>8. Wins(right)
  BY <1>6
<1>9. ASSUME NEW k \in Reported(log), Wins(k) PROVE k = right
  <2>. SUFFICES ASSUME k # right PROVE FALSE
    OBVIOUS
  <2>1. votes(right) < votes(k) \/ votes(right) = votes(k)
    BY <1>7, <1>9
  <2>2. votes(k) < votes(right)
    BY <1>6
  <2>3. votes(k) \in Nat /\ votes(right) \in Nat
    BY <1>2
  <2>. QED  BY <2>1, <2>2, <2>3
<1>10. Winner(log) = right
  <2>1. Winner(log) = CHOOSE k \in Reported(log) : Wins(k)
    BY DEF Winner
  <2>. QED  BY <1>7, <1>8, <1>9, <2>1
<1>11. 2 * votes(right) > all
  <2>1. votes(right) \in Nat
    BY <1>2
  <2>. QED  BY <1>1, <1>3, <1>5, <2>1
<1>. QED  BY <1>7, <1>10, <1>11 DEF Accepted

\* At most one checksum is accepted.
LEMMA AcceptedIsOne ==
    ASSUME NEW log, NEW k \in Accepted(log)
    PROVE  k = Winner(log) /\ k \in Reported(log)
BY DEF Accepted

-----------------------------------------------------------------------------
(* What resolve_unverified changes.                                        *)

\* The rows that resolve_unverified finds wrong, or the runner found wrong.
LEMMA Resolved ==
    ASSUME NEW log, NEW i \in DOMAIN log
    PROVE  /\ DOMAIN resolve_unverified(log) = DOMAIN log
           /\ i \notin Unverified(log) => resolve_unverified(log)[i] = log[i]
           /\ i \in Unverified(log) =>
                 resolve_unverified(log)[i] =
                    [log[i] EXCEPT !.valid = IF log[i].checksum \in Accepted(log) THEN "yes" ELSE "no"]
BY DEF resolve_unverified

-----------------------------------------------------------------------------
(* The inductive invariant.                                                *)

SameGroup(i, j) == rows[i].config = rows[j].config /\ rows[i].impl = rows[j].impl

\* Within a group the rounds go up, and end with the first bad row.
OneByOne ==
    \A i, j \in DOMAIN rows :
        i < j /\ SameGroup(i, j) => rows[i].round < rows[j].round /\ ~Bad(rows[i])

\* No round is left out.
Gapless ==
    \A i \in DOMAIN rows : \A q \in 0 .. rows[i].round - 1 :
        \E j \in DOMAIN rows : SameGroup(i, j) /\ rows[j].round = q

\* What a row says of a run that came to an end.
Judged ==
    \A i \in DOMAIN rows :
        rows[i].status = "ok" =>
            /\ rows[i].checksum \in Checksums
            /\ rows[i].valid = Validity("ok", rows[i].checksum)
            /\ rows[i].phase = IF rows[i].round < plan.warmup THEN "warmup" ELSE "measure"

Failed(c, impl) == \E i \in Group(rows, c, impl) : Bad(rows[i])

HasRun(c, impl, q) == \E i \in Group(rows, c, impl) : rows[i].round = q

\* An implementation is done with a configuration: it failed, or ran every round.
Settled(c, impl) == Failed(c, impl) \/ \A q \in 0 .. Rounds - 1 : HasRun(c, impl, q)

\* Where the rows of the configuration being run are.
Progress ==
    stage = "rounds" =>
        /\ config \in 1 .. plan.configs
        /\ todo \subseteq active
        /\ \A impl \in Impls \ active : Failed(config, impl)
        /\ \A impl \in active :
              /\ ~Failed(config, impl)
              /\ \A q \in 0 .. Rounds - 1 :
                    HasRun(config, impl, q) <=> q < round \/ (q = round /\ impl \notin todo)

\* The configurations are run in order, and left when they are settled.
InOrder ==
    /\ stage \in {"next", "rounds"} =>
          \A i \in DOMAIN rows :
              rows[i].config < config \/ (rows[i].config = config /\ stage = "rounds")
    /\ stage # "stopped" => \A c \in 1 .. plan.configs, impl \in Impls :
                                c < config => Settled(c, impl)
    /\ stage = "finished" => config = plan.configs + 1

IInv ==
    /\ TypeOK
    /\ OneByOne
    /\ Gapless
    /\ Judged
    /\ Progress
    /\ InOrder
    /\ KillLosesOnlySkips

-----------------------------------------------------------------------------
(* Types.                                                                  *)

LEMMA PlanTypes ==
    ASSUME plan \in Plans
    PROVE  /\ IsFiniteSet(Impls) /\ plan.configs \in Nat /\ plan.verifiable \in BOOLEAN
           /\ plan.warmup \in Nat /\ plan.reps \in Nat \ {0}
           /\ Rounds = plan.warmup + plan.reps /\ Rounds \in Nat \ {0}
           /\ plan.speeds \subseteq Nat
BY RunnerAssumption DEF Impls, Rounds

LEMMA RowFields ==
    ASSUME NEW r \in Row
    PROVE  /\ r.impl \in Impls /\ r.config \in 1 .. plan.configs
           /\ r.phase \in {"warmup", "measure"} /\ r.round \in 0 .. Rounds - 1
           /\ r.status \in {"ok", "error", "skipped"} /\ r.valid \in {"yes", "no", "unknown"}
           /\ DOMAIN r = {"impl", "config", "phase", "round", "status", "checksum", "speed", "valid"}
BY DEF Row

LEMMA RowTypes ==
    ASSUME TypeOK
    PROVE  /\ Len(rows) \in Nat /\ DOMAIN rows = 1 .. Len(rows)
           /\ \A i \in DOMAIN rows :
                 /\ rows[i] \in Row /\ i \in Nat
                 /\ rows[i].impl \in Impls /\ rows[i].config \in 1 .. plan.configs
                 /\ rows[i].config \in Nat
                 /\ rows[i].phase \in {"warmup", "measure"} /\ rows[i].round \in 0 .. Rounds - 1
                 /\ rows[i].round \in Nat
                 /\ rows[i].status \in {"ok", "error", "skipped"}
                 /\ rows[i].valid \in {"yes", "no", "unknown"}
<1>1. rows \in Seq(Row) /\ plan \in Plans
  BY DEF TypeOK
<1>2. ASSUME NEW i \in DOMAIN rows PROVE rows[i] \in Row /\ i \in Nat
  BY <1>1, ElementOfSeq
<1>3. Len(rows) \in Nat /\ DOMAIN rows = 1 .. Len(rows)
  BY <1>1
<1>4. \A i \in DOMAIN rows : rows[i].config \in Nat /\ rows[i].round \in Nat
  <2>. SUFFICES ASSUME NEW i \in DOMAIN rows
                PROVE  rows[i].config \in Nat /\ rows[i].round \in Nat
    OBVIOUS
  <2>1. rows[i].config \in 1 .. plan.configs /\ rows[i].round \in 0 .. Rounds - 1
    BY <1>2, RowFields
  <2>. QED  BY <1>1, <2>1, PlanTypes
<1>. QED  BY <1>2, <1>3, <1>4, RowFields

\* A row of the configuration being run.
LEMMA RowBuilt ==
    ASSUME TypeOK, config <= plan.configs, NEW impl \in Impls,
           NEW ph \in {"warmup", "measure"}, NEW rd \in 0 .. Rounds - 1,
           NEW st \in {"ok", "error", "skipped"}, NEW ck \in Checksums \cup {NoChecksum},
           NEW sp \in plan.speeds \cup {0}, NEW va \in {"yes", "no", "unknown"}
    PROVE  [impl |-> impl, config |-> config, phase |-> ph, round |-> rd, status |-> st,
            checksum |-> ck, speed |-> sp, valid |-> va] \in Row
<1>1. config \in 1 .. plan.configs
  <2>1. config \in 1 .. plan.configs + 1 /\ plan.configs \in Nat
    BY PlanTypes DEF TypeOK
  <2>. QED  BY <2>1
<1>. QED  BY <1>1 DEF Row

\* What run_one may return.
LEMMA ResultFacts ==
    ASSUME TypeOK, config <= plan.configs, NEW impl \in Impls, NEW r \in Results(impl)
    PROVE  /\ r \in Row
           /\ r.impl = impl /\ r.config = config /\ r.round = round
           /\ r.status = "ok" =>
                 /\ r.checksum \in Checksums
                 /\ r.valid = Validity("ok", r.checksum)
                 /\ r.phase = IF round < plan.warmup THEN "warmup" ELSE "measure"
<1>. DEFINE ph == IF round < plan.warmup THEN "warmup" ELSE "measure"
            Made(st, ck, sp) == [impl |-> impl, config |-> config, phase |-> ph, round |-> round,
                                 status |-> st, checksum |-> ck, speed |-> sp, valid |-> Validity(st, ck)]
<1>1. PICK st \in {"ok", "error", "skipped"}, ck \in Checksums \cup {NoChecksum},
           sp \in plan.speeds \cup {0} :
         r = Made(st, ck, sp) /\ (st = "ok" => ck \in Checksums)
  <2>1. PICK o \in ({"ok"} \X {Right} \X plan.speeds) \cup ({"ok"} \X (Checksums \ {Right}) \X {0})
              \cup ((IF plan.skips THEN {"error", "skipped"} ELSE {"error"}) \X {NoChecksum} \X {0}) :
            r = Made(o[1], o[2], o[3])
    BY DEF Results
  <2>2. /\ o[1] \in {"ok", "error", "skipped"} /\ o[2] \in Checksums \cup {NoChecksum}
        /\ o[3] \in plan.speeds \cup {0} /\ (o[1] = "ok" => o[2] \in Checksums)
    <3>1. CASE o \in {"ok"} \X {Right} \X plan.speeds
      BY <3>1, RunnerAssumption
    <3>2. CASE o \in {"ok"} \X (Checksums \ {Right}) \X {0}
      BY <3>2
    <3>3. CASE o \in (IF plan.skips THEN {"error", "skipped"} ELSE {"error"}) \X {NoChecksum} \X {0}
      BY <3>3
    <3>. QED  BY <2>1, <3>1, <3>2, <3>3
  <2>. QED  BY <2>1, <2>2
<1>2. Validity(st, ck) \in {"yes", "no", "unknown"}
  BY DEF Validity
<1>3. round \in 0 .. Rounds - 1
  BY DEF TypeOK
<1>4. r \in Row
  BY <1>1, <1>2, <1>3, RowBuilt
<1>. QED  BY <1>1, <1>4

LEMMA SkipRowFacts ==
    ASSUME TypeOK, config <= plan.configs, NEW impl \in Impls
    PROVE  /\ SkipRow(impl) \in Row
           /\ SkipRow(impl).impl = impl /\ SkipRow(impl).config = config
           /\ SkipRow(impl).round = 0 /\ SkipRow(impl).status = "skipped"
<1>1. 0 \in 0 .. Rounds - 1
  BY PlanTypes DEF TypeOK
<1>. QED  BY <1>1, RowBuilt DEF SkipRow

\* SetToSeq enumerates a finite set.
LEMMA Enumeration ==
    ASSUME NEW S, IsFiniteSet(S)
    PROVE  /\ Cardinality(S) \in Nat
           /\ SetToSeq(S) \in [1 .. Cardinality(S) -> S]
           /\ \A a, b \in 1 .. Cardinality(S) : SetToSeq(S)[a] = SetToSeq(S)[b] => a = b
           /\ \A x \in S : \E a \in 1 .. Cardinality(S) : SetToSeq(S)[a] = x
<1>1. Cardinality(S) \in Nat /\ ExistsBijection(1 .. Cardinality(S), S)
  BY FS_CardinalityType
<1>2. PICK g : g \in Bijection(1 .. Cardinality(S), S)
  BY <1>1 DEF ExistsBijection
<1>3. g \in [1 .. Cardinality(S) -> S] /\ IsInjective(g)
  BY <1>2 DEF Bijection, Injection
<1>4. SetToSeq(S) \in [1 .. Cardinality(S) -> S] /\ IsInjective(SetToSeq(S))
  BY <1>3 DEF SetToSeq
<1>5. SetToSeq(S) \in Injection(1 .. Cardinality(S), S)
  BY <1>4 DEF Injection
<1>6. Cardinality(1 .. Cardinality(S)) = Cardinality(S)
  BY <1>1, FS_Interval
<1>7. SetToSeq(S) \in Surjection(1 .. Cardinality(S), S)
  BY <1>5, <1>6, FS_Injection
<1>. QED  BY <1>1, <1>4, <1>7 DEF IsInjective, Surjection

-----------------------------------------------------------------------------
(* Preservation.                                                           *)

Extends ==
    /\ UNCHANGED plan
    /\ \A i \in DOMAIN rows : i \in DOMAIN rows' /\ rows'[i] = rows[i]

\* What a row shows, it shows for good.
LEMMA Monotone ==
    ASSUME Extends, NEW c, NEW impl
    PROVE  /\ Failed(c, impl) => Failed(c, impl)'
           /\ \A q : HasRun(c, impl, q) => HasRun(c, impl, q)'
           /\ Settled(c, impl) => Settled(c, impl)'
<1>1. \A i \in Group(rows, c, impl) : i \in Group(rows', c, impl) /\ rows'[i] = rows[i]
  BY DEF Extends, Group
<1>2. Failed(c, impl) => Failed(c, impl)'
  BY <1>1 DEF Failed, Bad
<1>3. \A q : HasRun(c, impl, q) => HasRun(c, impl, q)'
  BY <1>1 DEF HasRun
<1>4. Rounds' = Rounds
  BY DEF Extends, Rounds
<1>. QED  BY <1>2, <1>3, <1>4 DEF Settled

LEMMA RowsAside ==
    ASSUME UNCHANGED <<plan, rows>>
    PROVE  /\ OneByOne => OneByOne'
           /\ Gapless => Gapless'
           /\ Judged => Judged'
           /\ \A c, impl : Failed(c, impl)' <=> Failed(c, impl)
           /\ \A c, impl, q : HasRun(c, impl, q)' <=> HasRun(c, impl, q)
           /\ \A c, impl : Settled(c, impl)' <=> Settled(c, impl)
           /\ Impls' = Impls /\ Rounds' = Rounds
BY DEF OneByOne, SameGroup, Gapless, Judged, Validity, Failed, HasRun, Settled, Impls, Rounds

\* The settled configurations stay settled.
LEMMA SettledAside ==
    ASSUME Extends, InOrder, stage # "stopped", config' = config
    PROVE  \A c \in 1 .. plan'.configs, impl \in Impls' : c < config' => Settled(c, impl)'
BY Monotone DEF InOrder, Extends, Impls

LEMMA InitIInv == Init => IInv
<1>. SUFFICES ASSUME Init PROVE IInv
  OBVIOUS
<1>1. rows = <<>> /\ DOMAIN rows = {} /\ Len(rows) = 0
  BY DEF Init
<1>2. TypeOK
  <2>1. rows \in Seq(Row) /\ flushed \in 0 .. Len(rows)
    BY <1>1 DEF Init
  <2>2. config \in 1 .. plan.configs + 1 /\ round \in 0 .. Rounds - 1
    BY PlanTypes DEF Init
  <2>. QED  BY <2>1, <2>2 DEF Init, TypeOK
<1>3. OneByOne /\ Gapless /\ Judged /\ KillLosesOnlySkips
  BY <1>1 DEF Init, OneByOne, Gapless, Judged, KillLosesOnlySkips
<1>4. Progress
  BY DEF Init, Progress
<1>5. InOrder
  <2>1. \A c \in 1 .. plan.configs : ~(c < config)
    BY PlanTypes DEF Init
  <2>. QED  BY <1>1, <2>1 DEF Init, InOrder
<1>. QED  BY <1>2, <1>3, <1>4, <1>5 DEF IInv

LEMMA RunOneIInv == ASSUME IInv, NEW impl \in Impls, RunOne(impl) PROVE IInv'
<1>0. TypeOK /\ OneByOne /\ Gapless /\ Judged /\ Progress /\ InOrder /\ KillLosesOnlySkips
  BY DEF IInv
<1>1. PICK r \in Results(impl) :
         /\ rows' = Append(rows, r)
         /\ active' = IF Bad(r) THEN active \ {impl} ELSE active
  BY DEF RunOne, Bad
<1>2. /\ stage = "rounds" /\ impl \in todo /\ todo' = todo \ {impl}
      /\ flushed' = Len(rows') /\ UNCHANGED <<plan, stage, config, round>>
  BY DEF RunOne
<1>3. /\ config \in 1 .. plan.configs /\ impl \in active /\ todo \subseteq active
      /\ ~Failed(config, impl)
      /\ \A q \in 0 .. Rounds - 1 :
            HasRun(config, impl, q) <=> q < round \/ (q = round /\ impl \notin todo)
  BY <1>0, <1>2 DEF Progress
<1>4. /\ plan \in Plans /\ plan.configs \in Nat /\ round \in Nat /\ Rounds \in Nat
      /\ round \in 0 .. Rounds - 1 /\ config <= plan.configs
      /\ Rounds' = Rounds /\ Impls' = Impls
  BY <1>0, <1>2, <1>3, PlanTypes DEF TypeOK, Rounds, Impls
<1>5. /\ r \in Row /\ r.impl = impl /\ r.config = config /\ r.round = round
      /\ r.status = "ok" =>
            /\ r.checksum \in Checksums
            /\ r.valid = Validity("ok", r.checksum)
            /\ r.phase = IF round < plan.warmup THEN "warmup" ELSE "measure"
  BY <1>0, <1>4, ResultFacts
<1>6. PICK len \in Nat : len = Len(rows) /\ DOMAIN rows = 1 .. len
  BY <1>0, RowTypes
<1>7. /\ rows' \in Seq(Row) /\ Len(rows') = len + 1 /\ DOMAIN rows' = 1 .. len + 1
      /\ \A i \in 1 .. len : rows'[i] = rows[i]
      /\ rows'[len + 1] = r
  BY <1>0, <1>1, <1>5, <1>6, AppendProperties DEF TypeOK
<1>8. /\ \A i \in 1 .. len : i \in 1 .. len + 1
      /\ \A i \in 1 .. len + 1 : i \in 1 .. len \/ i = len + 1
      /\ len + 1 \in 1 .. len + 1
  OBVIOUS
<1>9. Extends
  BY <1>2, <1>6, <1>7, <1>8 DEF Extends
<1>10. ASSUME NEW i \in 1 .. len, rows[i].config = config, rows[i].impl = impl
       PROVE  rows[i].round < round /\ ~Bad(rows[i])
  <2>1. i \in Group(rows, config, impl)
    BY <1>6, <1>10 DEF Group
  <2>2. HasRun(config, impl, rows[i].round) /\ rows[i].round \in 0 .. Rounds - 1
    BY <1>0, <1>6, <2>1, RowTypes DEF HasRun
  <2>. QED  BY <1>2, <1>3, <2>1, <2>2 DEF Failed
<1>11. TypeOK'
  <2>1. Row' = Row
    BY <1>2, <1>4 DEF Row
  <2>2. flushed' \in 0 .. Len(rows')
    BY <1>2, <1>7
  <2>3. active' \in SUBSET Impls /\ todo' \in SUBSET Impls
    BY <1>0, <1>1, <1>2 DEF TypeOK
  <2>. QED  BY <1>0, <1>2, <1>4, <1>7, <2>1, <2>2, <2>3 DEF TypeOK
<1>12. OneByOne'
  <2>. SUFFICES ASSUME NEW i \in 1 .. len + 1, NEW j \in 1 .. len + 1, i < j,
                       rows'[i].config = rows'[j].config, rows'[i].impl = rows'[j].impl
                PROVE  rows'[i].round < rows'[j].round /\ ~Bad(rows'[i])
    BY <1>7 DEF OneByOne, SameGroup
  <2>1. i \in 1 .. len /\ rows'[i] = rows[i]
    <3>1. i \in 1 .. len
      BY <1>6
    <3>. QED  BY <1>7, <3>1
  <2>2. CASE j \in 1 .. len
    BY <1>0, <1>6, <1>7, <2>1, <2>2 DEF OneByOne, SameGroup
  <2>3. CASE j = len + 1
    BY <1>5, <1>7, <1>10, <2>1, <2>3
  <2>. QED  BY <1>8, <2>2, <2>3
<1>13. Gapless'
  <2>. SUFFICES ASSUME NEW i \in DOMAIN rows', NEW q \in 0 .. rows'[i].round - 1
                PROVE  \E j \in DOMAIN rows' : /\ rows'[i].config = rows'[j].config
                                               /\ rows'[i].impl = rows'[j].impl
                                               /\ rows'[j].round = q
    BY Zenon DEF Gapless, SameGroup
  <2>0. i \in 1 .. len + 1 /\ DOMAIN rows' = 1 .. len + 1
    BY <1>7
  <2>1. CASE i \in 1 .. len
    <3>1. i \in DOMAIN rows /\ rows'[i] = rows[i] /\ q \in 0 .. rows[i].round - 1
      BY <1>6, <1>7, <2>1
    <3>2. PICK j \in DOMAIN rows : SameGroup(i, j) /\ rows[j].round = q
      BY <1>0, <3>1 DEF Gapless
    <3>3. j \in 1 .. len /\ j \in DOMAIN rows' /\ rows'[j] = rows[j]
      BY <1>6, <1>7, <1>8, <2>0, <3>2
    <3>. QED  BY <3>1, <3>2, <3>3 DEF SameGroup
  <2>2. CASE i = len + 1
    <3>1. q \in 0 .. Rounds - 1 /\ q < round
      BY <1>4, <1>5, <1>7, <2>2
    <3>2. PICK j \in 1 .. len : /\ rows[j].config = config /\ rows[j].impl = impl
                                /\ rows[j].round = q
      BY <1>3, <1>6, <3>1 DEF HasRun, Group
    <3>. QED  BY <1>5, <1>7, <1>8, <2>0, <2>2, <3>2
  <2>. QED  BY <1>8, <2>0, <2>1, <2>2
<1>14. Judged'
  <2>1. \A k : Validity("ok", k)' = Validity("ok", k)
    BY <1>2 DEF Validity
  <2>. SUFFICES ASSUME NEW i \in 1 .. len + 1, rows'[i].status = "ok"
                PROVE  /\ rows'[i].checksum \in Checksums
                       /\ rows'[i].valid = Validity("ok", rows'[i].checksum)
                       /\ rows'[i].phase = IF rows'[i].round < plan.warmup THEN "warmup" ELSE "measure"
    BY <1>2, <1>7, <2>1 DEF Judged, Validity
  <2>2. CASE i \in 1 .. len
    BY <1>0, <1>6, <1>7, <2>2 DEF Judged
  <2>3. CASE i = len + 1
    BY <1>5, <1>7, <2>3
  <2>. QED  BY <1>8, <2>2, <2>3
<1>15. ASSUME NEW x
       PROVE  /\ Failed(config, x)' <=> Failed(config, x) \/ (x = impl /\ Bad(r))
              /\ \A q : HasRun(config, x, q)' <=> HasRun(config, x, q) \/ (x = impl /\ q = round)
  <2>1. Group(rows', config, x) = Group(rows, config, x) \cup (IF x = impl THEN {len + 1} ELSE {})
    <3>1. \A i : i \in Group(rows', config, x)
                   <=> i \in 1 .. len + 1 /\ rows'[i].config = config /\ rows'[i].impl = x
      BY <1>7 DEF Group
    <3>2. \A i : i \in Group(rows, config, x)
                   <=> i \in 1 .. len /\ rows[i].config = config /\ rows[i].impl = x
      BY <1>6 DEF Group
    <3>. QED  BY <1>5, <1>7, <1>8, <3>1, <3>2
  <2>2. \A i \in Group(rows, config, x) : rows'[i] = rows[i]
    BY <1>6, <1>7 DEF Group
  <2>3. /\ Failed(config, x)' <=> \E i \in Group(rows', config, x) : Bad(rows'[i])
        /\ \A q : HasRun(config, x, q)' <=> \E i \in Group(rows', config, x) : rows'[i].round = q
    BY <1>2 DEF Failed, HasRun
  <2>4. CASE x = impl
    <3>1. Group(rows', config, x) = Group(rows, config, x) \cup {len + 1}
      BY <2>1, <2>4
    <3>2. Failed(config, x)' <=> Failed(config, x) \/ Bad(r)
      BY <1>7, <2>2, <2>3, <3>1 DEF Failed
    <3>3. \A q : HasRun(config, x, q)' <=> HasRun(config, x, q) \/ r.round = q
      <4>. SUFFICES ASSUME NEW q
                    PROVE  (\E i \in Group(rows', config, x) : rows'[i].round = q)
                              <=> (\E i \in Group(rows, config, x) : rows[i].round = q) \/ r.round = q
        BY <2>3 DEF HasRun
      <4>1. (\E i \in Group(rows', config, x) : rows'[i].round = q)
               <=> (\E i \in Group(rows, config, x) : rows'[i].round = q) \/ rows'[len + 1].round = q
        BY <3>1
      <4>. QED  BY <1>7, <2>2, <4>1
    <3>. QED  BY <1>5, <2>4, <3>2, <3>3
  <2>5. CASE x # impl
    <3>1. Group(rows', config, x) = Group(rows, config, x)
      BY <2>1, <2>5
    <3>2. Failed(config, x)' <=> Failed(config, x)
      BY <2>2, <2>3, <3>1 DEF Failed
    <3>3. \A q : HasRun(config, x, q)' <=> HasRun(config, x, q)
      BY <2>2, <2>3, <3>1 DEF HasRun
    <3>. QED  BY <2>5, <3>2, <3>3
  <2>. QED  BY <2>4, <2>5
<1>16. Progress'
  <2>1. \A x \in Impls \ active' : Failed(config, x)'
    <3>. SUFFICES ASSUME NEW x \in Impls, x \notin active' PROVE Failed(config, x)'
      OBVIOUS
    <3>1. x \notin active \/ (x = impl /\ Bad(r))
      BY <1>1
    <3>. QED  BY <1>0, <1>2, <1>15, <3>1 DEF Progress
  <2>2. ASSUME NEW x \in active'
        PROVE  /\ ~Failed(config, x)'
               /\ \A q \in 0 .. Rounds - 1 :
                    HasRun(config, x, q)' <=> q < round \/ (q = round /\ x \notin todo')
    <3>1. x \in active /\ ~(x = impl /\ Bad(r))
      BY <1>1, <2>2
    <3>2. x # impl => (x \in todo' <=> x \in todo)
      BY <1>2
    <3>3. x = impl => x \notin todo' /\ x \in todo
      BY <1>2
    <3>4. /\ ~Failed(config, x)
          /\ \A q \in 0 .. Rounds - 1 :
               HasRun(config, x, q) <=> q < round \/ (q = round /\ x \notin todo)
      BY <1>0, <1>2, <3>1 DEF Progress
    <3>. QED  BY <1>15, <3>1, <3>2, <3>3, <3>4
  <2>3. todo' \subseteq active'
    BY <1>1, <1>2, <1>3
  <2>. QED  BY <1>2, <1>3, <1>4, <2>1, <2>2, <2>3 DEF Progress
<1>17. InOrder'
  <2>1. \A i \in DOMAIN rows' : rows'[i].config < config \/ rows'[i].config = config
    BY <1>0, <1>2, <1>5, <1>6, <1>7, <1>8 DEF InOrder
  <2>. QED  BY <1>0, <1>2, <1>9, <2>1, SettledAside DEF InOrder
<1>18. KillLosesOnlySkips'
  <2>1. flushed' + 1 .. Len(rows') = {}
    BY <1>2, <1>7
  <2>. QED  BY <2>1 DEF KillLosesOnlySkips
<1>. QED
  BY <1>11, <1>12, <1>13, <1>14, <1>16, <1>17, <1>18 DEF IInv

LEMMA PrepareIInv == ASSUME IInv, Prepare PROVE IInv'
<1>0. TypeOK /\ OneByOne /\ Gapless /\ Judged /\ Progress /\ InOrder /\ KillLosesOnlySkips
  BY DEF IInv
<1>1. PICK tooBig \in SUBSET Impls :
         /\ rows' = rows \o SetToSeq({SkipRow(x) : x \in tooBig})
         /\ IF tooBig = Impls
            THEN /\ config' = config + 1
                 /\ UNCHANGED <<plan, stage, active, round, todo>>
            ELSE /\ stage' = "rounds"
                 /\ active' = Impls \ tooBig
                 /\ round' = 0
                 /\ todo' = Impls \ tooBig
                 /\ UNCHANGED config
  BY DEF Prepare
<1>2. stage = "next" /\ config <= plan.configs /\ UNCHANGED <<plan, flushed>>
  BY DEF Prepare
<1>3. /\ plan \in Plans /\ plan.configs \in Nat /\ config \in 1 .. plan.configs
      /\ Rounds \in Nat \ {0} /\ Rounds' = Rounds /\ Impls' = Impls /\ IsFiniteSet(Impls)
  <2>1. plan \in Plans /\ config \in 1 .. plan.configs + 1
    BY <1>0 DEF TypeOK
  <2>. QED  BY <1>2, <2>1, PlanTypes DEF Rounds, Impls
<1>. DEFINE new == {SkipRow(x) : x \in tooBig}
            tail == SetToSeq(new)
            n == Cardinality(new)
<1>4. \A x \in tooBig : /\ SkipRow(x) \in Row /\ SkipRow(x).impl = x
                        /\ SkipRow(x).config = config /\ SkipRow(x).round = 0
                        /\ SkipRow(x).status = "skipped"
  BY <1>0, <1>2, SkipRowFacts
<1>5. /\ n \in Nat /\ tail \in [1 .. n -> new]
      /\ \A a, b \in 1 .. n : tail[a] = tail[b] => a = b
      /\ \A x \in tooBig : \E a \in 1 .. n : tail[a] = SkipRow(x)
  <2>1. IsFiniteSet(tooBig)
    BY <1>3, FS_Subset
  <2>2. [x \in tooBig |-> SkipRow(x)] \in Surjection(tooBig, new)
    BY DEF Surjection
  <2>3. IsFiniteSet(new)
    BY <2>1, <2>2, FS_Surjection
  <2>. HIDE DEF new
  <2>4. /\ n \in Nat /\ tail \in [1 .. n -> new]
        /\ \A a, b \in 1 .. n : tail[a] = tail[b] => a = b
        /\ \A y \in new : \E a \in 1 .. n : tail[a] = y
    BY <2>3, Enumeration
  <2>. QED  BY <2>4 DEF new
<1>6. PICK len \in Nat : len = Len(rows) /\ DOMAIN rows = 1 .. len
  BY <1>0, RowTypes
<1>7. tail \in Seq(Row) /\ Len(tail) = n
  <2>1. new \subseteq Row
    BY <1>4
  <2>. HIDE DEF new
  <2>2. tail \in [1 .. n -> Row]
    BY <1>5, <2>1
  <2>. QED  BY <1>5, <2>2
<1>8. /\ rows' \in Seq(Row) /\ Len(rows') = len + n /\ DOMAIN rows' = 1 .. len + n
      /\ \A i \in 1 .. len : rows'[i] = rows[i]
      /\ \A i \in len + 1 .. len + n : rows'[i] = tail[i - len]
  <2>. HIDE DEF tail, n, new
  <2>1. rows \in Seq(Row) /\ rows' = rows \o tail
    BY <1>0, <1>1 DEF TypeOK, tail, new
  <2>2. /\ rows' \in Seq(Row) /\ Len(rows') = len + n
        /\ \A i \in 1 .. len + n : rows'[i] = IF i <= len THEN rows[i] ELSE tail[i - len]
    BY <1>6, <1>7, <2>1, ConcatProperties
  <2>3. n \in Nat
    BY <1>5
  <2>. QED  BY <2>2, <2>3
<1>9. /\ \A i \in 1 .. len : i \in 1 .. len + n
      /\ \A i \in len + 1 .. len + n : i \in 1 .. len + n /\ i - len \in 1 .. n
      /\ \A i \in 1 .. len + n : i \in 1 .. len \/ i \in len + 1 .. len + n
  <2>. HIDE DEF n
  <2>. QED  BY <1>5
<1>10. ASSUME NEW i \in len + 1 .. len + n
       PROVE  \E x \in tooBig : rows'[i] = SkipRow(x)
  <2>. HIDE DEF n, tail
  <2>1. rows'[i] \in new
    BY <1>5, <1>8, <1>9
  <2>. QED  BY <2>1
<1>11. ASSUME NEW i \in len + 1 .. len + n
       PROVE  /\ rows'[i].impl \in tooBig /\ rows'[i].config = config
              /\ rows'[i].round = 0 /\ rows'[i].status = "skipped" /\ Bad(rows'[i])
              /\ rows'[i] = SkipRow(rows'[i].impl)
  BY <1>4, <1>10 DEF Bad
<1>12. ASSUME NEW i \in len + 1 .. len + n, NEW j \in len + 1 .. len + n,
              rows'[i].impl = rows'[j].impl
       PROVE  i = j
  <2>. HIDE DEF n, tail
  <2>1. tail[i - len] = tail[j - len]
    BY <1>8, <1>11, <1>12
  <2>2. i - len = j - len
    BY <1>5, <1>9, <2>1
  <2>. QED  BY <2>2
<1>13. ASSUME NEW x \in tooBig
       PROVE  \E i \in len + 1 .. len + n : rows'[i] = SkipRow(x)
  <2>. HIDE DEF n, tail
  <2>1. PICK a \in 1 .. n : tail[a] = SkipRow(x)
    BY <1>5
  <2>2. len + a \in len + 1 .. len + n /\ (len + a) - len = a
    BY <1>5
  <2>. QED  BY <1>8, <2>1, <2>2
<1>. HIDE DEF n, tail, new
<1>14. \A i \in 1 .. len : rows[i].config < config /\ rows[i].config \in Nat
  BY <1>0, <1>2, <1>6, RowTypes DEF InOrder
<1>15. Extends
  BY <1>2, <1>6, <1>8, <1>9 DEF Extends
<1>16. PICK cur \in Nat : cur = config
  BY <1>3
<1>17. ASSUME NEW x
       PROVE  /\ Failed(cur, x)' <=> x \in tooBig
              /\ x \notin tooBig => \A q : ~HasRun(cur, x, q)'
  <2>1. \A i : i \in Group(rows', cur, x)
                 <=> i \in 1 .. len + n /\ rows'[i].config = cur /\ rows'[i].impl = x
    BY <1>8 DEF Group
  <2>2. \A i \in Group(rows', cur, x) : i \in len + 1 .. len + n
    BY <1>8, <1>9, <1>14, <1>16, <2>1
  <2>3. x \in tooBig => \E i \in Group(rows', cur, x) : Bad(rows'[i])
    BY <1>4, <1>9, <1>11, <1>13, <1>16, <2>1
  <2>4. \A i \in Group(rows', cur, x) : x \in tooBig
    BY <1>11, <2>1, <2>2
  <2>5. Failed(cur, x)' <=> x \in tooBig
    BY <2>3, <2>4 DEF Failed
  <2>6. x \notin tooBig => \A q : ~HasRun(cur, x, q)'
    BY <2>4 DEF HasRun
  <2>. QED  BY <2>5, <2>6
<1>18. TypeOK'
  <2>1. Row' = Row
    BY <1>2, <1>3 DEF Row
  <2>2. flushed' \in 0 .. Len(rows')
    <3>1. flushed \in 0 .. len /\ n \in Nat
      BY <1>0, <1>5, <1>6 DEF TypeOK
    <3>. QED  BY <1>2, <1>8, <3>1
  <2>3. config' \in 1 .. plan.configs + 1
    BY <1>1, <1>3
  <2>4. round' \in 0 .. Rounds - 1
    BY <1>0, <1>1, <1>3 DEF TypeOK
  <2>5. /\ stage' \in {"next", "rounds", "finished", "stopped"}
        /\ active' \in SUBSET Impls /\ todo' \in SUBSET Impls
    BY <1>0, <1>1 DEF TypeOK
  <2>. QED  BY <1>2, <1>3, <1>8, <2>1, <2>2, <2>3, <2>4, <2>5 DEF TypeOK
<1>19. OneByOne'
  <2>. SUFFICES ASSUME NEW i \in 1 .. len + n, NEW j \in 1 .. len + n, i < j,
                       rows'[i].config = rows'[j].config, rows'[i].impl = rows'[j].impl
                PROVE  rows'[i].round < rows'[j].round /\ ~Bad(rows'[i])
    BY <1>8 DEF OneByOne, SameGroup
  <2>1. CASE j \in 1 .. len
    <3>1. i \in 1 .. len
      BY <1>5, <2>1
    <3>. QED  BY <1>0, <1>6, <1>8, <2>1, <3>1 DEF OneByOne, SameGroup
  <2>2. CASE j \in len + 1 .. len + n
    <3>1. CASE i \in 1 .. len
      BY <1>3, <1>8, <1>11, <1>14, <2>2, <3>1
    <3>2. CASE i \in len + 1 .. len + n
      <4>1. i = j
        BY <1>12, <2>2, <3>2
      <4>. QED  BY <1>5, <4>1
    <3>. QED  BY <1>9, <3>1, <3>2
  <2>. QED  BY <1>9, <2>1, <2>2
<1>20. Gapless'
  <2>0. DOMAIN rows' = 1 .. len + n
    BY <1>8
  <2>. SUFFICES ASSUME NEW i \in 1 .. len + n, NEW q \in 0 .. rows'[i].round - 1
                PROVE  \E j \in 1 .. len + n : /\ rows'[i].config = rows'[j].config
                                               /\ rows'[i].impl = rows'[j].impl
                                               /\ rows'[j].round = q
    BY <2>0 DEF Gapless, SameGroup
  <2>1. CASE i \in 1 .. len
    <3>1. rows'[i] = rows[i] /\ q \in 0 .. rows[i].round - 1
      BY <1>8, <2>1
    <3>2. PICK j \in 1 .. len : /\ rows[i].config = rows[j].config
                                /\ rows[i].impl = rows[j].impl
                                /\ rows[j].round = q
      BY <1>0, <1>6, <2>1, <3>1 DEF Gapless, SameGroup
    <3>. QED  BY <1>8, <1>9, <3>1, <3>2
  <2>2. CASE i \in len + 1 .. len + n
    BY <1>11, <2>2
  <2>. QED  BY <1>9, <2>1, <2>2
<1>21. Judged'
  <2>1. \A k : Validity("ok", k)' = Validity("ok", k)
    BY <1>2 DEF Validity
  <2>. SUFFICES ASSUME NEW i \in 1 .. len + n, rows'[i].status = "ok"
                PROVE  /\ rows'[i].checksum \in Checksums
                       /\ rows'[i].valid = Validity("ok", rows'[i].checksum)
                       /\ rows'[i].phase = IF rows'[i].round < plan.warmup THEN "warmup" ELSE "measure"
    BY <1>2, <1>8, <2>1 DEF Judged, Validity
  <2>2. i \in 1 .. len
    BY <1>9, <1>11
  <2>. QED  BY <1>0, <1>6, <1>8, <2>2 DEF Judged
<1>22. KillLosesOnlySkips'
  <2>. SUFFICES ASSUME NEW i \in flushed + 1 .. len + n PROVE rows'[i].status = "skipped"
    BY <1>2, <1>8 DEF KillLosesOnlySkips
  <2>1. flushed \in 0 .. len
    BY <1>0, <1>6 DEF TypeOK
  <2>2. CASE i \in 1 .. len
    <3>1. i \in flushed + 1 .. len
      BY <2>1, <2>2
    <3>. QED  BY <1>0, <1>6, <1>8, <2>2, <3>1 DEF KillLosesOnlySkips
  <2>3. CASE i \in len + 1 .. len + n
    BY <1>11, <2>3
  <2>4. i \in 1 .. len + n
    BY <2>1
  <2>. QED  BY <1>9, <2>2, <2>3, <2>4
<1>23. \A i \in 1 .. len + n : rows'[i].config < config \/ rows'[i].config = config
  BY <1>8, <1>9, <1>11, <1>14
<1>24. Progress' /\ InOrder'
  <2>1. CASE tooBig = Impls
    <3>1. config' = config + 1 /\ stage' = "next"
      BY <1>1, <1>2, <2>1
    <3>2. Progress'
      BY <3>1 DEF Progress
    <3>3. \A i \in DOMAIN rows' : rows'[i].config < config'
      <4>1. \A i \in 1 .. len + n : rows'[i].config \in Nat
        BY <1>3, <1>8, <1>9, <1>11, <1>14
      <4>. QED  BY <1>3, <1>8, <1>23, <3>1, <4>1
    <3>4. ASSUME NEW c \in 1 .. plan.configs, NEW x \in Impls, c < config'
          PROVE  Settled(c, x)'
      <4>1. CASE c < config
        <5>1. Settled(c, x)
          BY <1>0, <1>2, <4>1 DEF InOrder
        <5>. QED  BY <1>15, <5>1, Monotone
      <4>2. CASE c = cur
        BY <1>17, <2>1, <4>2 DEF Settled
      <4>. QED  BY <1>3, <1>16, <3>1, <3>4, <4>1, <4>2
    <3>. QED  BY <1>2, <1>3, <3>1, <3>2, <3>3, <3>4 DEF InOrder
  <2>2. CASE tooBig # Impls
    <3>1. /\ stage' = "rounds" /\ active' = Impls \ tooBig /\ round' = 0
          /\ todo' = Impls \ tooBig /\ config' = config
      BY <1>1, <2>2
    <3>2. \A x \in Impls \ active' : Failed(cur, x)'
      BY <1>17, <3>1
    <3>3. \A x \in active' : ~Failed(cur, x)' /\ \A q : ~HasRun(cur, x, q)'
      BY <1>17, <3>1
    <3>4. \A x \in active' : \A q \in 0 .. Rounds - 1 : ~(q < round' \/ (q = round' /\ x \notin todo'))
      BY <3>1
    <3>5. cur = config'
      BY <1>16, <3>1
    <3>6. /\ \A x \in Impls \ active' : Failed(config, x)'
          /\ \A x \in active' : ~Failed(config, x)' /\ \A q : ~HasRun(config, x, q)'
      BY <3>2, <3>3, <3>5 DEF Failed, HasRun
    <3>7. Progress'
      BY <1>2, <1>3, <3>1, <3>4, <3>6 DEF Progress
    <3>8. InOrder'
      BY <1>0, <1>2, <1>8, <1>15, <1>23, <3>1, SettledAside DEF InOrder
    <3>. QED  BY <3>7, <3>8
  <2>. QED  BY <2>1, <2>2
<1>. QED
  BY <1>0, <1>18, <1>19, <1>20, <1>21, <1>22, <1>24 DEF IInv

LEMMA NextRoundIInv == ASSUME IInv, NextRound PROVE IInv'
<1>0. TypeOK /\ OneByOne /\ Gapless /\ Judged /\ Progress /\ InOrder /\ KillLosesOnlySkips
  BY DEF IInv
<1>1. /\ stage = "rounds" /\ todo = {} /\ round + 1 < Rounds /\ round' = round + 1
      /\ todo' = active /\ UNCHANGED <<plan, stage, config, active, rows, flushed>>
  BY DEF NextRound
<1>2. /\ Impls' = Impls /\ Rounds' = Rounds /\ Rounds \in Nat /\ round \in Nat
      /\ OneByOne' /\ Gapless' /\ Judged'
      /\ \A x : Failed(config, x)' <=> Failed(config, x)
      /\ \A x, q : HasRun(config, x, q)' <=> HasRun(config, x, q)
      /\ \A c, x : Settled(c, x)' <=> Settled(c, x)
  <2>1. plan \in Plans /\ round \in 0 .. Rounds - 1
    BY <1>0 DEF TypeOK
  <2>2. /\ \A x : Failed(config, x)' <=> Failed(config, x)
        /\ \A x, q : HasRun(config, x, q)' <=> HasRun(config, x, q)
    BY <1>1 DEF Failed, HasRun
  <2>. QED  BY <1>0, <1>1, <2>1, <2>2, PlanTypes, RowsAside
<1>3. TypeOK'
  <2>1. Row' = Row
    BY <1>1, <1>2 DEF Row
  <2>2. round' \in 0 .. Rounds - 1
    BY <1>1, <1>2
  <2>. QED  BY <1>0, <1>1, <1>2, <2>1, <2>2 DEF TypeOK
<1>4. Progress'
  <2>1. ASSUME NEW x \in active, NEW q \in 0 .. Rounds - 1
        PROVE  HasRun(config, x, q) <=> q < round'
    <3>1. HasRun(config, x, q) <=> q < round \/ q = round
      BY <1>0, <1>1 DEF Progress
    <3>. QED  BY <1>1, <1>2, <3>1
  <2>2. \A x \in active' : \A q \in 0 .. Rounds - 1 :
           HasRun(config, x, q)' <=> q < round' \/ (q = round' /\ x \notin todo')
    BY <1>1, <1>2, <2>1
  <2>. QED  BY <1>0, <1>1, <1>2, <2>2 DEF Progress
<1>5. InOrder' /\ KillLosesOnlySkips'
  BY <1>0, <1>1, <1>2 DEF InOrder, KillLosesOnlySkips
<1>. QED  BY <1>2, <1>3, <1>4, <1>5 DEF IInv

LEMMA EndConfigIInv == ASSUME IInv, EndConfig PROVE IInv'
<1>0. TypeOK /\ OneByOne /\ Gapless /\ Judged /\ Progress /\ InOrder /\ KillLosesOnlySkips
  BY DEF IInv
<1>1. /\ stage = "rounds" /\ todo = {} /\ round + 1 = Rounds /\ stage' = "next"
      /\ config' = config + 1 /\ UNCHANGED <<plan, active, round, todo, rows, flushed>>
  BY DEF EndConfig
<1>2. /\ config \in 1 .. plan.configs /\ plan.configs \in Nat
      /\ Impls' = Impls /\ Rounds' = Rounds /\ Rounds \in Nat /\ round \in Nat
      /\ OneByOne' /\ Gapless' /\ Judged'
      /\ \A c, x : Settled(c, x)' <=> Settled(c, x)
  <2>1. plan \in Plans /\ round \in 0 .. Rounds - 1
    BY <1>0 DEF TypeOK
  <2>. QED  BY <1>0, <1>1, <2>1, PlanTypes, RowsAside DEF Progress
<1>3. TypeOK'
  <2>1. Row' = Row
    BY <1>1, <1>2 DEF Row
  <2>2. config' \in 1 .. plan.configs + 1
    BY <1>1, <1>2
  <2>. QED  BY <1>0, <1>1, <1>2, <2>1, <2>2 DEF TypeOK
<1>4. Progress'
  BY <1>1 DEF Progress
<1>5. \A x \in Impls : Settled(config, x)
  <2>. SUFFICES ASSUME NEW x \in active PROVE Settled(config, x)
    BY <1>0, <1>1 DEF Progress, Settled
  <2>1. ASSUME NEW q \in 0 .. Rounds - 1 PROVE HasRun(config, x, q)
    <3>1. q < round \/ q = round
      BY <1>1, <1>2
    <3>. QED  BY <1>0, <1>1, <3>1 DEF Progress
  <2>. QED  BY <2>1 DEF Settled
<1>6. InOrder'
  <2>1. \A i \in DOMAIN rows : rows[i].config < config'
    <3>1. \A i \in DOMAIN rows : rows[i].config \in Nat
      BY <1>0, RowTypes
    <3>. QED  BY <1>0, <1>1, <1>2, <3>1 DEF InOrder
  <2>2. ASSUME NEW c \in 1 .. plan.configs, NEW x \in Impls, c < config'
        PROVE  Settled(c, x)
    <3>1. c < config \/ c = config
      BY <1>1, <1>2, <2>2
    <3>. QED  BY <1>0, <1>1, <1>5, <3>1 DEF InOrder
  <2>. QED  BY <1>1, <1>2, <2>1, <2>2 DEF InOrder
<1>7. KillLosesOnlySkips'
  BY <1>0, <1>1 DEF KillLosesOnlySkips
<1>. QED  BY <1>2, <1>3, <1>4, <1>6, <1>7 DEF IInv

\* The file is closed, at the end or on the way out.
LEMMA CloseIInv == ASSUME IInv, Finish \/ Interrupt PROVE IInv'
<1>0. TypeOK /\ OneByOne /\ Gapless /\ Judged /\ Progress /\ InOrder /\ KillLosesOnlySkips
  BY DEF IInv
<1>1. /\ stage' = "stopped" \/ (stage' = "finished" /\ stage = "next" /\ config = plan.configs + 1)
      /\ stage \in {"next", "rounds"}
      /\ flushed' = Len(rows) /\ UNCHANGED <<plan, config, active, round, todo, rows>>
  BY DEF Finish, Interrupt, Running
<1>2. /\ Impls' = Impls /\ Rounds' = Rounds /\ OneByOne' /\ Gapless' /\ Judged'
      /\ \A c, x : Settled(c, x)' <=> Settled(c, x)
  BY <1>0, <1>1, RowsAside
<1>3. Len(rows) \in Nat
  BY <1>0, RowTypes
<1>4. TypeOK'
  <2>1. Row' = Row
    BY <1>1, <1>2 DEF Row
  <2>2. flushed' \in 0 .. Len(rows)
    BY <1>1, <1>3
  <2>. QED  BY <1>0, <1>1, <1>2, <2>1, <2>2 DEF TypeOK
<1>5. Progress'
  BY <1>1 DEF Progress
<1>6. InOrder'
  BY <1>0, <1>1, <1>2 DEF InOrder
<1>7. KillLosesOnlySkips'
  <2>1. flushed' + 1 .. Len(rows') = {}
    BY <1>1, <1>3
  <2>. QED  BY <2>1 DEF KillLosesOnlySkips
<1>. QED  BY <1>2, <1>4, <1>5, <1>6, <1>7 DEF IInv

LEMMA KillIInv == ASSUME IInv, Kill PROVE IInv'
<1>0. TypeOK /\ OneByOne /\ Gapless /\ Judged
  BY DEF IInv
<1>1. /\ stage' = "stopped" /\ rows' = SubSeq(rows, 1, flushed)
      /\ UNCHANGED <<plan, config, active, round, todo, flushed>>
  BY DEF Kill
<1>2. /\ plan \in Plans /\ rows \in Seq(Row) /\ flushed \in 0 .. Len(rows)
      /\ Impls' = Impls /\ Rounds' = Rounds
  BY <1>0, <1>1 DEF TypeOK, Impls, Rounds
<1>3. PICK len \in Nat : len = Len(rows) /\ DOMAIN rows = 1 .. len
  BY <1>0, RowTypes
<1>4. PICK cut \in Nat : cut = flushed /\ cut <= len
  BY <1>2, <1>3
<1>5. /\ rows' \in Seq(Row) /\ Len(rows') = cut /\ DOMAIN rows' = 1 .. cut
      /\ \A i \in 1 .. cut : rows'[i] = rows[i] /\ i \in 1 .. len
  <2>1. \A i \in 1 .. cut : rows[i] \in Row /\ i \in 1 .. len
    BY <1>0, <1>3, <1>4, RowTypes
  <2>2. /\ rows' \in Seq(Row)
        /\ Len(rows') = IF 1 <= cut THEN cut - 1 + 1 ELSE 0
        /\ \A i \in 1 .. cut - 1 + 1 : rows'[i] = rows[1 + i - 1]
    BY <1>1, <1>4, <2>1, SubSeqProperties
  <2>3. Len(rows') = cut
    BY <2>2
  <2>4. \A i \in 1 .. cut : rows'[i] = rows[i]
    BY <2>2
  <2>. QED  BY <2>1, <2>2, <2>3, <2>4
<1>6. TypeOK'
  <2>1. Row' = Row
    BY <1>1, <1>2 DEF Row
  <2>2. flushed' \in 0 .. Len(rows')
    BY <1>1, <1>4, <1>5
  <2>. QED  BY <1>0, <1>1, <1>2, <1>5, <2>1, <2>2 DEF TypeOK
<1>7. OneByOne'
  BY <1>0, <1>3, <1>5 DEF OneByOne, SameGroup
<1>8. Gapless'
  <2>. SUFFICES ASSUME NEW i \in 1 .. cut, NEW q \in 0 .. rows'[i].round - 1
                PROVE  \E j \in 1 .. cut : /\ rows'[i].config = rows'[j].config
                                           /\ rows'[i].impl = rows'[j].impl
                                           /\ rows'[j].round = q
    BY <1>5 DEF Gapless, SameGroup
  <2>1. rows'[i] = rows[i] /\ i \in 1 .. len /\ q \in 0 .. rows[i].round - 1
    BY <1>5
  <2>2. PICK j \in 1 .. len : /\ rows[i].config = rows[j].config
                              /\ rows[i].impl = rows[j].impl
                              /\ rows[j].round = q
    BY <1>0, <1>3, <2>1 DEF Gapless, SameGroup
  <2>3. rows[i].round \in Nat /\ q < rows[i].round
    BY <1>0, <1>3, <2>1, RowTypes
  <2>4. ~(i < j)
    <3>1. i < j => rows[i].round < rows[j].round
      BY <1>0, <1>3, <2>1, <2>2 DEF OneByOne, SameGroup
    <3>. QED  BY <2>2, <2>3, <3>1
  <2>5. j \in 1 .. cut
    BY <2>4
  <2>. QED  BY <1>5, <2>1, <2>2, <2>5
<1>9. Judged'
  <2>1. \A k : Validity("ok", k)' = Validity("ok", k)
    BY <1>1 DEF Validity
  <2>. SUFFICES ASSUME NEW i \in 1 .. cut, rows'[i].status = "ok"
                PROVE  /\ rows'[i].checksum \in Checksums
                       /\ rows'[i].valid = Validity("ok", rows'[i].checksum)
                       /\ rows'[i].phase = IF rows'[i].round < plan.warmup THEN "warmup" ELSE "measure"
    BY <1>1, <1>5, <2>1 DEF Judged, Validity
  <2>. QED  BY <1>0, <1>3, <1>5 DEF Judged
<1>10. Progress' /\ InOrder'
  BY <1>1 DEF Progress, InOrder
<1>11. KillLosesOnlySkips'
  <2>1. flushed' + 1 .. Len(rows') = {}
    BY <1>1, <1>4, <1>5
  <2>. QED  BY <2>1 DEF KillLosesOnlySkips
<1>. QED  BY <1>6, <1>7, <1>8, <1>9, <1>10, <1>11 DEF IInv

LEMMA StutterIInv == ASSUME IInv, UNCHANGED vars PROVE IInv'
BY DEF IInv, vars, TypeOK, Row, Impls, Rounds, OneByOne, SameGroup, Gapless, Judged, Validity,
       Progress, InOrder, Settled, Failed, HasRun, KillLosesOnlySkips

(* The invariant holds in every state.                                     *)
THEOREM Inductive == Spec => []IInv
<1>1. IInv /\ [Next]_vars => IInv'
  <2>. SUFFICES ASSUME IInv, [Next]_vars PROVE IInv'
    OBVIOUS
  <2>. QED
    BY PrepareIInv, RunOneIInv, NextRoundIInv, EndConfigIInv, CloseIInv, KillIInv, StutterIInv
    DEF Next, Step, Over
<1>. QED  BY InitIInv, <1>1, PTL DEF Spec

-----------------------------------------------------------------------------
(* The rounds of a group.                                                  *)

\* A finite set of naturals without gaps is an initial segment.
LEMMA InitialSegment ==
    ASSUME NEW T \in SUBSET Nat, IsFiniteSet(T),
           \A t \in T : \A q \in 0 .. t - 1 : q \in T
    PROVE  T = 0 .. Cardinality(T) - 1
<1>1. PICK m \in Nat : m = Cardinality(T)
  BY FS_CardinalityType
<1>2. m \notin T
  <2>. SUFFICES ASSUME m \in T PROVE FALSE
    OBVIOUS
  <2>1. 0 .. m \subseteq T
    <3>. SUFFICES ASSUME NEW q \in 0 .. m PROVE q \in T
      OBVIOUS
    <3>1. q = m \/ q \in 0 .. m - 1
      OBVIOUS
    <3>. QED  BY <3>1
  <2>2. Cardinality(0 .. m) = m + 1
    BY <1>1, FS_Interval
  <2>. QED  BY <1>1, <2>1, <2>2, FS_Subset
<1>3. T \subseteq 0 .. m - 1
  <2>. SUFFICES ASSUME NEW t \in T PROVE t < m
    BY <1>1
  <2>1. ~(m < t)
    BY <1>1, <1>2
  <2>. QED  BY <1>1, <1>2, <2>1
<1>4. IsFiniteSet(0 .. m - 1) /\ Cardinality(0 .. m - 1) = m
  <2>1. /\ IsFiniteSet(0 .. m - 1)
        /\ Cardinality(0 .. m - 1) = IF 0 > m - 1 THEN 0 ELSE m - 1 - 0 + 1
    <3>1. 0 \in Int /\ m - 1 \in Int
      BY <1>1
    <3>. QED  BY <3>1, FS_Interval
  <2>. QED  BY <1>1, <2>1
<1>. QED  BY <1>1, <1>3, <1>4, FS_Subset

\* The runs of a group have rounds of their own.
LEMMA GroupFacts ==
    ASSUME TypeOK, OneByOne, NEW c, NEW impl
    PROVE  /\ IsFiniteSet(Group(rows, c, impl))
           /\ \A i \in Group(rows, c, impl) :
                 /\ i \in DOMAIN rows /\ rows[i].config = c /\ rows[i].impl = impl
                 /\ rows[i].round \in 0 .. Rounds - 1 /\ rows[i].round \in Nat /\ i \in Nat
           /\ \A i, j \in Group(rows, c, impl) : rows[i].round = rows[j].round => i = j
<1>1. IsFiniteSet(Group(rows, c, impl))
  <2>1. IsFiniteSet(1 .. Len(rows)) /\ DOMAIN rows = 1 .. Len(rows)
    BY RowTypes, FS_Interval
  <2>. QED  BY <2>1, FS_Subset DEF Group
<1>2. \A i \in Group(rows, c, impl) :
         /\ i \in DOMAIN rows /\ rows[i].config = c /\ rows[i].impl = impl
         /\ rows[i].round \in 0 .. Rounds - 1 /\ rows[i].round \in Nat /\ i \in Nat
  BY RowTypes DEF Group
<1>3. ASSUME NEW i \in Group(rows, c, impl), NEW j \in Group(rows, c, impl),
             rows[i].round = rows[j].round
      PROVE  i = j
  <2>1. ~(i < j)
    BY <1>2, <1>3 DEF OneByOne, SameGroup
  <2>2. ~(j < i)
    BY <1>2, <1>3 DEF OneByOne, SameGroup
  <2>. QED  BY <1>2, <2>1, <2>2
<1>. QED  BY <1>1, <1>2, <1>3

(* The rounds are fair: an implementation runs once in every round of a    *)
(* configuration until a run of its own fails, and never after that,       *)
(* whatever the order of the runs and whoever else fails.                  *)
THEOREM RoundsAreFair == Spec => []FairRounds
<1>1. IInv => FairRounds
  <2>. SUFFICES ASSUME IInv PROVE FairRounds
    OBVIOUS
  <2>1. TypeOK /\ OneByOne /\ Gapless
    BY DEF IInv
  <2>2. NoRerun
    BY <2>1 DEF NoRerun, OneByOne, SameGroup
  <2>3. ASSUME NEW c \in 1 .. plan.configs, NEW impl \in Impls
        PROVE  {rows[i].round : i \in Group(rows, c, impl)}
                  = 0 .. Cardinality(Group(rows, c, impl)) - 1
    <3>. DEFINE group == Group(rows, c, impl)
                T == {rows[i].round : i \in group}
    <3>1. [i \in group |-> rows[i].round] \in Bijection(group, T)
      <4>1. [i \in group |-> rows[i].round] \in Surjection(group, T)
        BY DEF Surjection
      <4>2. \A i, j \in group : rows[i].round = rows[j].round => i = j
        BY <2>1, GroupFacts
      <4>3. [i \in group |-> rows[i].round] \in Injection(group, T)
        BY <4>2 DEF Injection, IsInjective
      <4>. QED  BY <4>1, <4>3 DEF Bijection
    <3>2. IsFiniteSet(T) /\ Cardinality(T) = Cardinality(group)
      BY <2>1, <3>1, GroupFacts, FS_Bijection DEF ExistsBijection
    <3>3. T \in SUBSET Nat
      BY <2>1, GroupFacts
    <3>4. \A t \in T : \A q \in 0 .. t - 1 : q \in T
      <4>. SUFFICES ASSUME NEW i \in group, NEW q \in 0 .. rows[i].round - 1 PROVE q \in T
        OBVIOUS
      <4>1. i \in DOMAIN rows /\ rows[i].config = c /\ rows[i].impl = impl
        BY DEF Group
      <4>2. PICK j \in DOMAIN rows : SameGroup(i, j) /\ rows[j].round = q
        BY <2>1, <4>1 DEF Gapless
      <4>3. j \in group
        BY <4>1, <4>2 DEF SameGroup, Group
      <4>. QED  BY <4>2, <4>3
    <3>. HIDE DEF T
    <3>5. T = 0 .. Cardinality(T) - 1
      BY <3>2, <3>3, <3>4, InitialSegment
    <3>. QED  BY <3>2, <3>5 DEF T
  <2>. QED  BY <2>1, <2>2, <2>3 DEF FairRounds, EachRoundOnce
<1>. QED  BY <1>1, Inductive, PTL

(* A killed runner loses notes of deliberate skips and never a run.        *)
THEOREM KillKeepsRuns == Spec => []KillLosesOnlySkips
<1>1. IInv => KillLosesOnlySkips
  BY DEF IInv
<1>. QED  BY <1>1, Inductive, PTL

-----------------------------------------------------------------------------
(* What the report says.                                                   *)

(* When more than half of the implementations printed the right checksum   *)
(* in all their runs, it is the one that is accepted.                      *)
THEOREM MajorityWins == Spec => []HonestMajorityWins
<1>1. IInv => HonestMajorityWins
  <2>. SUFFICES ASSUME IInv,
                       2 * Cardinality(Honest(rows, Right)) > Cardinality(Involved(rows))
                PROVE  Accepted(rows) = {Right}
    BY DEF HonestMajorityWins, Honest
  <2>1. IsFiniteSet(DOMAIN rows)
    BY RowTypes, FS_Interval DEF IInv
  <2>. QED  BY <2>1, MajorityAccepted
<1>. QED  BY <1>1, Inductive, PTL

Said == resolve_unverified(rows)

\* A verdict is added where there was none; the rest of a row stands.
LEMMA SaidFacts ==
    ASSUME TypeOK, NEW i \in DOMAIN rows
    PROVE  /\ DOMAIN Said = DOMAIN rows
           /\ Said[i].impl = rows[i].impl /\ Said[i].config = rows[i].config
           /\ Said[i].phase = rows[i].phase /\ Said[i].status = rows[i].status
           /\ Said[i].speed = rows[i].speed
           /\ rows[i].valid # "unknown" => Said[i].valid = rows[i].valid
           /\ Bad(rows[i]) => Bad(Said[i])
           /\ rows[i].status = "ok" => Said[i].valid \in {"yes", "no"}
           /\ rows[i].status = "ok" /\ rows[i].valid = "unknown" /\ Said[i].valid = "yes"
                 => rows[i].checksum \in Accepted(rows)
<1>1. DOMAIN rows[i] = {"impl", "config", "phase", "round", "status", "checksum", "speed", "valid"}
  BY RowTypes, RowFields
<1>2. rows[i].valid \in {"yes", "no", "unknown"}
  BY RowTypes
<1>3. CASE i \notin Unverified(rows)
  <2>1. Said[i] = rows[i] /\ DOMAIN Said = DOMAIN rows
    BY <1>3, Resolved DEF Said
  <2>. QED  BY <1>2, <1>3, <2>1 DEF Unverified
<1>4. CASE i \in Unverified(rows)
  <2>. DEFINE verdict == IF rows[i].checksum \in Accepted(rows) THEN "yes" ELSE "no"
  <2>1. Said[i] = [rows[i] EXCEPT !.valid = verdict] /\ DOMAIN Said = DOMAIN rows
    BY <1>4, Resolved DEF Said
  <2>2. rows[i].status = "ok" /\ rows[i].valid = "unknown"
    BY <1>4 DEF Unverified
  <2>3. /\ Said[i].impl = rows[i].impl /\ Said[i].config = rows[i].config
        /\ Said[i].phase = rows[i].phase /\ Said[i].status = rows[i].status
        /\ Said[i].speed = rows[i].speed /\ Said[i].valid = verdict
    BY <1>1, <2>1
  <2>. QED  BY <2>1, <2>2, <2>3 DEF Bad
<1>. QED  BY <1>3, <1>4

LEMMA SaidGroup ==
    ASSUME TypeOK, NEW c, NEW impl
    PROVE  Group(Said, c, impl) = Group(rows, c, impl)
<1>1. DOMAIN Said = DOMAIN rows
  BY DEF Said, resolve_unverified
<1>. QED  BY <1>1, SaidFacts DEF Group

\* The runs that are measured and stand.
Measured(c, impl) == {i \in Group(rows, c, impl) : Good(Said[i])}

\* There are as many as were asked for just when there is one of each round.
LEMMA MeasuredRounds ==
    ASSUME IInv, NEW c, NEW impl
    PROVE  /\ IsFiniteSet(Measured(c, impl))
           /\ Runs(Said, c, impl) = Cardinality(Measured(c, impl))
           /\ Runs(Said, c, impl) \in Nat /\ Runs(Said, c, impl) <= plan.reps
           /\ Runs(Said, c, impl) = plan.reps
                 <=> \A q \in plan.warmup .. Rounds - 1 : \E i \in Measured(c, impl) : rows[i].round = q
<1>. DEFINE M == Measured(c, impl)
            R == plan.warmup .. Rounds - 1
            f == [i \in M |-> rows[i].round]
<1>0. TypeOK /\ OneByOne /\ Judged
  BY DEF IInv
<1>1. IsFiniteSet(M) /\ Cardinality(M) \in Nat
  BY <1>0, GroupFacts, FS_Subset, FS_CardinalityType DEF Measured
<1>2. Runs(Said, c, impl) = Cardinality(M)
  <2>1. Group(Said, c, impl) = Group(rows, c, impl)
    BY <1>0, SaidGroup
  <2>2. DOMAIN Values(Said, c, impl) = M
    BY <2>1 DEF Values, Measured
  <2>. QED  BY <2>2 DEF Runs, Count
<1>3. plan.warmup \in Nat /\ plan.reps \in Nat /\ Rounds = plan.warmup + plan.reps
  BY <1>0, PlanTypes DEF TypeOK
<1>4. IsFiniteSet(R) /\ Cardinality(R) = plan.reps
  <2>1. /\ IsFiniteSet(R)
        /\ Cardinality(R) = IF plan.warmup > Rounds - 1 THEN 0 ELSE Rounds - 1 - plan.warmup + 1
    <3>1. plan.warmup \in Int /\ Rounds - 1 \in Int
      BY <1>3
    <3>. QED  BY <3>1, FS_Interval
  <2>. QED  BY <1>3, <2>1
<1>5. ASSUME NEW i \in M PROVE rows[i].round \in R
  <2>1. i \in DOMAIN rows /\ rows[i].round \in 0 .. Rounds - 1
    BY <1>0, GroupFacts DEF Measured
  <2>2. rows[i].status = "ok" /\ rows[i].phase = "measure"
    BY <1>0, <2>1, SaidFacts DEF Measured, Good
  <2>3. ~(rows[i].round < plan.warmup)
    BY <1>0, <2>1, <2>2 DEF Judged
  <2>. QED  BY <1>3, <2>1, <2>3
<1>6. f \in Injection(M, R)
  <2>1. \A i, j \in M : rows[i].round = rows[j].round => i = j
    BY <1>0, GroupFacts DEF Measured
  <2>. HIDE DEF M, R
  <2>. QED  BY <1>5, <2>1 DEF Injection, IsInjective
<1>. HIDE DEF M, R, f
<1>7. Cardinality(M) <= plan.reps /\ (Cardinality(M) = plan.reps <=> f \in Surjection(M, R))
  BY <1>4, <1>6, FS_Injection
<1>8. f \in Surjection(M, R) <=> \A q \in R : \E i \in M : rows[i].round = q
  BY <1>5 DEF f, Surjection
<1>. QED  BY <1>1, <1>2, <1>7, <1>8 DEF M, R

\* What the statuses mean.
LEMMA StatusFacts ==
    ASSUME TypeOK, OneByOne, NEW c, NEW impl
    PROVE  /\ StatusOf(c, impl) \in {"ok", "partial"} =>
                 \A i \in Group(rows, c, impl) : Said[i].valid # "no"
           /\ StatusOf(c, impl) = "ok" => ~(Runs(Said, c, impl) < plan.reps)
           /\ StatusOf(c, impl) = "partial" => Runs(Said, c, impl) < plan.reps
           /\ StatusOf(c, impl) \in {"ok", "partial"} => Runs(Said, c, impl) # 0
           /\ StatusOf(c, impl) = "absent" => Group(rows, c, impl) = {}
           /\ StatusOf(c, impl) = "no data" =>
                 /\ Runs(Said, c, impl) = 0
                 /\ \A i \in Group(rows, c, impl) : ~Bad(Said[i])
<1>. DEFINE group == Group(rows, c, impl)
            runs  == Runs(Said, c, impl)
<1>1. Group(Said, c, impl) = group
  BY SaidGroup
<1>2. StatusOf(c, impl) =
         IF group = {} THEN "absent"
         ELSE IF \E i \in group : Said[i].valid = "no" THEN "invalid"
         ELSE IF runs = 0
              THEN IF \E i \in group : Bad(Said[i]) THEN Said[FirstBad(Said, group)].status ELSE "no data"
         ELSE IF runs < plan.reps THEN "partial"
         ELSE "ok"
  BY <1>1 DEF StatusOf, Status, Said
<1>3. ASSUME ~\E i \in group : Said[i].valid = "no", \E i \in group : Bad(Said[i])
      PROVE  Said[FirstBad(Said, group)].status \in {"error", "skipped"}
  <2>1. PICK b \in group : Bad(Said[b])
    BY <1>3
  <2>2. ASSUME NEW a \in group, Bad(Said[a])
        PROVE  Said[a].status \in {"error", "skipped"} /\ Bad(rows[a])
    <3>1. a \in DOMAIN rows /\ Said[a].status # "ok"
      BY <1>3, <2>2 DEF Bad, Group
    <3>2. Said[a].status = rows[a].status /\ rows[a].status \in {"ok", "error", "skipped"}
      BY <3>1, SaidFacts, RowTypes
    <3>. QED  BY <3>1, <3>2 DEF Bad
  <2>3. ASSUME NEW a \in group, Bad(Said[a]) PROVE a = b
    <3>1. /\ Bad(rows[a]) /\ Bad(rows[b]) /\ a \in DOMAIN rows /\ b \in DOMAIN rows
          /\ a \in Nat /\ b \in Nat /\ SameGroup(a, b) /\ SameGroup(b, a)
      BY <2>1, <2>2, <2>3, GroupFacts DEF SameGroup
    <3>2. ~(a < b) /\ ~(b < a)
      BY <3>1 DEF OneByOne
    <3>. QED  BY <3>1, <3>2
  <2>4. b <= b
    BY GroupFacts
  <2>5. Bad(Said[FirstBad(Said, group)]) /\ FirstBad(Said, group) \in group
    <3>1. \E i \in group : Bad(Said[i]) /\ \A j \in group : Bad(Said[j]) => i <= j
      BY <2>1, <2>3, <2>4
    <3>. HIDE DEF group
    <3>. QED  BY <3>1 DEF FirstBad
  <2>. QED  BY <2>2, <2>5
<1>. HIDE DEF group, runs
<1>4. CASE group = {} \/ \E i \in group : Said[i].valid = "no"
  BY <1>2, <1>4 DEF group
<1>5. CASE group # {} /\ ~\E i \in group : Said[i].valid = "no"
  BY <1>2, <1>3, <1>5 DEF group, runs
<1>. QED  BY <1>4, <1>5

(* What the report says of an implementation is what happened to it.       *)
THEOREM ReportIsTrue == Spec => []NothingMissing
<1>1. IInv => OkMeansAllRuns
  <2>. SUFFICES ASSUME IInv, NEW c \in 1 .. plan.configs, NEW impl \in Impls,
                       StatusOf(c, impl) = "ok"
                PROVE  LET group == Group(rows, c, impl)
                       IN  /\ Cardinality({i \in group : rows[i].phase = "measure"}) = plan.reps
                           /\ \A i \in group : ~Bad(rows[i])
    BY DEF OkMeansAllRuns
  <2>. DEFINE group == Group(rows, c, impl)
              M == Measured(c, impl)
  <2>0. TypeOK /\ OneByOne /\ Judged
    BY DEF IInv
  <2>1. plan.warmup \in Nat /\ plan.reps \in Nat \ {0} /\ Rounds = plan.warmup + plan.reps
    BY <2>0, PlanTypes DEF TypeOK
  <2>2. Cardinality(M) = plan.reps /\ Runs(Said, c, impl) = plan.reps
    <3>1. ~(Runs(Said, c, impl) < plan.reps)
      BY <2>0, StatusFacts
    <3>2. /\ Runs(Said, c, impl) = Cardinality(M) /\ Runs(Said, c, impl) \in Nat
          /\ Runs(Said, c, impl) <= plan.reps
      BY MeasuredRounds
    <3>. HIDE DEF M
    <3>. QED  BY <2>1, <3>1, <3>2
  <2>3. Rounds - 1 \in plan.warmup .. Rounds - 1
    BY <2>1
  <2>4. PICK l \in M : rows[l].round = Rounds - 1
    BY <2>2, <2>3, MeasuredRounds
  <2>5. l \in group /\ l \in DOMAIN rows /\ ~Bad(rows[l])
    <3>1. l \in group /\ l \in DOMAIN rows /\ Good(Said[l])
      BY <2>4, <2>0, GroupFacts DEF Measured
    <3>2. ~Bad(Said[l])
      BY <3>1 DEF Good, Bad
    <3>. QED  BY <2>0, <3>1, <3>2, SaidFacts
  <2>6. ASSUME NEW i \in group PROVE ~Bad(rows[i])
    <3>1. /\ i \in DOMAIN rows /\ i \in Nat /\ l \in Nat /\ SameGroup(i, l) /\ SameGroup(l, i)
          /\ rows[i].round \in 0 .. Rounds - 1
      BY <2>0, <2>5, GroupFacts DEF SameGroup
    <3>2. ~(l < i)
      BY <2>0, <2>1, <2>4, <2>5, <3>1 DEF OneByOne
    <3>3. CASE i < l
      BY <2>0, <2>5, <3>1, <3>3 DEF OneByOne
    <3>4. CASE i = l
      BY <2>5, <3>4
    <3>. QED  BY <3>1, <3>2, <3>3, <3>4
  <2>7. {i \in group : rows[i].phase = "measure"} = M
    <3>1. ASSUME NEW i \in group PROVE rows[i].phase = "measure" <=> Good(Said[i])
      <4>1. i \in DOMAIN rows
        BY <2>0, GroupFacts
      <4>2. rows[i].status = "ok" /\ Said[i].valid \in {"yes", "no"}
            /\ Said[i].status = rows[i].status /\ Said[i].phase = rows[i].phase
        BY <2>0, <2>6, <4>1, SaidFacts DEF Bad
      <4>3. Said[i].valid # "no"
        BY <2>0, StatusFacts
      <4>. QED  BY <4>2, <4>3 DEF Good
    <3>. QED  BY <3>1 DEF Measured
  <2>. QED  BY <2>2, <2>6, <2>7
<1>2. IInv => CompleteWhenFinished
  <2>. SUFFICES ASSUME IInv, stage = "finished", NEW c \in 1 .. plan.configs, NEW impl \in Impls
                PROVE  /\ StatusOf(c, impl) \notin {"absent", "no data"}
                       /\ StatusOf(c, impl) = "partial" => Failed(c, impl)
    BY DEF CompleteWhenFinished, Failed
  <2>. DEFINE group == Group(rows, c, impl)
              M == Measured(c, impl)
  <2>0. TypeOK /\ OneByOne /\ Judged
    BY DEF IInv
  <2>1. plan.warmup \in Nat /\ plan.reps \in Nat \ {0} /\ Rounds = plan.warmup + plan.reps
    BY <2>0, PlanTypes DEF TypeOK
  <2>2. Settled(c, impl)
    <3>1. config = plan.configs + 1 /\ plan.configs \in Nat
      BY <2>0, PlanTypes DEF IInv, InOrder, TypeOK
    <3>2. c < config
      BY <3>1
    <3>. QED  BY <3>2 DEF IInv, InOrder
  <2>3. CASE Failed(c, impl)
    <3>1. PICK b \in group : Bad(rows[b])
      BY <2>3 DEF Failed
    <3>2. b \in DOMAIN rows /\ Bad(Said[b])
      BY <2>0, <3>1, GroupFacts, SaidFacts
    <3>. QED  BY <2>0, <2>3, <3>2, StatusFacts
  <2>4. CASE ~Failed(c, impl)
    <3>1. \A q \in 0 .. Rounds - 1 : \E i \in group : rows[i].round = q
      BY <2>2, <2>4 DEF Settled, HasRun
    <3>2. group # {}
      <4>1. 0 \in 0 .. Rounds - 1
        BY <2>1
      <4>. QED  BY <3>1, <4>1
    <3>3. ASSUME \A i \in group : Said[i].valid # "no"
          PROVE  Runs(Said, c, impl) = plan.reps
      <4>1. ASSUME NEW q \in plan.warmup .. Rounds - 1 PROVE \E i \in M : rows[i].round = q
        <5>1. q \in 0 .. Rounds - 1 /\ ~(q < plan.warmup)
          BY <2>1
        <5>2. PICK i \in group : rows[i].round = q
          BY <3>1, <5>1
        <5>3. i \in DOMAIN rows /\ rows[i].status = "ok"
          BY <2>0, <2>4, GroupFacts DEF Failed, Bad
        <5>4. rows[i].phase = "measure"
          BY <2>0, <5>1, <5>2, <5>3 DEF Judged
        <5>5. Good(Said[i])
          BY <2>0, <3>3, <5>3, <5>4, SaidFacts DEF Good
        <5>. QED  BY <5>2, <5>5 DEF Measured
      <4>. QED  BY <4>1, MeasuredRounds
    <3>4. StatusOf(c, impl) # "absent"
      BY <2>0, <3>2, StatusFacts
    <3>5. StatusOf(c, impl) # "no data"
      <4>. SUFFICES ASSUME StatusOf(c, impl) = "no data" PROVE FALSE
        OBVIOUS
      <4>1. Runs(Said, c, impl) = 0 /\ \A i \in group : ~Bad(Said[i])
        BY <2>0, StatusFacts
      <4>. QED  BY <2>1, <3>3, <4>1 DEF Bad
    <3>6. StatusOf(c, impl) # "partial"
      <4>. SUFFICES ASSUME StatusOf(c, impl) = "partial" PROVE FALSE
        OBVIOUS
      <4>1. Runs(Said, c, impl) < plan.reps /\ \A i \in group : Said[i].valid # "no"
        BY <2>0, StatusFacts
      <4>. QED  BY <2>1, <3>3, <4>1
    <3>. QED  BY <3>4, <3>5, <3>6
  <2>. QED  BY <2>3, <2>4
<1>. QED  BY <1>1, <1>2, Inductive, PTL DEF NothingMissing

(* All runs behind the medians that are shown printed one checksum, the    *)
(* right one when it is known.                                             *)
THEOREM ShownRunsAgree == Spec => []ShownAgree
<1>1. IInv => ShownAgree
  <2>. SUFFICES ASSUME IInv PROVE ShownAgree
    OBVIOUS
  <2>0. TypeOK /\ OneByOne /\ Judged
    BY DEF IInv
  <2>. DEFINE groups == {g \in (1 .. plan.configs) \X Impls : Shown(rows, g[1], g[2], plan.reps)}
              shown  == {i \in DOMAIN rows :
                           rows[i].status = "ok" /\ <<rows[i].config, rows[i].impl>> \in groups}
  <2>1. ASSUME NEW i \in shown
        PROVE  /\ i \in DOMAIN rows /\ rows[i].status = "ok"
               /\ rows[i].checksum \in Checksums
               /\ rows[i].valid = Validity("ok", rows[i].checksum)
               /\ Said[i].valid = "yes"
    <3>1. StatusOf(rows[i].config, rows[i].impl) \in {"ok", "partial"}
      BY DEF Shown, StatusOf
    <3>2. i \in Group(rows, rows[i].config, rows[i].impl)
      BY DEF Group
    <3>3. Said[i].valid # "no"
      BY <2>0, <3>1, <3>2, StatusFacts
    <3>. QED  BY <2>0, <3>3, SaidFacts DEF Judged
  <2>2. CASE plan.verifiable
    <3>1. \A i \in shown : rows[i].checksum = Right
      <4>. SUFFICES ASSUME NEW i \in shown, rows[i].checksum # Right PROVE FALSE
        OBVIOUS
      <4>1. rows[i].valid = "no"
        BY <2>1, <2>2 DEF Validity
      <4>. QED  BY <2>0, <2>1, <4>1, SaidFacts
    <3>. QED  BY <3>1, RunnerAssumption DEF ShownAgree
  <2>3. CASE ~plan.verifiable
    <3>1. \A i \in shown : rows[i].checksum = Winner(rows)
      <4>. SUFFICES ASSUME NEW i \in shown PROVE rows[i].checksum = Winner(rows)
        OBVIOUS
      <4>1. rows[i].valid = "unknown"
        BY <2>1, <2>3 DEF Validity
      <4>2. rows[i].checksum \in Accepted(rows)
        BY <2>0, <2>1, <4>1, SaidFacts
      <4>. QED  BY <4>2, AcceptedIsOne
    <3>2. CASE shown = {}
      BY <2>3, <3>2, RunnerAssumption DEF ShownAgree
    <3>3. CASE shown # {}
      <4>1. Winner(rows) \in Checksums
        BY <2>1, <3>1, <3>3
      <4>. QED  BY <2>3, <3>1, <4>1 DEF ShownAgree
    <3>. QED  BY <3>2, <3>3
  <2>. QED  BY <2>2, <2>3
<1>. QED  BY <1>1, Inductive, PTL

-----------------------------------------------------------------------------
(* Sorted values.                                                          *)

\* A set of naturals has a least element.
LEMMA Least ==
    ASSUME NEW T \in SUBSET Nat, T # {}
    PROVE  \E m \in T : \A t \in T : m <= t
<1>. DEFINE R == {ss \in Nat \X Nat : ss[1] < ss[2]}
<1>1. IsWellFoundedOn(R, Nat)
  BY NatLessThanWellFounded DEF OpToRel
<1>. HIDE DEF R
<1>2. PICK m \in T : \A t \in T : ~(<<t, m>> \in R)
  BY <1>1, WFMin
<1>3. \A t \in T : ~(t < m)
  BY <1>2 DEF R
<1>. QED  BY <1>3

(* Induction, with a set of naturals in the place of a predicate.          *)
LEMMA InductionSet ==
    ASSUME NEW T, 0 \in T, \A n \in Nat : n \in T => n + 1 \in T
    PROVE  \A n \in Nat : n \in T
<1>. SUFFICES ASSUME Nat \ T # {} PROVE FALSE
  OBVIOUS
<1>1. PICK m \in Nat \ T : \A t \in Nat \ T : m <= t
  BY Least
<1>2. m - 1 \in Nat /\ m - 1 \in T
  BY <1>1
<1>. QED  BY <1>1, <1>2

\* One of finitely many numbers is the largest.
LEMMA Largest ==
    ASSUME NEW S, IsFiniteSet(S), S # {}, NEW f, \A x \in S : f[x] \in Nat
    PROVE  \E x \in S : \A y \in S : f[y] <= f[x]
<1>. DEFINE above(x) == {y \in S : f[y] > f[x]}
            T == {Cardinality(above(x)) : x \in S}
<1>1. \A x \in S : IsFiniteSet(above(x)) /\ Cardinality(above(x)) \in Nat
  BY FS_Subset, FS_CardinalityType
<1>2. T \in SUBSET Nat /\ T # {}
  BY <1>1
<1>3. PICK m \in T : \A t \in T : m <= t
  <2>. HIDE DEF T
  <2>. QED  BY <1>2, Least
<1>4. PICK x \in S : m = Cardinality(above(x))
  OBVIOUS
<1>5. ASSUME NEW y \in S, f[y] > f[x] PROVE FALSE
  <2>1. above(y) \subseteq above(x) /\ y \in above(x) /\ y \notin above(y)
    BY <1>5
  <2>2. Cardinality(above(y)) <= Cardinality(above(x)) /\ Cardinality(above(y)) # Cardinality(above(x))
    <3>. HIDE DEF above
    <3>. QED  BY <1>1, <1>4, <2>1, FS_Subset
  <2>3. Cardinality(above(x)) <= Cardinality(above(y))
    BY <1>3, <1>4
  <2>. HIDE DEF above
  <2>. QED  BY <1>1, <1>4, <2>2, <2>3
<1>. QED  BY <1>5

(* Nth finds what it looks for: the k-th smallest of n numbers exists for  *)
(* every k from 1 to n.                                                    *)
LEMMA NthExists ==
    ASSUME NEW S, IsFiniteSet(S), NEW f \in [S -> Nat], NEW k \in 1 .. Cardinality(S)
    PROVE  /\ Nth(f, k) \in Range(f) /\ Nth(f, k) \in Nat
           /\ Cardinality({i \in S : f[i] < Nth(f, k)}) < k
           /\ Cardinality({i \in S : f[i] <= Nth(f, k)}) >= k
<1>. DEFINE upTo(v)  == {i \in S : f[i] <= v}
            below(v) == {i \in S : f[i] < v}
            T == {v \in Range(f) : Cardinality(upTo(v)) >= k}
<1>0. Cardinality(S) \in Nat /\ k \in Nat /\ 1 <= k /\ k <= Cardinality(S)
  BY FS_CardinalityType
<1>1. \A v : /\ IsFiniteSet(upTo(v)) /\ Cardinality(upTo(v)) \in Nat
             /\ IsFiniteSet(below(v)) /\ Cardinality(below(v)) \in Nat
  BY FS_Subset, FS_CardinalityType
<1>2. Range(f) = {f[i] : i \in S} /\ Range(f) \subseteq Nat
  BY DEF Range
<1>3. S # {}
  BY <1>0, FS_EmptySet
<1>4. T # {}
  <2>1. PICK x \in S : \A y \in S : f[y] <= f[x]
    BY <1>3, Largest
  <2>2. upTo(f[x]) = S
    BY <2>1
  <2>3. f[x] \in T
    BY <1>0, <1>2, <2>2
  <2>. QED  BY <2>3
<1>5. PICK v \in T : \A w \in T : v <= w
  <2>1. T \in SUBSET Nat
    BY <1>2
  <2>. HIDE DEF T
  <2>. QED  BY <1>4, <2>1, Least
<1>6. ASSUME Cardinality(below(v)) >= k PROVE FALSE
  <2>1. below(v) # {}
    <3>. HIDE DEF below
    <3>. QED  BY <1>0, <1>6, FS_EmptySet
  <2>2. PICK x \in below(v) : \A y \in below(v) : f[y] <= f[x]
    <3>1. \A x \in below(v) : f[x] \in Nat
      OBVIOUS
    <3>. HIDE DEF below
    <3>. QED  BY <1>1, <2>1, <3>1, Largest
  <2>3. upTo(f[x]) = below(v)
    <3>1. \A i \in S : f[i] <= f[x] <=> f[i] < v
      BY <1>2, <2>2
    <3>. QED  BY <3>1
  <2>4. f[x] \in T
    BY <1>2, <1>6, <2>2, <2>3
  <2>5. f[x] < v /\ v <= f[x] /\ f[x] \in Nat /\ v \in Nat
    BY <1>2, <1>5, <2>2, <2>4
  <2>. QED  BY <2>5
<1>7. v \in Range(f) /\ Cardinality(below(v)) < k /\ Cardinality(upTo(v)) >= k
  <2>. HIDE DEF below, upTo
  <2>. QED  BY <1>0, <1>1, <1>5, <1>6
<1>8. Nth(f, k) = CHOOSE u \in Range(f) : Cardinality(below(u)) < k /\ Cardinality(upTo(u)) >= k
  BY DEF Nth
<1>9. Nth(f, k) \in Range(f) /\ Cardinality(below(Nth(f, k))) < k /\ Cardinality(upTo(Nth(f, k))) >= k
  <2>. HIDE DEF below, upTo
  <2>. QED  BY <1>7, <1>8
<1>. QED  BY <1>2, <1>9

-----------------------------------------------------------------------------
(* Coin tosses: n of them have 2^n outcomes, each the set of the heads.    *)

Outcomes(n, counts) == {heads \in SUBSET (1 .. n) : Cardinality(heads) \in counts}

\* What recursion makes of n!.
LEMMA Factorial ==
    /\ factorial[0] = 1
    /\ \A n \in Nat : factorial[n] \in Nat \ {0} /\ factorial[n + 1] = (n + 1) * factorial[n]
<1>. DEFINE Initial(n) == {g \in [0 .. n -> Nat \ {0}] :
                          g[0] = 1 /\ \A k \in 0 .. n - 1 : g[k + 1] = (k + 1) * g[k]}
            fac == [n \in Nat |-> (CHOOSE g \in Initial(n) : TRUE)[n]]
<1>1. \A n \in Nat : Initial(n) # {}
  <2>. DEFINE T == {n \in Nat : Initial(n) # {}}
  <2>1. 0 \in T
    <3>1. [k \in 0 .. 0 |-> 1] \in Initial(0)
      OBVIOUS
    <3>. QED  BY <3>1
  <2>2. ASSUME NEW n \in Nat, n \in T PROVE n + 1 \in T
    <3>1. PICK g \in [0 .. n -> Nat \ {0}] : g[0] = 1 /\ \A k \in 0 .. n - 1 : g[k + 1] = (k + 1) * g[k]
      BY <2>2
    <3>. DEFINE h == [k \in 0 .. n + 1 |-> IF k = n + 1 THEN (n + 1) * g[n] ELSE g[k]]
    <3>2. g[n] \in Nat \ {0}
      BY <3>1
    <3>3. (n + 1) * g[n] \in Nat \ {0}
      BY <3>2
    <3>4. h \in [0 .. n + 1 -> Nat \ {0}]
      BY <3>1, <3>3
    <3>5. h[0] = 1
      BY <3>1
    <3>6. ASSUME NEW k \in 0 .. n PROVE h[k + 1] = (k + 1) * h[k]
      <4>1. CASE k = n
        BY <4>1
      <4>2. CASE k \in 0 .. n - 1
        BY <3>1, <4>2
      <4>. QED  BY <4>1, <4>2
    <3>7. \A k \in 0 .. (n + 1) - 1 : h[k + 1] = (k + 1) * h[k]
      <4>. HIDE DEF h
      <4>. QED  BY <3>6
    <3>8. h \in Initial(n + 1)
      <4>. HIDE DEF h
      <4>. QED  BY <3>4, <3>5, <3>7
    <3>9. n + 1 \in Nat
      OBVIOUS
    <3>. QED  BY <3>8, <3>9
  <2>. HIDE DEF T
  <2>3. \A n \in Nat : n \in T
    BY <2>1, <2>2, InductionSet
  <2>. QED  BY <2>3 DEF T
<1>2. ASSUME NEW m \in Nat, NEW n \in Nat, NEW g \in Initial(m), NEW h \in Initial(n)
      PROVE  \A k \in 0 .. m : k \in 0 .. n => g[k] = h[k]
  <2>. DEFINE T == {k \in Nat : k \in 0 .. m /\ k \in 0 .. n => g[k] = h[k]}
  <2>1. 0 \in T
    OBVIOUS
  <2>2. ASSUME NEW k \in Nat, k \in T PROVE k + 1 \in T
    <3>. SUFFICES ASSUME k + 1 \in 0 .. m, k + 1 \in 0 .. n PROVE g[k + 1] = h[k + 1]
      OBVIOUS
    <3>1. k \in 0 .. m - 1 /\ k \in 0 .. n - 1 /\ k \in 0 .. m /\ k \in 0 .. n
      OBVIOUS
    <3>2. g[k + 1] = (k + 1) * g[k] /\ h[k + 1] = (k + 1) * h[k]
      BY <3>1
    <3>. QED  BY <2>2, <3>1, <3>2
  <2>. HIDE DEF T
  <2>3. \A n1 \in Nat : n1 \in T
    BY <2>1, <2>2, InductionSet
  <2>. QED  BY <2>3 DEF T
<1>3. ASSUME NEW n \in Nat PROVE (CHOOSE g \in Initial(n) : TRUE) \in Initial(n)
  <2>. HIDE DEF Initial
  <2>. QED  BY <1>1
<1>4. fac[0] = 1
  BY <1>3
<1>5. ASSUME NEW n \in Nat PROVE fac[n] \in Nat \ {0} /\ fac[n + 1] = (n + 1) * fac[n]
  <2>. DEFINE g == CHOOSE x \in Initial(n) : TRUE
              h == CHOOSE x \in Initial(n + 1) : TRUE
  <2>1. g \in Initial(n) /\ h \in Initial(n + 1)
    <3>. HIDE DEF Initial
    <3>1. n + 1 \in Nat
      OBVIOUS
    <3>. QED  BY <1>3, <3>1
  <2>2. fac[n] = g[n] /\ fac[n + 1] = h[n + 1]
    OBVIOUS
  <2>. HIDE DEF g, h, fac
  <2>3. g[n] = h[n]
    <3>. HIDE DEF Initial
    <3>. QED  BY <1>2, <2>1
  <2>4. h[n + 1] = (n + 1) * h[n] /\ g[n] \in Nat \ {0}
    BY <2>1
  <2>. QED  BY <2>2, <2>3, <2>4
<1>6. fac = [n \in Nat |-> IF n = 0 THEN 1 ELSE n * fac[n - 1]]
  <2>1. ASSUME NEW n \in Nat, n # 0 PROVE fac[n] = n * fac[n - 1]
    <3>1. n - 1 \in Nat /\ (n - 1) + 1 = n
      BY <2>1
    <3>. HIDE DEF fac
    <3>. QED  BY <1>5, <3>1
  <2>. DEFINE F == [n \in Nat |-> IF n = 0 THEN 1 ELSE n * fac[n - 1]]
  <2>2. \A n \in Nat : fac[n] = F[n]
    <3>. HIDE DEF fac
    <3>. QED  BY <1>4, <2>1
  <2>3. fac \in [Nat -> Nat \ {0}]
    <3>1. \A n \in Nat : fac[n] \in Nat \ {0}
      <4>. HIDE DEF fac
      <4>. QED  BY <1>5
    <3>. QED  BY <3>1
  <2>4. fac = F
    <3>1. F = [n \in Nat |-> fac[n]]
      <4>1. \A n \in Nat : (IF n = 0 THEN 1 ELSE n * fac[n - 1]) = fac[n]
        <5>. HIDE DEF fac
        <5>. QED  BY <1>4, <2>1
      <4>. HIDE DEF fac
      <4>. QED  BY <4>1
    <3>2. fac = [n \in Nat |-> fac[n]]
      <4>. HIDE DEF fac
      <4>. QED  BY <2>3
    <3>. QED  BY <3>1, <3>2, Zenon
  <2>. QED  BY <2>4 DEF F
<1>7. factorial = [n \in Nat |-> IF n = 0 THEN 1 ELSE n * factorial[n - 1]]
  <2>. HIDE DEF fac
  <2>. QED  BY <1>6 DEF factorial
<1>8. factorial[0] = 1
  BY <1>7
<1>9. \A n \in Nat : factorial[n + 1] = (n + 1) * factorial[n]
  <2>. SUFFICES ASSUME NEW n \in Nat PROVE factorial[n + 1] = (n + 1) * factorial[n]
    OBVIOUS
  <2>1. n + 1 \in Nat /\ n + 1 # 0 /\ (n + 1) - 1 = n
    OBVIOUS
  <2>. QED  BY <1>7, <2>1
<1>10. \A n \in Nat : factorial[n] \in Nat \ {0}
  <2>. DEFINE T == {n \in Nat : factorial[n] \in Nat \ {0}}
  <2>1. 0 \in T
    BY <1>8
  <2>2. ASSUME NEW n \in Nat, n \in T PROVE n + 1 \in T
    <3>1. (n + 1) * factorial[n] \in Nat \ {0}
      BY <2>2
    <3>. QED  BY <1>9, <3>1
  <2>. HIDE DEF T
  <2>3. \A n \in Nat : n \in T
    BY <2>1, <2>2, InductionSet
  <2>. QED  BY <2>3 DEF T
<1>. QED  BY <1>8, <1>9, <1>10

LEMMA OutcomesFinite ==
    ASSUME NEW n \in Nat
    PROVE  /\ IsFiniteSet(1 .. n) /\ Cardinality(1 .. n) = n
           /\ IsFiniteSet(SUBSET (1 .. n))
           /\ \A T \in SUBSET (1 .. n) :
                 IsFiniteSet(T) /\ Cardinality(T) \in Nat /\ Cardinality(T) <= n
           /\ \A D \in SUBSET SUBSET (1 .. n) : IsFiniteSet(D) /\ Cardinality(D) \in Nat
           /\ \A counts : IsFiniteSet(Outcomes(n, counts)) /\ Cardinality(Outcomes(n, counts)) \in Nat
<1>1. IsFiniteSet(1 .. n) /\ Cardinality(1 .. n) = n
  BY FS_Interval
<1>2. IsFiniteSet(SUBSET (1 .. n))
  BY <1>1, FS_SUBSET
<1>3. \A T \in SUBSET (1 .. n) : IsFiniteSet(T) /\ Cardinality(T) \in Nat /\ Cardinality(T) <= n
  BY <1>1, FS_Subset, FS_CardinalityType
<1>4. \A D \in SUBSET SUBSET (1 .. n) : IsFiniteSet(D) /\ Cardinality(D) \in Nat
  BY <1>2, FS_Subset, FS_CardinalityType
<1>5. \A counts : Outcomes(n, counts) \in SUBSET SUBSET (1 .. n)
  BY DEF Outcomes
<1>. QED  BY <1>1, <1>2, <1>3, <1>4, <1>5

\* As many outcomes of n tosses are followed by heads as there are.
LEMMA OneMoreHeads ==
    ASSUME NEW n \in Nat, NEW D \in SUBSET SUBSET (1 .. n)
    PROVE  LET E == {T \cup {n + 1} : T \in D}
           IN  /\ IsFiniteSet(E) /\ Cardinality(E) = Cardinality(D)
               /\ E \subseteq SUBSET (1 .. n + 1)
               /\ E \cap SUBSET (1 .. n) = {}
               /\ \A T \in D : Cardinality(T \cup {n + 1}) = Cardinality(T) + 1
<1>. DEFINE E == {T \cup {n + 1} : T \in D}
            f == [T \in D |-> T \cup {n + 1}]
<1>1. n + 1 \notin 1 .. n /\ n + 1 \in 1 .. n + 1 /\ 1 .. n \subseteq 1 .. n + 1
  OBVIOUS
<1>2. ASSUME NEW T \in D, NEW U \in D, T \cup {n + 1} = U \cup {n + 1} PROVE T = U
  <2>1. n + 1 \notin T /\ n + 1 \notin U
    BY <1>1
  <2>2. \A x : x \in T \cup {n + 1} <=> x \in U \cup {n + 1}
    BY <1>2
  <2>3. \A x : x \in T <=> x \in U
    BY <2>1, <2>2
  <2>. QED  BY <2>3
<1>3. f \in Bijection(D, E)
  <2>1. f \in [D -> E] /\ \A T \in D : f[T] = T \cup {n + 1}
    OBVIOUS
  <2>2. \A t \in E : \E s \in D : f[s] = t
    BY <2>1
  <2>3. \A T \in D, U \in D : f[T] = f[U] => T = U
    <3>. HIDE DEF f, E
    <3>. QED  BY <1>2, <2>1
  <2>. HIDE DEF f, E
  <2>4. f \in Injection(D, E)
    BY <2>1, <2>3 DEF Injection, IsInjective
  <2>5. f \in Surjection(D, E)
    BY <2>1, <2>2 DEF Surjection
  <2>. QED  BY <2>4, <2>5 DEF Bijection
<1>4. IsFiniteSet(E) /\ Cardinality(E) = Cardinality(D)
  <2>. HIDE DEF E, f
  <2>. QED  BY <1>3, OutcomesFinite, FS_Bijection DEF ExistsBijection
<1>5. \A T \in D : Cardinality(T \cup {n + 1}) = Cardinality(T) + 1
  BY <1>1, OutcomesFinite, FS_AddElement
<1>6. E \subseteq SUBSET (1 .. n + 1) /\ E \cap SUBSET (1 .. n) = {}
  <2>1. ASSUME NEW T \in D
        PROVE  T \cup {n + 1} \in SUBSET (1 .. n + 1) /\ T \cup {n + 1} \notin SUBSET (1 .. n)
    <3>1. \A x \in T : x \in 1 .. n + 1
      BY <1>1
    <3>2. n + 1 \in T \cup {n + 1}
      OBVIOUS
    <3>. QED  BY <1>1, <3>1, <3>2
  <2>2. ASSUME NEW e \in E PROVE e \in SUBSET (1 .. n + 1) /\ e \notin SUBSET (1 .. n)
    <3>1. PICK T \in D : e = T \cup {n + 1}
      OBVIOUS
    <3>. QED  BY <2>1, <3>1
  <2>. HIDE DEF E
  <2>. QED  BY <2>2
<1>. QED  BY <1>4, <1>5, <1>6

LEMMA PowerOfTwo ==
    ASSUME NEW n \in Nat
    PROVE  /\ Cardinality(SUBSET (1 .. n)) = 2^n
           /\ 2^n \in Nat /\ 2^n >= 1 /\ 2^(n + 1) = 2 * 2^n
<1>1. \A k \in Nat : Cardinality(SUBSET (1 .. k)) = 2^k /\ 2^k \in Nat /\ 2^k # 0
  <2>. SUFFICES ASSUME NEW k \in Nat
                PROVE  Cardinality(SUBSET (1 .. k)) = 2^k /\ 2^k \in Nat /\ 2^k # 0
    OBVIOUS
  <2>1. Cardinality(SUBSET (1 .. k)) = 2^k
    BY OutcomesFinite, FS_SUBSET
  <2>2. Cardinality(SUBSET (1 .. k)) \in Nat /\ Cardinality(SUBSET (1 .. k)) # 0
    <3>1. SUBSET (1 .. k) # {}
      OBVIOUS
    <3>2. IsFiniteSet(SUBSET (1 .. k))
      BY OutcomesFinite
    <3>. QED  BY <3>1, <3>2, FS_CardinalityType, FS_EmptySet
  <2>. QED  BY <2>1, <2>2
<1>. DEFINE D == SUBSET (1 .. n)
            E == {T \cup {n + 1} : T \in D}
<1>2. IsFiniteSet(E) /\ Cardinality(E) = Cardinality(D) /\ D \cap E = {} /\ IsFiniteSet(D)
  BY OneMoreHeads, OutcomesFinite
<1>3. SUBSET (1 .. n + 1) = D \cup E
  <2>1. 1 .. n + 1 = (1 .. n) \cup {n + 1}
    OBVIOUS
  <2>2. ASSUME NEW T \in SUBSET (1 .. n + 1), n + 1 \in T PROVE T \in E
    <3>1. T \ {n + 1} \in D /\ T = (T \ {n + 1}) \cup {n + 1}
      BY <2>1, <2>2
    <3>. QED  BY <3>1
  <2>. QED  BY <2>1, <2>2
<1>4. Cardinality(D \cup E) = Cardinality(D) + Cardinality(D)
  <2>1. Cardinality(D \cap E) = 0 /\ Cardinality(D) \in Nat
    BY <1>2, FS_EmptySet, FS_CardinalityType
  <2>. HIDE DEF D, E
  <2>. QED  BY <1>2, <2>1, FS_Union
<1>5. n + 1 \in Nat
  OBVIOUS
<1>6. 2^(n + 1) = 2^n + 2^n
  <2>1. Cardinality(SUBSET (1 .. n + 1)) = 2^(n + 1) /\ Cardinality(SUBSET (1 .. n)) = 2^n
    BY <1>1, <1>5
  <2>. QED  BY <2>1, <1>3, <1>4
<1>. QED  BY <1>1, <1>6

LEMMA Pascal ==
    ASSUME NEW n \in Nat, NEW k \in Nat
    PROVE  /\ Cardinality(Outcomes(n, {0})) = 1
           /\ k > n => Cardinality(Outcomes(n, {k})) = 0
           /\ Cardinality(Outcomes(n + 1, {k + 1}))
                 = Cardinality(Outcomes(n, {k})) + Cardinality(Outcomes(n, {k + 1}))
<1>1. Cardinality(Outcomes(n, {0})) = 1
  <2>1. \A T \in SUBSET (1 .. n) : Cardinality(T) = 0 <=> T = {}
    BY OutcomesFinite, FS_EmptySet
  <2>2. Outcomes(n, {0}) = {{}}
    BY <2>1 DEF Outcomes
  <2>. QED  BY <2>2, FS_Singleton
<1>2. ASSUME k > n PROVE Cardinality(Outcomes(n, {k})) = 0
  <2>1. \A T \in SUBSET (1 .. n) : Cardinality(T) # k
    <3>1. \A T \in SUBSET (1 .. n) : Cardinality(T) \in Nat /\ Cardinality(T) <= n
      BY OutcomesFinite
    <3>. QED  BY <1>2, <3>1
  <2>2. Outcomes(n, {k}) = {}
    BY <2>1 DEF Outcomes
  <2>. QED  BY <2>2, FS_EmptySet
<1>. DEFINE D == Outcomes(n, {k})
            E == {T \cup {n + 1} : T \in D}
            F == Outcomes(n, {k + 1})
<1>3. D \in SUBSET SUBSET (1 .. n) /\ F \in SUBSET SUBSET (1 .. n) /\ n + 1 \in Nat
  BY DEF Outcomes
<1>4. /\ IsFiniteSet(E) /\ Cardinality(E) = Cardinality(D)
      /\ E \subseteq SUBSET (1 .. n + 1) /\ E \cap SUBSET (1 .. n) = {}
      /\ \A T \in D : Cardinality(T \cup {n + 1}) = Cardinality(T) + 1
  BY <1>3, OneMoreHeads
<1>5. Outcomes(n + 1, {k + 1}) = E \cup F
  <2>1. 1 .. n + 1 = (1 .. n) \cup {n + 1} /\ n + 1 \notin 1 .. n
    OBVIOUS
  <2>2. ASSUME NEW T \in SUBSET (1 .. n + 1), n + 1 \in T, Cardinality(T) = k + 1 PROVE T \in E
    <3>1. T \ {n + 1} \in SUBSET (1 .. n) /\ T = (T \ {n + 1}) \cup {n + 1}
      BY <2>1, <2>2
    <3>2. Cardinality(T \ {n + 1}) = k
      <4>1. IsFiniteSet(T)
        BY <1>3, OutcomesFinite
      <4>2. Cardinality(T \ {n + 1}) = Cardinality(T) - 1
        BY <2>2, <4>1, FS_RemoveElement
      <4>. QED  BY <2>2, <4>2
    <3>3. T \ {n + 1} \in D
      BY <3>1, <3>2 DEF Outcomes
    <3>. QED  BY <3>1, <3>3
  <2>3. ASSUME NEW T \in SUBSET (1 .. n + 1), n + 1 \notin T PROVE T \in SUBSET (1 .. n)
    BY <2>1, <2>3
  <2>4. ASSUME NEW T \in Outcomes(n + 1, {k + 1}) PROVE T \in E \cup F
    <3>1. T \in SUBSET (1 .. n + 1) /\ Cardinality(T) = k + 1
      BY <2>4 DEF Outcomes
    <3>2. CASE n + 1 \in T
      BY <2>2, <3>1, <3>2
    <3>3. CASE n + 1 \notin T
      BY <2>3, <3>1, <3>3 DEF Outcomes
    <3>. QED  BY <3>2, <3>3
  <2>5. ASSUME NEW T \in E PROVE T \in Outcomes(n + 1, {k + 1})
    <3>1. PICK U \in D : T = U \cup {n + 1}
      OBVIOUS
    <3>2. Cardinality(U) = k
      BY DEF Outcomes
    <3>. QED  BY <1>4, <3>1, <3>2 DEF Outcomes
  <2>6. ASSUME NEW T \in F PROVE T \in Outcomes(n + 1, {k + 1})
    BY <2>1 DEF Outcomes
  <2>. HIDE DEF E, F
  <2>. QED  BY <2>4, <2>5, <2>6
<1>6. Cardinality(E \cup F) = Cardinality(D) + Cardinality(F)
  <2>1. E \cap F = {}
    BY <1>3, <1>4
  <2>2. IsFiniteSet(F) /\ IsFiniteSet(D) /\ Cardinality(D) \in Nat /\ Cardinality(F) \in Nat
    BY OutcomesFinite
  <2>3. Cardinality(E \cap F) = 0
    BY <2>1, FS_EmptySet
  <2>. HIDE DEF D, E, F
  <2>4. Cardinality(E \cup F) = Cardinality(E) + Cardinality(F) - Cardinality(E \cap F)
    BY <1>4, <2>2, FS_Union
  <2>. QED  BY <1>4, <2>2, <2>3, <2>4
<1>. QED  BY <1>1, <1>2, <1>5, <1>6

LEMMA ProductOfBoth ==
    ASSUME NEW a \in Nat, NEW b \in Nat, NEW k \in Nat, NEW m \in Nat,
           NEW fk \in Nat, NEW fm \in Nat, NEW N \in Nat,
           a * (fk * ((m + 1) * fm)) = N, b * (((k + 1) * fk) * fm) = N
    PROVE  (a + b) * (((k + 1) * fk) * ((m + 1) * fm)) = (k + m + 2) * N
<1>1. (a + b) * (((k + 1) * fk) * ((m + 1) * fm))
         = (k + 1) * (a * (fk * ((m + 1) * fm))) + (m + 1) * (b * (((k + 1) * fk) * fm))
  OBVIOUS
<1>2. (k + 1) * N + (m + 1) * N = (k + m + 2) * N
  OBVIOUS
<1>. QED  BY <1>1, <1>2

LEMMA ExactQuotient ==
    ASSUME NEW c \in Nat, NEW d \in Nat \ {0}
    PROVE  (c * d) \div d = c
OBVIOUS

\* choose counts the outcomes with k heads.
LEMMA Binomial ==
    ASSUME NEW n \in Nat, NEW k \in 0 .. n
    PROVE  choose(n, k) = Cardinality(Outcomes(n, {k}))
<1>. DEFINE C(m, q) == Cardinality(Outcomes(m, {q}))
            Exact(m) == \A q \in 0 .. m : C(m, q) * (factorial[q] * factorial[m - q]) = factorial[m]
            T == {m \in Nat : Exact(m)}
<1>1. \A m, q \in Nat : /\ C(m, q) \in Nat /\ C(m, 0) = 1 /\ (q > m => C(m, q) = 0)
                        /\ C(m + 1, q + 1) = C(m, q) + C(m, q + 1)
  BY OutcomesFinite, Pascal
<1>2. \A m \in Nat : factorial[m] \in Nat /\ factorial[m] # 0 /\ factorial[m + 1] = (m + 1) * factorial[m]
  BY Factorial
<1>3. factorial[0] = 1
  BY Factorial
<1>. HIDE DEF C
<1>4. 0 \in T
  <2>1. C(0, 0) * (factorial[0] * factorial[0 - 0]) = factorial[0]
    <3>1. C(0, 0) = 1
      BY <1>1
    <3>2. 0 - 0 = 0 /\ 1 * (1 * 1) = 1
      OBVIOUS
    <3>. QED  BY <1>3, <3>1, <3>2
  <2>2. \A q \in 0 .. 0 : q = 0
    OBVIOUS
  <2>. QED  BY <2>1, <2>2
<1>5. ASSUME NEW m \in Nat, m \in T PROVE m + 1 \in T
  <2>. SUFFICES ASSUME NEW q \in 0 .. m + 1
                PROVE  C(m + 1, q) * (factorial[q] * factorial[(m + 1) - q]) = factorial[m + 1]
    OBVIOUS
  <2>0. m + 1 \in Nat /\ factorial[m + 1] \in Nat /\ factorial[m] \in Nat /\ factorial[m] # 0
        /\ factorial[m + 1] = (m + 1) * factorial[m]
    BY <1>2
  <2>1. CASE q = 0
    <3>1. (m + 1) - q = m + 1 /\ C(m + 1, q) = 1
      BY <1>1, <2>0, <2>1
    <3>2. 1 * (1 * factorial[m + 1]) = factorial[m + 1]
      BY <2>0
    <3>. QED  BY <1>3, <2>1, <3>1, <3>2
  <2>2. CASE q = m + 1
    <3>1. C(m, m) * (factorial[m] * factorial[0]) = factorial[m]
      <4>1. m \in 0 .. m /\ m - m = 0
        OBVIOUS
      <4>. QED  BY <1>5, <4>1
    <3>2. C(m, m) = 1
      <4>1. C(m, m) \in Nat
        BY <1>1
      <4>. QED  BY <1>3, <2>0, <3>1, <4>1
    <3>3. C(m + 1, m + 1) = 1
      <4>1. C(m + 1, m + 1) = C(m, m) + C(m, m + 1)
        BY <1>1
      <4>2. C(m, m + 1) = 0
        BY <1>1, <2>0
      <4>. QED  BY <3>2, <4>1, <4>2
    <3>4. (m + 1) - q = 0 /\ 1 * (factorial[m + 1] * 1) = factorial[m + 1]
      BY <2>0, <2>2
    <3>. QED  BY <1>3, <2>2, <3>3, <3>4
  <2>3. CASE q # 0 /\ q # m + 1
    <3>1. PICK p \in Nat : q = p + 1
      <4>1. q - 1 \in Nat /\ q = (q - 1) + 1
        BY <2>3
      <4>. QED  BY <4>1
    <3>2. PICK r \in Nat : m = p + r + 1
      <4>1. m - p - 1 \in Nat /\ m = p + (m - p - 1) + 1
        BY <2>3, <3>1
      <4>. QED  BY <4>1
    <3>3. p \in 0 .. m /\ p + 1 \in 0 .. m /\ m - p = r + 1 /\ m - (p + 1) = r /\ (m + 1) - q = r + 1
      BY <3>1, <3>2
    <3>4. /\ C(m, p) * (factorial[p] * factorial[r + 1]) = factorial[m]
          /\ C(m, p + 1) * (factorial[p + 1] * factorial[r]) = factorial[m]
      BY <1>5, <3>3
    <3>5. /\ factorial[p + 1] = (p + 1) * factorial[p]
          /\ factorial[r + 1] = (r + 1) * factorial[r]
          /\ factorial[p] \in Nat /\ factorial[r] \in Nat
      BY <1>2
    <3>6. C(m, p) \in Nat /\ C(m, p + 1) \in Nat /\ C(m + 1, q) = C(m, p) + C(m, p + 1)
      BY <1>1, <3>1
    <3>7. (C(m, p) + C(m, p + 1)) * (((p + 1) * factorial[p]) * ((r + 1) * factorial[r]))
             = (p + r + 2) * factorial[m]
      <4>. DEFINE a == C(m, p)
                  b == C(m, p + 1)
                  fk == factorial[p]
                  fm == factorial[r]
                  N == factorial[m]
      <4>1. /\ a \in Nat /\ b \in Nat /\ fk \in Nat /\ fm \in Nat /\ N \in Nat
            /\ a * (fk * ((r + 1) * fm)) = N /\ b * (((p + 1) * fk) * fm) = N
        BY <2>0, <3>4, <3>5, <3>6
      <4>. HIDE DEF a, b, fk, fm, N
      <4>2. (a + b) * (((p + 1) * fk) * ((r + 1) * fm)) = (p + r + 2) * N
        BY <4>1, ProductOfBoth
      <4>. QED  BY <4>2 DEF a, b, fk, fm, N
    <3>8. m + 1 = p + r + 2
      BY <3>2
    <3>. QED  BY <2>0, <3>1, <3>3, <3>5, <3>6, <3>7, <3>8
  <2>. QED  BY <2>1, <2>2, <2>3
<1>6. C(n, k) * (factorial[k] * factorial[n - k]) = factorial[n]
  <2>. HIDE DEF T
  <2>1. \A m \in Nat : m \in T
    BY <1>4, <1>5, InductionSet
  <2>. QED  BY <2>1 DEF T
<1>7. factorial[k] * factorial[n - k] \in Nat \ {0} /\ C(n, k) \in Nat
  <2>1. k \in Nat /\ n - k \in Nat
    OBVIOUS
  <2>2. factorial[k] \in Nat \ {0} /\ factorial[n - k] \in Nat \ {0}
    BY <1>2, <2>1
  <2>3. \A x, y \in Nat \ {0} : x * y \in Nat \ {0}
    OBVIOUS
  <2>. QED  BY <1>1, <2>1, <2>2, <2>3
<1>8. factorial[n] \div (factorial[k] * factorial[n - k]) = C(n, k)
  BY <1>6, <1>7, ExactQuotient
<1>. QED  BY <1>8 DEF choose, C

LEMMA OutcomesApart ==
    ASSUME NEW n \in Nat, NEW s, NEW t, s \cap t = {}
    PROVE  Cardinality(Outcomes(n, s \cup t)) = Cardinality(Outcomes(n, s)) + Cardinality(Outcomes(n, t))
<1>1. Outcomes(n, s \cup t) = Outcomes(n, s) \cup Outcomes(n, t)
  BY DEF Outcomes
<1>2. Outcomes(n, s) \cap Outcomes(n, t) = {}
  BY DEF Outcomes
<1>3. /\ IsFiniteSet(Outcomes(n, s)) /\ Cardinality(Outcomes(n, s)) \in Nat
      /\ IsFiniteSet(Outcomes(n, t)) /\ Cardinality(Outcomes(n, t)) \in Nat
  BY OutcomesFinite
<1>4. Cardinality(Outcomes(n, s) \cap Outcomes(n, t)) = 0
  BY <1>2, FS_EmptySet
<1>5. Cardinality(Outcomes(n, s) \cup Outcomes(n, t))
         = Cardinality(Outcomes(n, s)) + Cardinality(Outcomes(n, t))
              - Cardinality(Outcomes(n, s) \cap Outcomes(n, t))
  BY <1>3, FS_Union
<1>6. \A x, y \in Nat : x + y - 0 = x + y
  OBVIOUS
<1>. QED  BY <1>1, <1>3, <1>4, <1>5, <1>6

\* The fold adds up what it is meant to.
LEMMA AtMostCounts ==
    ASSUME NEW n \in Nat, NEW j \in 0 .. n + 1
    PROVE  AtMost(n, j) = Cardinality(Outcomes(n, 0 .. j - 1))
<1>. DEFINE S == 0 .. j - 1
            h(s) == Cardinality(Outcomes(n, s))
            one(s) == CHOOSE x \in s : TRUE
<1>1. ASSUME NEW s \in SUBSET S, s # {}
      PROVE  one(s) \in s /\ h(s) = choose(n, one(s)) + h(s \ {one(s)})
  <2>1. one(s) \in s
    BY <1>1
  <2>. HIDE DEF one
  <2>2. one(s) \in 0 .. n
    <3>1. \A x \in S : x \in 0 .. n
      OBVIOUS
    <3>. HIDE DEF S
    <3>. QED  BY <2>1, <3>1
  <2>3. choose(n, one(s)) = h({one(s)})
    BY <2>2, Binomial
  <2>4. s = {one(s)} \cup (s \ {one(s)}) /\ {one(s)} \cap (s \ {one(s)}) = {}
    BY <2>1
  <2>5. h({one(s)} \cup (s \ {one(s)})) = h({one(s)}) + h(s \ {one(s)})
    BY <2>4, OutcomesApart
  <2>. QED  BY <2>1, <2>3, <2>4, <2>5
<1>2. h({}) = 0
  <2>1. Outcomes(n, {}) = {}
    BY DEF Outcomes
  <2>. QED  BY <2>1, FS_EmptySet
<1>. HIDE DEF h
<1>3. \E F : F = [s \in SUBSET S |->
          IF s = {} THEN 0 ELSE LET x == CHOOSE x \in s : TRUE IN choose(n, x) + F[s \ {x}]]
  <2>. DEFINE H == [s \in SUBSET S |-> h(s)]
  <2>1. \A s \in SUBSET S :
           h(s) = IF s = {} THEN 0 ELSE choose(n, one(s)) + H[s \ {one(s)}]
    <3>. HIDE DEF one
    <3>. QED  BY <1>1, <1>2
  <2>2. H = [s \in SUBSET S |-> IF s = {} THEN 0 ELSE choose(n, one(s)) + H[s \ {one(s)}]]
    <3>. DEFINE e(s) == IF s = {} THEN 0 ELSE choose(n, one(s)) + H[s \ {one(s)}]
    <3>1. \A s \in SUBSET S : h(s) = e(s)
      BY <2>1
    <3>. HIDE DEF e
    <3>2. [s \in SUBSET S |-> h(s)] = [s \in SUBSET S |-> e(s)]
      BY <3>1
    <3>. QED  BY <3>2, Zenon DEF e
  <2>. QED  BY <2>2
<1>4. PICK F : /\ F = [s \in SUBSET S |->
                    IF s = {} THEN 0 ELSE LET x == CHOOSE x \in s : TRUE IN choose(n, x) + F[s \ {x}]]
               /\ AtMost(n, j) = F[S]
  BY <1>3 DEF AtMost, MapThenSumSet, MapThenFoldSet
<1>5. \A s \in SUBSET S : F[s] = IF s = {} THEN 0 ELSE choose(n, one(s)) + F[s \ {one(s)}]
  BY <1>4
<1>6. \A s \in SUBSET S : F[s] = h(s)
  <2>. DEFINE T == {c \in Nat : \A s \in SUBSET S : Cardinality(s) = c => F[s] = h(s)}
  <2>0. IsFiniteSet(S) /\ \A s \in SUBSET S : IsFiniteSet(s) /\ Cardinality(s) \in Nat
    <3>1. IsFiniteSet(S)
      BY FS_Interval
    <3>. QED  BY <3>1, FS_Subset, FS_CardinalityType
  <2>. HIDE DEF S, one
  <2>1. 0 \in T
    BY <1>2, <1>5, <2>0, FS_EmptySet
  <2>2. ASSUME NEW c \in Nat, c \in T PROVE c + 1 \in T
    <3>. SUFFICES ASSUME NEW s \in SUBSET S, Cardinality(s) = c + 1 PROVE F[s] = h(s)
      OBVIOUS
    <3>1. s # {}
      BY FS_EmptySet
    <3>2. one(s) \in s /\ h(s) = choose(n, one(s)) + h(s \ {one(s)})
      BY <1>1, <3>1
    <3>3. s \ {one(s)} \in SUBSET S /\ Cardinality(s \ {one(s)}) = c
      <4>1. IsFiniteSet(s) /\ one(s) \in s
        BY <2>0, <3>2
      <4>2. Cardinality(s \ {one(s)}) = Cardinality(s) - 1
        BY <4>1, FS_RemoveElement
      <4>. QED  BY <4>2
    <3>4. F[s \ {one(s)}] = h(s \ {one(s)})
      BY <2>2, <3>3
    <3>. QED  BY <1>5, <3>1, <3>2, <3>4
  <2>. HIDE DEF T
  <2>3. \A c \in Nat : c \in T
    BY <2>1, <2>2, InductionSet
  <2>. QED  BY <2>0, <2>3 DEF T
<1>. QED  BY <1>4, <1>6 DEF h

\* The loop of median_ci goes on from j.
GoesOn(n, j) == j < n \div 2 /\ 40 * AtMost(n, j + 1) <= 2^n

\* It ends at the first j from which it does not.
LEMMA RankStops ==
    ASSUME NEW n \in Nat \ {0}
    PROVE  Rank(n) \in 1 .. n /\ ~GoesOn(n, Rank(n)) /\ \A i \in 1 .. Rank(n) - 1 : GoesOn(n, i)
<1>. DEFINE IsFirst(j, i) == i \in j .. n /\ ~GoesOn(n, i) /\ \A k \in j .. i - 1 : GoesOn(n, k)
            first(j) == CHOOSE i : IsFirst(j, i)
<1>1. \A j : GoesOn(n, j) => j < n \div 2
  BY DEF GoesOn
<1>2. ~(n < n \div 2) /\ n \div 2 <= n /\ n \div 2 \in Nat
  OBVIOUS
<1>3. ASSUME NEW j \in 1 .. n PROVE IsFirst(j, first(j))
  <2>. DEFINE T == {i \in j .. n : ~GoesOn(n, i)}
  <2>1. n \in T
    BY <1>1, <1>2
  <2>2. T \in SUBSET Nat
    OBVIOUS
  <2>. HIDE DEF T
  <2>3. PICK m \in T : \A t \in T : m <= t
    BY <2>1, <2>2, Least
  <2>4. m \in j .. n /\ ~GoesOn(n, m)
    BY DEF T
  <2>5. \A k \in j .. m - 1 : k \in j .. n /\ ~(m <= k)
    BY <2>4
  <2>6. \A k \in j .. m - 1 : GoesOn(n, k)
    BY <2>3, <2>5 DEF T
  <2>7. IsFirst(j, m)
    BY <2>4, <2>6
  <2>. HIDE DEF IsFirst
  <2>. QED  BY <2>7
<1>4. ASSUME NEW j \in 1 .. n, NEW i, NEW k, IsFirst(j, i), IsFirst(j, k) PROVE i = k
  <2>1. i \in j .. n /\ k \in j .. n
    BY <1>4
  <2>2. CASE i < k
    <3>1. i \in j .. k - 1
      BY <2>1, <2>2
    <3>. QED  BY <1>4, <3>1
  <2>3. CASE k < i
    <3>1. k \in j .. i - 1
      BY <2>1, <2>3
    <3>. QED  BY <1>4, <3>1
  <2>. QED  BY <2>1, <2>2, <2>3
<1>5. ASSUME NEW j \in 1 .. n, GoesOn(n, j) PROVE j + 1 \in 1 .. n /\ first(j) = first(j + 1)
  <2>1. j + 1 \in 1 .. n
    BY <1>1, <1>2, <1>5
  <2>2. IsFirst(j + 1, first(j + 1))
    BY <1>3, <2>1
  <2>. DEFINE i == first(j + 1)
  <2>. HIDE DEF first, i
  <2>3. i \in j + 1 .. n /\ ~GoesOn(n, i) /\ \A k \in j + 1 .. i - 1 : GoesOn(n, k)
    BY <2>2 DEF i
  <2>4. \A k \in j .. i - 1 : k = j \/ k \in j + 1 .. i - 1
    BY <2>3
  <2>5. i \in j .. n
    BY <2>3
  <2>6. IsFirst(j, i)
    BY <1>5, <2>3, <2>4, <2>5
  <2>7. IsFirst(j, first(j))
    BY <1>3
  <2>8. i = first(j)
    <3>. HIDE DEF IsFirst
    <3>. QED  BY <1>4, <2>6, <2>7
  <2>. QED  BY <2>1, <2>8 DEF i
<1>6. ASSUME NEW j \in 1 .. n, ~GoesOn(n, j) PROVE first(j) = j
  <2>1. IsFirst(j, j)
    BY <1>6
  <2>2. IsFirst(j, first(j))
    BY <1>3
  <2>. HIDE DEF IsFirst, first
  <2>. QED  BY <1>4, <2>1, <2>2
<1>. HIDE DEF first
<1>7. \E F : F = [j \in 1 .. n |->
          IF j < n \div 2 /\ 40 * AtMost(n, j + 1) <= 2^n THEN F[j + 1] ELSE j]
  <2>. DEFINE H == [j \in 1 .. n |-> first(j)]
              e(j) == IF j < n \div 2 /\ 40 * AtMost(n, j + 1) <= 2^n THEN H[j + 1] ELSE j
  <2>1. ASSUME NEW j \in 1 .. n PROVE first(j) = e(j)
    BY <1>5, <1>6, <2>1 DEF GoesOn
  <2>2. [j \in 1 .. n |-> first(j)] = [j \in 1 .. n |-> e(j)]
    <3>. HIDE DEF e
    <3>. QED  BY <2>1
  <2>3. H = [j \in 1 .. n |->
              IF j < n \div 2 /\ 40 * AtMost(n, j + 1) <= 2^n THEN H[j + 1] ELSE j]
    BY <2>2, Zenon
  <2>. QED  BY <2>3
<1>8. PICK F : /\ F = [j \in 1 .. n |->
                    IF j < n \div 2 /\ 40 * AtMost(n, j + 1) <= 2^n THEN F[j + 1] ELSE j]
               /\ Rank(n) = F[1]
  BY <1>7 DEF Rank
<1>9. \A j \in 1 .. n : F[j] = IF GoesOn(n, j) THEN F[j + 1] ELSE j
  BY <1>8 DEF GoesOn
<1>10. PICK m : IsFirst(1, m)
  <2>1. 1 \in 1 .. n
    OBVIOUS
  <2>. QED  BY <1>3, <2>1
<1>11. m \in 1 .. n /\ ~GoesOn(n, m) /\ \A k \in 1 .. m - 1 : GoesOn(n, k)
  BY <1>10
<1>12. \A d \in Nat : d < m => F[m - d] = m
  <2>. DEFINE T == {d \in Nat : d < m => F[m - d] = m}
  <2>1. 0 \in T
    <3>1. m - 0 = m /\ F[m] = m
      BY <1>9, <1>11
    <3>. QED  BY <3>1
  <2>2. ASSUME NEW d \in Nat, d \in T PROVE d + 1 \in T
    <3>. SUFFICES ASSUME d + 1 < m PROVE F[m - (d + 1)] = m
      OBVIOUS
    <3>1. m - (d + 1) \in 1 .. m - 1 /\ m - (d + 1) \in 1 .. n /\ (m - (d + 1)) + 1 = m - d /\ d < m
      BY <1>11
    <3>2. F[m - (d + 1)] = F[(m - (d + 1)) + 1]
      BY <1>9, <1>11, <3>1
    <3>. QED  BY <2>2, <3>1, <3>2
  <2>. HIDE DEF T
  <2>3. \A d \in Nat : d \in T
    BY <2>1, <2>2, InductionSet
  <2>. QED  BY <2>3 DEF T
<1>13. F[1] = m
  <2>1. m - 1 \in Nat /\ m - 1 < m /\ m - (m - 1) = 1
    BY <1>11
  <2>2. F[m - (m - 1)] = m
    BY <1>12, <2>1
  <2>. QED  BY <2>1, <2>2
<1>. QED  BY <1>8, <1>11, <1>13

LEMMA SmallPowers ==
    ASSUME NEW n \in Nat
    PROVE  (n < 6 => 2^n <= 32) /\ (n >= 6 => 2^n >= 64)
<1>1. 2^0 = 1 /\ 2^1 = 2 /\ 2^2 = 4 /\ 2^3 = 8 /\ 2^4 = 16 /\ 2^5 = 32 /\ 2^6 = 64
  OBVIOUS
<1>2. ASSUME n < 6 PROVE 2^n <= 32
  <2>1. n = 0 \/ n = 1 \/ n = 2 \/ n = 3 \/ n = 4 \/ n = 5
    BY <1>2
  <2>2. 2^n \in {1, 2, 4, 8, 16, 32}
    BY <1>1, <2>1, Zenon
  <2>. QED  BY <2>2
<1>3. ASSUME n >= 6 PROVE 2^n >= 64
  <2>. DEFINE T == {d \in Nat : 2^(6 + d) >= 64}
  <2>1. 0 \in T
    <3>1. 6 + 0 = 6 /\ 64 >= 64
      OBVIOUS
    <3>. QED  BY <1>1, <3>1
  <2>2. ASSUME NEW d \in Nat, d \in T PROVE d + 1 \in T
    <3>1. 6 + d \in Nat /\ 6 + (d + 1) = (6 + d) + 1
      OBVIOUS
    <3>2. 2^(6 + d) \in Nat /\ 2^((6 + d) + 1) = 2 * 2^(6 + d) /\ 2^(6 + d) >= 64
      BY <2>2, <3>1, PowerOfTwo
    <3>3. \A p \in Nat : p >= 64 => 2 * p >= 64
      OBVIOUS
    <3>4. 2^(6 + (d + 1)) >= 64
      BY <3>1, <3>2, <3>3
    <3>. QED  BY <3>4
  <2>. HIDE DEF T
  <2>3. n - 6 \in Nat /\ 6 + (n - 6) = n
    BY <1>3
  <2>4. \A d \in Nat : d \in T
    BY <2>1, <2>2, InductionSet
  <2>5. 2^(6 + (n - 6)) >= 64
    BY <2>3, <2>4 DEF T
  <2>. QED  BY <2>3, <2>5
<1>. QED  BY <1>2, <1>3

\* As many outcomes have few heads as have few tails.
LEMMA HeadsAndTails ==
    ASSUME NEW n \in Nat, NEW j \in 1 .. n
    PROVE  Cardinality(Outcomes(n, n - j + 1 .. n)) = Cardinality(Outcomes(n, 0 .. j - 1))
<1>. DEFINE N == 1 .. n
            D == Outcomes(n, 0 .. j - 1)
            E == Outcomes(n, n - j + 1 .. n)
            f == [T \in D |-> N \ T]
<1>1. ASSUME NEW T \in SUBSET N
      PROVE  /\ N \ T \in SUBSET N /\ N \ (N \ T) = T
             /\ Cardinality(T) \in 0 .. n /\ Cardinality(N \ T) = n - Cardinality(T)
  <2>1. IsFiniteSet(N) /\ Cardinality(N) = n /\ IsFiniteSet(T) /\ Cardinality(T) \in Nat /\ Cardinality(T) <= n
    BY OutcomesFinite
  <2>. HIDE DEF N
  <2>2. Cardinality(N \ T) = Cardinality(N) - Cardinality(N \cap T)
    BY <2>1, FS_Difference
  <2>3. N \cap T = T /\ N \ (N \ T) = T
    OBVIOUS
  <2>4. Cardinality(N \ T) = n - Cardinality(T)
    BY <2>1, <2>2, <2>3
  <2>5. Cardinality(T) \in 0 .. n
    BY <2>1
  <2>. QED  BY <2>3, <2>4, <2>5
<1>. HIDE DEF N
<1>2. ASSUME NEW T \in SUBSET N PROVE T \in D <=> N \ T \in E
  <2>1. T \in D <=> Cardinality(T) \in 0 .. j - 1
    BY DEF Outcomes, N
  <2>2. N \ T \in E <=> Cardinality(N \ T) \in n - j + 1 .. n
    BY DEF Outcomes, N
  <2>3. \A c \in 0 .. n : c \in 0 .. j - 1 <=> n - c \in n - j + 1 .. n
    OBVIOUS
  <2>. QED  BY <1>1, <2>1, <2>2, <2>3
<1>3. D \subseteq SUBSET N /\ E \subseteq SUBSET N
  BY DEF Outcomes, N
<1>4. f \in Bijection(D, E)
  <2>. HIDE DEF D, E
  <2>1. f \in [D -> E]
    BY <1>2, <1>3
  <2>2. \A T \in D, U \in D : f[T] = f[U] => T = U
    <3>. SUFFICES ASSUME NEW T \in D, NEW U \in D, N \ T = N \ U PROVE T = U
      OBVIOUS
    <3>1. T = N \ (N \ T) /\ U = N \ (N \ U)
      BY <1>1, <1>3
    <3>. QED  BY <3>1
  <2>3. ASSUME NEW U \in E PROVE \E T \in D : f[T] = U
    <3>1. U \in SUBSET N /\ N \ (N \ U) = U /\ N \ U \in SUBSET N
      BY <1>1, <1>3
    <3>2. N \ U \in D
      BY <1>2, <3>1
    <3>. QED  BY <3>1, <3>2
  <2>. HIDE DEF f
  <2>4. f \in Injection(D, E)
    BY <2>1, <2>2 DEF Injection, IsInjective
  <2>5. f \in Surjection(D, E)
    BY <2>1, <2>3 DEF Surjection
  <2>. QED  BY <2>4, <2>5 DEF Bijection
<1>5. IsFiniteSet(D)
  BY OutcomesFinite
<1>. HIDE DEF D, E, f
<1>6. Cardinality(E) = Cardinality(D)
  BY <1>4, <1>5, FS_Bijection DEF ExistsBijection
<1>. QED  BY <1>6 DEF D, E

\* What is between the j-th values from either end is what is in neither tail.
LEMMA BetweenTails ==
    ASSUME NEW n \in Nat, NEW j \in 1 .. n, 2 * j <= n + 1
    PROVE  /\ AtMost(n, j) \in Nat /\ AtMost(n, j) >= 1 /\ AtMost(n, 1) = 1
           /\ Covered(n, j) \in Nat /\ Covered(n, j) = 2^n - 2 * AtMost(n, j)
<1>. DEFINE C(s) == Cardinality(Outcomes(n, s))
            below == 0 .. j - 1
            between == j .. n - j
            above == n - j + 1 .. n
<1>1. AtMost(n, j) = C(below) /\ AtMost(n, 1) = C(0 .. 0)
  <2>1. j \in 0 .. n + 1 /\ 1 \in 0 .. n + 1 /\ 1 - 1 = 0
    OBVIOUS
  <2>. QED  BY <2>1, AtMostCounts
<1>2. Covered(n, j) = C(between)
  BY DEF Covered, Outcomes
<1>3. \A s : C(s) \in Nat
  BY OutcomesFinite
<1>4. C(0 .. 0) = 1
  <2>1. 0 .. 0 = {0}
    OBVIOUS
  <2>. QED  BY <2>1, Pascal
<1>5. C(below) # 0
  <2>1. {} \in Outcomes(n, below)
    <3>1. Cardinality({}) = 0 /\ 0 \in below
      BY FS_EmptySet
    <3>. QED  BY <3>1 DEF Outcomes
  <2>2. IsFiniteSet(Outcomes(n, below))
    BY OutcomesFinite
  <2>. QED  BY <2>1, <2>2, FS_EmptySet
<1>6. C((below \cup between) \cup above) = (C(below) + C(between)) + C(above)
  <2>1. below \cap between = {} /\ (below \cup between) \cap above = {}
    OBVIOUS
  <2>. HIDE DEF below, between, above
  <2>2. C(below \cup between) = C(below) + C(between)
    BY <2>1, OutcomesApart
  <2>3. C((below \cup between) \cup above) = C(below \cup between) + C(above)
    BY <2>1, OutcomesApart
  <2>. QED  BY <2>2, <2>3
<1>7. C((below \cup between) \cup above) = 2^n
  <2>1. (below \cup between) \cup above = 0 .. n
    OBVIOUS
  <2>2. Outcomes(n, 0 .. n) = SUBSET (1 .. n)
    <3>1. \A T \in SUBSET (1 .. n) : Cardinality(T) \in 0 .. n
      <4>1. \A T \in SUBSET (1 .. n) : Cardinality(T) \in Nat /\ Cardinality(T) <= n
        BY OutcomesFinite
      <4>. QED  BY <4>1
    <3>. QED  BY <3>1 DEF Outcomes
  <2>. QED  BY <2>1, <2>2, PowerOfTwo
<1>8. C(above) = C(below)
  BY HeadsAndTails
<1>9. C(below) \in Nat /\ C(between) \in Nat
  BY <1>3
<1>. HIDE DEF C
<1>. QED  BY <1>1, <1>2, <1>4, <1>5, <1>6, <1>7, <1>8, <1>9

\* With fewer than six runs the loop does not even begin.
LEMMA RankOfFew ==
    ASSUME NEW n \in Nat \ {0}
    PROVE  /\ Rank(n) \in 1 .. n /\ 2 * Rank(n) <= n + 1
           /\ Rank(n) > 1 => n >= 6 /\ 40 * AtMost(n, Rank(n)) <= 2^n
<1>. DEFINE j == Rank(n)
<1>1. j \in 1 .. n /\ \A i \in 1 .. j - 1 : GoesOn(n, i)
  BY RankStops
<1>. HIDE DEF j
<1>2. ASSUME j > 1 PROVE n >= 6 /\ 40 * AtMost(n, j) <= 2^n /\ 2 * j <= n + 1
  <2>1. j - 1 \in 1 .. j - 1 /\ (j - 1) + 1 = j
    BY <1>1, <1>2
  <2>2. j - 1 < n \div 2 /\ 40 * AtMost(n, j) <= 2^n
    BY <1>1, <2>1 DEF GoesOn
  <2>3. 2 * j <= n + 1
    <3>1. 2 * (n \div 2) <= n /\ n \div 2 \in Nat
      OBVIOUS
    <3>. QED  BY <1>1, <2>2, <3>1
  <2>4. AtMost(n, j) \in Nat /\ AtMost(n, j) >= 1
    BY <1>1, <2>3, BetweenTails
  <2>5. 2^n \in Nat /\ (n < 6 => 2^n <= 32)
    BY SmallPowers, PowerOfTwo
  <2>. QED  BY <2>2, <2>3, <2>4, <2>5
<1>3. j = 1 => 2 * j <= n + 1
  OBVIOUS
<1>. QED  BY <1>1, <1>2, <1>3 DEF j

LEMMA NthOfRanks ==
    ASSUME NEW n \in Nat, NEW k \in 1 .. n
    PROVE  Nth([i \in 1 .. n |-> i], k) = k
<1>. DEFINE ranks == [i \in 1 .. n |-> i]
<1>1. Range(ranks) = 1 .. n /\ DOMAIN ranks = 1 .. n
  BY DEF Range
<1>2. ASSUME NEW v \in 1 .. n
      PROVE  /\ Cardinality({i \in DOMAIN ranks : ranks[i] < v}) = v - 1
             /\ Cardinality({i \in DOMAIN ranks : ranks[i] <= v}) = v
  <2>1. {i \in DOMAIN ranks : ranks[i] < v} = 1 .. v - 1
    OBVIOUS
  <2>2. {i \in DOMAIN ranks : ranks[i] <= v} = 1 .. v
    OBVIOUS
  <2>. HIDE DEF ranks
  <2>3. Cardinality(1 .. v - 1) = v - 1 /\ Cardinality(1 .. v) = v
    <3>1. v - 1 \in Nat /\ v \in Nat
      OBVIOUS
    <3>. QED  BY <3>1, OutcomesFinite
  <2>. QED  BY <2>1, <2>2, <2>3
<1>. DEFINE P(v) == /\ Cardinality({i \in DOMAIN ranks : ranks[i] < v}) < k
                    /\ Cardinality({i \in DOMAIN ranks : ranks[i] <= v}) >= k
<1>3. \A v \in 1 .. n : P(v) <=> v = k
  <2>. HIDE DEF ranks
  <2>. QED  BY <1>2
<1>4. Nth(ranks, k) = CHOOSE v \in 1 .. n : P(v)
  BY <1>1, Zenon DEF Nth
<1>. HIDE DEF P, ranks
<1>5. (CHOOSE v \in 1 .. n : P(v)) = k
  BY <1>3
<1>. QED  BY <1>4, <1>5 DEF ranks

LEMMA IntervalOfMedian ==
    ASSUME NEW n \in Nat \ {0}
    PROVE  IntervalIsRight(n)
<1>. DEFINE ranks == [i \in 1 .. n |-> i]
            j == Rank(n)
<1>1. Count(ranks) = n
  <2>1. DOMAIN ranks = 1 .. n
    OBVIOUS
  <2>. HIDE DEF ranks
  <2>. QED  BY <2>1, OutcomesFinite DEF Count
<1>2. /\ j \in 1 .. n /\ 2 * j <= n + 1
      /\ j > 1 => n >= 6 /\ 40 * AtMost(n, j) <= 2^n
  BY RankOfFew
<1>3. ~GoesOn(n, j)
  BY RankStops
<1>4. low(ranks) = j /\ high(ranks) = n - j + 1
  <2>. HIDE DEF j
  <2>1. n - j + 1 \in 1 .. n
    BY <1>2
  <2>2. Nth(ranks, j) = j /\ Nth(ranks, n - j + 1) = n - j + 1
    BY <1>2, <2>1, NthOfRanks
  <2>. HIDE DEF ranks
  <2>. QED  BY <1>1, <2>2 DEF low, high, j
<1>. HIDE DEF ranks, j
<1>5. /\ AtMost(n, j) \in Nat /\ AtMost(n, j) >= 1 /\ AtMost(n, 1) = 1
      /\ Covered(n, j) = 2^n - 2 * AtMost(n, j)
  BY <1>2, BetweenTails
<1>6. coverage(n) = 2^n - 2 * AtMost(n, j)
  BY DEF coverage, j
<1>7. 2^n \in Nat /\ 2^n >= 1 /\ (n < 6 => 2^n <= 32) /\ (n >= 6 => 2^n >= 64)
  BY PowerOfTwo, SmallPowers
<1>8. n >= 6 <=> 20 * coverage(n) >= 19 * 2^n
  <2>1. CASE j = 1
    BY <1>5, <1>6, <1>7, <2>1
  <2>2. CASE j > 1
    BY <1>2, <1>5, <1>6, <1>7, <2>2
  <2>. QED  BY <1>2, <2>1, <2>2
<1>9. ASSUME NEW k \in j + 1 .. n PROVE 20 * Covered(n, k) < 19 * 2^n
  <2>0. n \div 2 \in Nat /\ 2 * (n \div 2) <= n /\ n <= 2 * (n \div 2) + 1
    OBVIOUS
  <2>1. CASE ~(j < n \div 2)
    <3>1. k .. n - k = {}
      BY <1>2, <2>0, <2>1
    <3>2. Covered(n, k) = 0
      <4>1. {heads \in SUBSET (1 .. n) : Cardinality(heads) \in k .. n - k} = {}
        BY <3>1
      <4>. QED  BY <4>1, FS_EmptySet DEF Covered
    <3>. QED  BY <1>7, <3>2
  <2>2. CASE j < n \div 2 /\ ~(40 * AtMost(n, j + 1) <= 2^n)
    <3>1. j + 1 \in 1 .. n /\ 2 * (j + 1) <= n + 1
      BY <1>2, <2>0, <2>2
    <3>2. /\ AtMost(n, j + 1) \in Nat /\ Covered(n, j + 1) \in Nat
          /\ Covered(n, j + 1) = 2^n - 2 * AtMost(n, j + 1)
      BY <3>1, BetweenTails
    <3>3. Covered(n, k) <= Covered(n, j + 1) /\ Covered(n, k) \in Nat
      <4>1. Covered(n, k) = Cardinality(Outcomes(n, k .. n - k))
        BY DEF Covered, Outcomes
      <4>2. Covered(n, j + 1) = Cardinality(Outcomes(n, j + 1 .. n - (j + 1)))
        BY DEF Covered, Outcomes
      <4>3. \A c \in k .. n - k : c \in j + 1 .. n - (j + 1)
        BY <1>2
      <4>4. Outcomes(n, k .. n - k) \subseteq Outcomes(n, j + 1 .. n - (j + 1))
        BY <4>3 DEF Outcomes
      <4>5. IsFiniteSet(Outcomes(n, j + 1 .. n - (j + 1)))
        BY OutcomesFinite
      <4>6. Cardinality(Outcomes(n, k .. n - k)) \in Nat
        BY OutcomesFinite
      <4>. QED  BY <4>1, <4>2, <4>4, <4>5, <4>6, FS_Subset
    <3>. QED  BY <1>7, <2>2, <3>2, <3>3
  <2>. QED  BY <1>3, <2>1, <2>2 DEF GoesOn
<1>10. n < 6 => j = 1
  BY <1>2
<1>11. n - j + 1 = n + 1 - j
  BY <1>2
<1>. QED  BY <1>4, <1>5, <1>6, <1>8, <1>9, <1>10, <1>11 DEF IntervalIsRight, ranks

\* Of fewer than six values the interval is from the smallest to the largest.
LEMMA IntervalOfFew ==
    ASSUME NEW S, IsFiniteSet(S), Cardinality(S) \in 1 .. 5, NEW f \in [S -> Nat]
    PROVE  /\ low(f) \in Nat /\ high(f) \in Nat
           /\ \A i \in S : low(f) <= f[i] /\ f[i] <= high(f)
<1>. DEFINE n == Cardinality(S)
<1>1. Count(f) = n
  BY DEF Count
<1>2. n \in Nat \ {0} /\ n < 6 /\ 1 \in 1 .. n /\ n \in 1 .. n /\ n - 1 + 1 = n
  OBVIOUS
<1>3. Rank(n) = 1
  <2>. HIDE DEF n
  <2>1. Rank(n) \in 1 .. n /\ ~(Rank(n) > 1)
    BY <1>2, RankOfFew
  <2>. QED  BY <1>2, <2>1
<1>4. low(f) = Nth(f, 1) /\ high(f) = Nth(f, n)
  <2>. HIDE DEF n
  <2>. QED  BY <1>1, <1>2, <1>3 DEF low, high
<1>5. /\ Nth(f, 1) \in Nat /\ Cardinality({i \in S : f[i] < Nth(f, 1)}) < 1
      /\ Nth(f, n) \in Nat /\ Cardinality({i \in S : f[i] <= Nth(f, n)}) >= n
  <2>1. \A k \in 1 .. Cardinality(S) :
           /\ Nth(f, k) \in Nat /\ Cardinality({i \in S : f[i] < Nth(f, k)}) < k
           /\ Cardinality({i \in S : f[i] <= Nth(f, k)}) >= k
    BY NthExists
  <2>2. 1 \in 1 .. Cardinality(S) /\ n \in 1 .. Cardinality(S)
    BY <1>2
  <2>. HIDE DEF n
  <2>. QED  BY <2>1, <2>2
<1>6. \A i \in S : Nth(f, 1) <= f[i]
  <2>. DEFINE below == {i \in S : f[i] < Nth(f, 1)}
  <2>1. IsFiniteSet(below) /\ Cardinality(below) \in Nat
    BY FS_Subset, FS_CardinalityType
  <2>2. below = {}
    <3>. HIDE DEF below
    <3>1. Cardinality(below) = 0
      BY <1>5, <2>1 DEF below
    <3>. QED  BY <2>1, <3>1, FS_EmptySet
  <2>. QED  BY <1>5, <2>2
<1>7. \A i \in S : f[i] <= Nth(f, n)
  <2>. DEFINE upTo == {i \in S : f[i] <= Nth(f, n)}
  <2>1. upTo \subseteq S /\ Cardinality(upTo) >= n
    BY <1>5
  <2>2. Cardinality(upTo) \in Nat /\ Cardinality(upTo) <= n /\ (Cardinality(upTo) = n => upTo = S)
    <3>. HIDE DEF upTo
    <3>. QED  BY <2>1, FS_Subset, FS_CardinalityType
  <2>3. upTo = S
    <3>. HIDE DEF upTo, n
    <3>. QED  BY <1>2, <2>1, <2>2
  <2>. QED  BY <2>3
<1>. QED  BY <1>4, <1>5, <1>6, <1>7

-----------------------------------------------------------------------------
(* The medians.                                                            *)

LEMMA MedianIsANumber ==
    ASSUME NEW S, IsFiniteSet(S), S # {}, NEW f \in [S -> Nat]
    PROVE  median(f) \in Nat
<1>1. PICK n \in Nat : n = Cardinality(S) /\ n # 0
  BY FS_CardinalityType, FS_EmptySet
<1>2. Count(f) = n
  BY <1>1 DEF Count
<1>3. (n + 1) \div 2 \in 1 .. n /\ n \div 2 + 1 \in 1 .. n
  BY <1>1
<1>4. Nth(f, (n + 1) \div 2) \in Nat /\ Nth(f, n \div 2 + 1) \in Nat
  BY <1>1, <1>3, NthExists
<1>. QED  BY <1>2, <1>4 DEF median

\* The groups that are shown have runs, which have speeds.
LEMMA ShownValues ==
    ASSUME IInv, NEW c, NEW impl, Shown(rows, c, impl, plan.reps)
    PROVE  /\ IsFiniteSet(Measured(c, impl)) /\ Measured(c, impl) # {}
           /\ Values(Said, c, impl) \in [Measured(c, impl) -> Nat]
           /\ Runs(Said, c, impl) = Cardinality(Measured(c, impl))
           /\ Runs(Said, c, impl) \in 1 .. plan.reps
<1>0. TypeOK /\ OneByOne /\ plan.speeds \subseteq Nat
  BY PlanTypes DEF IInv, TypeOK
<1>1. Runs(Said, c, impl) # 0
  BY <1>0, StatusFacts DEF Shown, StatusOf
<1>2. /\ IsFiniteSet(Measured(c, impl)) /\ Runs(Said, c, impl) = Cardinality(Measured(c, impl))
      /\ Runs(Said, c, impl) \in Nat /\ Runs(Said, c, impl) <= plan.reps
  BY MeasuredRounds
<1>3. Measured(c, impl) # {}
  BY <1>1, <1>2, FS_EmptySet
<1>4. Values(Said, c, impl) = [i \in Measured(c, impl) |-> Said[i].speed]
  BY <1>0, SaidGroup DEF Values, Measured
<1>5. ASSUME NEW i \in Measured(c, impl) PROVE Said[i].speed \in Nat
  <2>1. i \in DOMAIN rows
    BY <1>0, GroupFacts DEF Measured
  <2>2. rows[i].speed \in Nat /\ DOMAIN rows[i] =
           {"impl", "config", "phase", "round", "status", "checksum", "speed", "valid"}
    <3>1. rows[i] \in Row
      BY <1>0, <2>1, RowTypes
    <3>. QED  BY <1>0, <3>1 DEF Row
  <2>3. Said[i].speed = rows[i].speed
    BY <1>0, <2>1, SaidFacts
  <2>. QED  BY <2>2, <2>3
<1>6. plan.reps \in Nat
  BY <1>0, PlanTypes DEF TypeOK
<1>. QED  BY <1>1, <1>2, <1>3, <1>4, <1>5, <1>6

LEMMA ShownMedian ==
    ASSUME IInv, NEW c, NEW impl, Shown(rows, c, impl, plan.reps)
    PROVE  median(Values(Said, c, impl)) \in Nat
BY ShownValues, MedianIsANumber

(* Bold goes to one implementation at most, and to one that has a median   *)
(* to show, however many are compared and whatever they measured.          *)
THEOREM OneIsBold == Spec => []BoldIsOne
<1>1. IInv => BoldIsOne
  <2>. SUFFICES ASSUME IInv, NEW c \in 1 .. plan.configs, NEW lowerBetter \in BOOLEAN
                PROVE  LET bold == Bold(rows, c, plan.reps, lowerBetter)
                       IN  /\ \A b \in bold : b \in Impls /\ Shown(rows, c, b, plan.reps)
                           /\ \A a, b \in bold : a = b
    BY DEF BoldIsOne
  <2>. DEFINE shown == {impl \in {Said[i].impl : i \in DOMAIN Said} : Shown(rows, c, impl, plan.reps)}
              groups == [impl \in shown |-> Values(Said, c, impl)]
              bold == Bold(rows, c, plan.reps, lowerBetter)
              Beats(a, b) == IF lowerBetter THEN median(groups[a]) < median(groups[b])
                             ELSE median(groups[a]) > median(groups[b])
  <2>0. TypeOK
    BY DEF IInv
  <2>1. bold = clear_best(groups, lowerBetter)
    BY DEF Bold, Said
  <2>2. ASSUME NEW b \in bold PROVE b \in shown /\ \A r \in shown \ {b} : Beats(b, r)
    BY <2>1, <2>2 DEF clear_best
  <2>3. ASSUME NEW b \in shown PROVE b \in Impls /\ Shown(rows, c, b, plan.reps)
    <3>1. DOMAIN Said = DOMAIN rows
      BY DEF Said, resolve_unverified
    <3>. QED  BY <2>0, <3>1, SaidFacts, RowTypes
  <2>4. ASSUME NEW a \in bold, NEW b \in bold, a # b PROVE FALSE
    <3>1. a \in shown /\ b \in shown /\ Beats(a, b) /\ Beats(b, a)
      BY <2>2, <2>4
    <3>2. median(groups[a]) \in Nat /\ median(groups[b]) \in Nat
      BY <2>3, <3>1, ShownMedian
    <3>. QED  BY <3>1, <3>2
  <2>. QED  BY <2>2, <2>3, <2>4
<1>. QED  BY <1>1, Inductive, PTL

(* Bold is earned, however many are compared and whatever was measured: of *)
(* fewer than six runs each of the winner's beats each of a next best's.   *)
THEOREM BoldRunsWin == Spec => []BoldIsEarned
<1>1. IInv /\ BoldIsOne => BoldIsEarned
  <2>. SUFFICES ASSUME IInv, BoldIsOne, plan.reps < 6,
                       NEW c \in 1 .. plan.configs, NEW lowerBetter \in BOOLEAN
                PROVE  LET bold == Bold(rows, c, plan.reps, lowerBetter)
                           shown == {impl \in Impls : Shown(rows, c, impl, plan.reps)}
                           values(impl) == Values(Said, c, impl)
                           Better(x, y) == IF lowerBetter THEN x < y ELSE x > y
                       IN  \A b \in bold : \E r \in shown \ {b} :
                               /\ \A a \in shown \ {b} : ~Better(median(values(a)), median(values(r)))
                               /\ \A v \in Range(values(b)), w \in Range(values(r)) : Better(v, w)
    BY DEF BoldIsEarned, Said
  <2>. DEFINE shown == {impl \in Impls : Shown(rows, c, impl, plan.reps)}
              named == {impl \in {Said[i].impl : i \in DOMAIN Said} : Shown(rows, c, impl, plan.reps)}
              values(impl) == Values(Said, c, impl)
              groups == [impl \in named |-> values(impl)]
              bold == Bold(rows, c, plan.reps, lowerBetter)
              Better(x, y) == IF lowerBetter THEN x < y ELSE x > y
  <2>. SUFFICES ASSUME NEW b \in bold
                PROVE  \E r \in shown \ {b} :
                          /\ \A a \in shown \ {b} : ~Better(median(values(a)), median(values(r)))
                          /\ \A v \in Range(values(b)), w \in Range(values(r)) : Better(v, w)
    OBVIOUS
  <2>0. TypeOK /\ plan.reps \in Nat
    BY PlanTypes DEF IInv, TypeOK, Impls
  <2>1. bold = clear_best(groups, lowerBetter)
    BY DEF Bold, Said
  <2>2. named = shown
    <3>1. DOMAIN Said = DOMAIN rows
      BY DEF Said, resolve_unverified
    <3>2. named \subseteq shown
      BY <2>0, <3>1, SaidFacts, RowTypes
    <3>3. ASSUME NEW impl \in shown PROVE impl \in named
      <4>1. Measured(c, impl) # {}
        BY ShownValues
      <4>2. PICK i \in Group(rows, c, impl) : TRUE
        BY <4>1 DEF Measured
      <4>3. i \in DOMAIN rows /\ rows[i].impl = impl
        BY <4>2 DEF Group
      <4>4. i \in DOMAIN Said /\ Said[i].impl = impl
        BY <2>0, <3>1, <4>3, SaidFacts
      <4>. QED  BY <4>4
    <3>. QED  BY <3>2, <3>3
  <2>3. PICK r \in shown \ {b} :
           /\ b \in shown /\ separated(values(b), values(r), lowerBetter)
           /\ \A a \in (shown \ {b}) \ {r} : ~Better(median(values(a)), median(values(r)))
    <3>1. DOMAIN groups = shown /\ \A a \in shown : groups[a] = values(a)
      BY <2>2
    <3>2. b \in clear_best(groups, lowerBetter)
      BY <2>1
    <3>. HIDE DEF groups, values, shown, bold
    <3>. QED  BY <3>1, <3>2 DEF clear_best
  <2>4. ASSUME NEW a \in shown \ {b} PROVE ~Better(median(values(a)), median(values(r)))
    <3>1. CASE a = r
      <4>1. median(values(r)) \in Nat
        BY ShownMedian
      <4>. QED  BY <3>1, <4>1
    <3>. QED  BY <2>3, <3>1
  <2>5. ASSUME NEW impl \in shown
        PROVE  /\ low(values(impl)) \in Nat /\ high(values(impl)) \in Nat
               /\ \A x \in Range(values(impl)) :
                     x \in Nat /\ low(values(impl)) <= x /\ x <= high(values(impl))
    <3>. DEFINE f == values(impl)
                M == Measured(c, impl)
    <3>1. IsFiniteSet(M) /\ f \in [M -> Nat] /\ Cardinality(M) \in 1 .. plan.reps
      BY ShownValues
    <3>2. Cardinality(M) \in 1 .. 5
      BY <2>0, <3>1
    <3>. HIDE DEF f, M
    <3>3. low(f) \in Nat /\ high(f) \in Nat /\ \A i \in M : low(f) <= f[i] /\ f[i] <= high(f)
      BY <3>1, <3>2, IntervalOfFew
    <3>4. \A x \in Range(f) : \E i \in M : x = f[i] /\ f[i] \in Nat
      BY <3>1 DEF Range
    <3>. QED  BY <3>3, <3>4 DEF f
  <2>6. ASSUME NEW v \in Range(values(b)), NEW w \in Range(values(r)) PROVE Better(v, w)
    <3>. DEFINE first == values(b)
                second == values(r)
    <3>1. /\ low(first) \in Nat /\ high(first) \in Nat /\ low(second) \in Nat /\ high(second) \in Nat
          /\ v \in Nat /\ low(first) <= v /\ v <= high(first)
          /\ w \in Nat /\ low(second) <= w /\ w <= high(second)
      BY <2>3, <2>5
    <3>2. IF lowerBetter THEN high(first) < low(second) ELSE low(first) > high(second)
      BY <2>3 DEF separated
    <3>. HIDE DEF first, second
    <3>. QED  BY <3>1, <3>2
  <2>. HIDE DEF shown, values, Better
  <2>. QED  BY <2>4, <2>6
<1>. QED  BY <1>1, Inductive, OneIsBold, PTL

(* The interval of a median is right for the runs it is made of, however   *)
(* many they are: it covers what it says it covers, is the narrowest that  *)
(* covers 95%, and from the smallest to the largest value when none does.  *)
THEOREM IntervalsCover == Spec => []IntervalsAreRight
<1>1. IInv => IntervalsAreRight
  <2>. SUFFICES ASSUME IInv, NEW c, NEW impl, Shown(rows, c, impl, plan.reps)
                PROVE  IntervalIsRight(Runs(Said, c, impl)) /\ IntervalIsRight(plan.reps)
    BY DEF IntervalsAreRight, Said
  <2>1. plan.reps \in Nat \ {0}
    BY PlanTypes DEF IInv, TypeOK
  <2>2. Runs(Said, c, impl) \in Nat \ {0}
    BY <2>1, ShownValues
  <2>. QED  BY <2>1, <2>2, IntervalOfMedian
<1>. QED  BY <1>1, Inductive, PTL

-----------------------------------------------------------------------------
(* Sums.                                                                   *)

Total(g, S) == SumFunction([x \in S |-> g[x]])

\* As many things as a sum comes to: g[x] of them for each x.
Units(g, S) == {u \in S \X Nat : u[2] \in 1 .. g[u[1]]}

LEMMA UnitsOne ==
    ASSUME NEW g, NEW y, g[y] \in Nat
    PROVE  IsFiniteSet(Units(g, {y})) /\ Cardinality(Units(g, {y})) = g[y]
<1>. DEFINE f == [m \in 1 .. g[y] |-> <<y, m>>]
            D == 1 .. g[y]
            E == Units(g, {y})
<1>1. f \in [D -> E]
  BY DEF Units
<1>2. \A m, q \in D : f[m] = f[q] => m = q
  OBVIOUS
<1>3. ASSUME NEW u \in E PROVE \E m \in D : f[m] = u
  <2>1. u \in {y} \X Nat /\ u[2] \in 1 .. g[y]
    BY DEF Units
  <2>2. u = <<y, u[2]>>
    BY <2>1
  <2>. QED  BY <2>1, <2>2
<1>4. IsFiniteSet(D) /\ Cardinality(D) = g[y]
  BY OutcomesFinite
<1>. HIDE DEF f, D, E
<1>5. f \in Injection(D, E)
  BY <1>1, <1>2 DEF Injection, IsInjective
<1>6. f \in Surjection(D, E)
  BY <1>1, <1>3 DEF Surjection
<1>7. ExistsBijection(D, E)
  BY <1>5, <1>6 DEF Bijection, ExistsBijection
<1>8. IsFiniteSet(E) /\ Cardinality(E) = Cardinality(D)
  BY <1>4, <1>7, FS_Bijection
<1>. QED  BY <1>4, <1>8 DEF E

LEMMA UnitsFinite ==
    ASSUME NEW S, IsFiniteSet(S), NEW g, \A x \in S : g[x] \in Nat
    PROVE  IsFiniteSet(Units(g, S)) /\ Cardinality(Units(g, S)) \in Nat
<1>1. CASE S = {}
  <2>1. Units(g, S) = {}
    BY <1>1 DEF Units
  <2>. QED  BY <2>1, FS_EmptySet
<1>2. CASE S # {}
  <2>1. PICK x \in S : \A y \in S : g[y] <= g[x]
    BY <1>2, Largest
  <2>2. IsFiniteSet(1 .. g[x])
    BY OutcomesFinite
  <2>3. IsFiniteSet(S \X (1 .. g[x]))
    BY <2>2, FS_Product
  <2>4. Units(g, S) \subseteq S \X (1 .. g[x])
    <3>1. ASSUME NEW u \in Units(g, S) PROVE u \in S \X (1 .. g[x])
      <4>1. u \in S \X Nat /\ u[2] \in 1 .. g[u[1]] /\ u[1] \in S
        BY DEF Units
      <4>2. g[u[1]] \in Nat /\ g[x] \in Nat /\ g[u[1]] <= g[x]
        BY <2>1, <4>1
      <4>3. u[2] \in 1 .. g[x]
        BY <4>1, <4>2
      <4>. QED  BY <4>1, <4>3
    <3>. QED  BY <3>1
  <2>. QED  BY <2>3, <2>4, FS_Subset, FS_CardinalityType
<1>. QED  BY <1>1, <1>2

LEMMA UnitsApart ==
    ASSUME NEW S, IsFiniteSet(S), NEW T, IsFiniteSet(T), S \cap T = {},
           NEW g, \A x \in S \cup T : g[x] \in Nat
    PROVE  Cardinality(Units(g, S \cup T)) = Cardinality(Units(g, S)) + Cardinality(Units(g, T))
<1>1. Units(g, S \cup T) = Units(g, S) \cup Units(g, T)
  BY DEF Units
<1>2. Units(g, S) \cap Units(g, T) = {}
  BY DEF Units
<1>3. /\ IsFiniteSet(Units(g, S)) /\ Cardinality(Units(g, S)) \in Nat
      /\ IsFiniteSet(Units(g, T)) /\ Cardinality(Units(g, T)) \in Nat
  BY UnitsFinite
<1>4. Cardinality(Units(g, S) \cap Units(g, T)) = 0
  BY <1>2, FS_EmptySet
<1>5. Cardinality(Units(g, S) \cup Units(g, T))
         = Cardinality(Units(g, S)) + Cardinality(Units(g, T)) - Cardinality(Units(g, S) \cap Units(g, T))
  BY <1>3, FS_Union
<1>6. \A x, y \in Nat : x + y - 0 = x + y
  OBVIOUS
<1>. QED  BY <1>1, <1>3, <1>4, <1>5, <1>6

\* The fold adds up what it is meant to, whichever element it takes next.
LEMMA TotalCounts ==
    ASSUME NEW S, IsFiniteSet(S), NEW g, \A x \in S : g[x] \in Nat
    PROVE  Total(g, S) = Cardinality(Units(g, S))
<1>. DEFINE f == [x \in S |-> g[x]]
            h(s) == Cardinality(Units(g, s))
            one(s) == CHOOSE x \in s : TRUE
<1>0. \A s \in SUBSET S : IsFiniteSet(s) /\ Cardinality(s) \in Nat
  BY FS_Subset, FS_CardinalityType
<1>1. ASSUME NEW s \in SUBSET S, s # {}
      PROVE  one(s) \in s /\ h(s) = f[one(s)] + h(s \ {one(s)})
  <2>1. one(s) \in s
    BY <1>1
  <2>. HIDE DEF one
  <2>2. one(s) \in S /\ g[one(s)] \in Nat /\ f[one(s)] = g[one(s)]
    BY <2>1
  <2>3. h({one(s)}) = g[one(s)]
    BY <2>2, UnitsOne
  <2>4. s = {one(s)} \cup (s \ {one(s)}) /\ {one(s)} \cap (s \ {one(s)}) = {}
    BY <2>1
  <2>5. IsFiniteSet({one(s)}) /\ IsFiniteSet(s \ {one(s)})
    <3>1. {one(s)} \in SUBSET S /\ s \ {one(s)} \in SUBSET S
      BY <2>2
    <3>. QED  BY <1>0, <3>1
  <2>6. \A x \in {one(s)} \cup (s \ {one(s)}) : g[x] \in Nat
    BY <2>2
  <2>7. h({one(s)} \cup (s \ {one(s)})) = h({one(s)}) + h(s \ {one(s)})
    BY <2>4, <2>5, <2>6, UnitsApart
  <2>. QED  BY <2>1, <2>2, <2>3, <2>4, <2>7
<1>2. h({}) = 0
  <2>1. Units(g, {}) = {}
    BY DEF Units
  <2>. QED  BY <2>1, FS_EmptySet
<1>. HIDE DEF h
<1>3. \E F : F = [s \in SUBSET S |->
          IF s = {} THEN 0 ELSE LET x == CHOOSE x \in s : TRUE IN f[x] + F[s \ {x}]]
  <2>. DEFINE H == [s \in SUBSET S |-> h(s)]
              e(s) == IF s = {} THEN 0 ELSE f[one(s)] + H[s \ {one(s)}]
  <2>1. \A s \in SUBSET S : h(s) = e(s)
    <3>. HIDE DEF one, f
    <3>. QED  BY <1>1, <1>2
  <2>2. [s \in SUBSET S |-> h(s)] = [s \in SUBSET S |-> e(s)]
    <3>. HIDE DEF e
    <3>. QED  BY <2>1
  <2>3. H = [s \in SUBSET S |-> IF s = {} THEN 0 ELSE f[one(s)] + H[s \ {one(s)}]]
    BY <2>2, Zenon
  <2>. QED  BY <2>3
<1>4. DOMAIN f = S
  OBVIOUS
<1>. HIDE DEF f
<1>10. SumFunction(f) = MapThenFoldSet(+, 0, LAMBDA x : f[x], LAMBDA s : CHOOSE x \in s : TRUE, S)
  BY <1>4 DEF SumFunction, SumFunctionOnSet, FoldFunctionOnSet
<1>5. PICK F : /\ F = [s \in SUBSET S |->
                    IF s = {} THEN 0 ELSE LET x == CHOOSE x \in s : TRUE IN f[x] + F[s \ {x}]]
               /\ SumFunction(f) = F[S]
  BY <1>3, <1>10 DEF MapThenFoldSet
<1>6. \A s \in SUBSET S : F[s] = IF s = {} THEN 0 ELSE f[one(s)] + F[s \ {one(s)}]
  BY <1>5
<1>7. \A s \in SUBSET S : F[s] = h(s)
  <2>. DEFINE T == {c \in Nat : \A s \in SUBSET S : Cardinality(s) = c => F[s] = h(s)}
  <2>. HIDE DEF one
  <2>1. 0 \in T
    BY <1>0, <1>2, <1>6, FS_EmptySet
  <2>2. ASSUME NEW c \in Nat, c \in T PROVE c + 1 \in T
    <3>. SUFFICES ASSUME NEW s \in SUBSET S, Cardinality(s) = c + 1 PROVE F[s] = h(s)
      OBVIOUS
    <3>1. s # {}
      BY FS_EmptySet
    <3>2. one(s) \in s /\ h(s) = f[one(s)] + h(s \ {one(s)})
      BY <1>1, <3>1
    <3>3. s \ {one(s)} \in SUBSET S /\ Cardinality(s \ {one(s)}) = c
      <4>1. IsFiniteSet(s) /\ one(s) \in s
        BY <1>0, <3>2
      <4>2. Cardinality(s \ {one(s)}) = Cardinality(s) - 1
        BY <4>1, FS_RemoveElement
      <4>. QED  BY <4>2
    <3>4. F[s \ {one(s)}] = h(s \ {one(s)})
      BY <2>2, <3>3
    <3>. QED  BY <1>6, <3>1, <3>2, <3>4
  <2>. HIDE DEF T
  <2>3. \A c \in Nat : c \in T
    BY <2>1, <2>2, InductionSet
  <2>. QED  BY <1>0, <2>3 DEF T
<1>. QED  BY <1>5, <1>7 DEF h, f, Total

LEMMA TotalFacts ==
    ASSUME NEW S, IsFiniteSet(S), NEW T, IsFiniteSet(T), S \cap T = {},
           NEW g, \A x \in S \cup T : g[x] \in Nat
    PROVE  /\ Total(g, S) \in Nat
           /\ Total(g, S \cup T) = Total(g, S) + Total(g, T)
<1>1. IsFiniteSet(S \cup T)
  BY FS_Union
<1>. QED  BY <1>1, TotalCounts, UnitsFinite, UnitsApart

LEMMA TotalSmall ==
    ASSUME NEW g
    PROVE  /\ Total(g, {}) = 0
           /\ \A y : g[y] \in Nat => Total(g, {y}) = g[y]
<1>1. Units(g, {}) = {}
  BY DEF Units
<1>2. Total(g, {}) = 0
  BY <1>1, FS_EmptySet, TotalCounts
<1>3. ASSUME NEW y, g[y] \in Nat PROVE Total(g, {y}) = g[y]
  <2>1. IsFiniteSet({y})
    BY FS_Singleton
  <2>. QED  BY <1>3, <2>1, TotalCounts, UnitsOne
<1>. QED  BY <1>2, <1>3

-----------------------------------------------------------------------------
(* Remainders.                                                             *)

LEMMA Multiples ==
    ASSUME NEW a \in Nat, NEW b \in Nat, NEW e \in Nat, a <= b
    PROVE  a * e <= b * e
<1>1. PICK d \in Nat : b = a + d
  <2>1. b - a \in Nat /\ b = a + (b - a)
    OBVIOUS
  <2>. QED  BY <2>1
<1>2. b * e = a * e + d * e
  BY <1>1
<1>3. a * e \in Nat /\ b * e \in Nat /\ d * e \in Nat
  OBVIOUS
<1>. QED  BY <1>2, <1>3

LEMMA Quotient ==
    ASSUME NEW a \in Nat, NEW b \in Nat \ {0}
    PROVE  a \div b \in Nat /\ a % b \in 0 .. b - 1 /\ a = (a \div b) * b + (a % b)
<1>1. a \div b \in Nat
  OBVIOUS
<1>3. a = b * (a \div b) + (a % b)
  OBVIOUS
<1>4. a % b \in 0 .. b - 1
  OBVIOUS
<1>2. b * (a \div b) = (a \div b) * b
  BY <1>1
<1>. QED  BY <1>1, <1>2, <1>3, <1>4

LEMMA Remainder ==
    ASSUME NEW q \in Nat, NEW b \in Nat \ {0}, NEW r \in 0 .. b - 1
    PROVE  (q * b + r) \div b = q /\ (q * b + r) % b = r
<1>. DEFINE a == q * b + r
            d == a \div b
            m == a % b
<1>1. q * b \in Nat /\ a \in Nat
  OBVIOUS
<1>2. d \in Nat /\ m \in 0 .. b - 1 /\ a = d * b + m
  BY <1>1, Quotient
<1>. HIDE DEF d, m
<1>3. d * b \in Nat
  BY <1>2
<1>4. ASSUME d < q PROVE FALSE
  <2>1. (d + 1) * b <= q * b
    BY <1>2, <1>4, Multiples
  <2>2. (d + 1) * b = d * b + b
    BY <1>2
  <2>. QED  BY <1>1, <1>2, <1>3, <2>1, <2>2
<1>5. ASSUME d > q PROVE FALSE
  <2>1. (q + 1) * b <= d * b
    BY <1>2, <1>5, Multiples
  <2>2. (q + 1) * b = q * b + b
    OBVIOUS
  <2>. QED  BY <1>1, <1>2, <1>3, <2>1, <2>2
<1>6. d = q
  BY <1>2, <1>4, <1>5
<1>7. m = r
  BY <1>1, <1>2, <1>6
<1>. QED  BY <1>6, <1>7 DEF d, m

\* A sum wraps to the same whether its terms wrap before or not.
LEMMA WrapsOnce ==
    ASSUME NEW x \in Nat, NEW y \in Nat, NEW b \in Nat \ {0}
    PROVE  (x + y) % b = ((x % b) + y) % b /\ (x + y) % b = (x + (y % b)) % b
<1>1. ASSUME NEW u \in Nat, NEW v \in Nat PROVE (u + v) % b = ((u % b) + v) % b
  <2>1. u \div b \in Nat /\ u % b \in 0 .. b - 1 /\ u = (u \div b) * b + (u % b)
    BY Quotient
  <2>2. PICK d \in Nat, m \in 0 .. b - 1 : m = u % b /\ u = d * b + m
    BY <2>1
  <2>3. PICK q \in Nat, r \in 0 .. b - 1 : r = (m + v) % b /\ m + v = q * b + r
    <3>1. m + v \in Nat
      OBVIOUS
    <3>. QED  BY <3>1, Quotient
  <2>4. d + q \in Nat /\ (d + q) * b = d * b + q * b /\ d * b \in Nat /\ q * b \in Nat
    OBVIOUS
  <2>5. u + v = (d + q) * b + r
    BY <2>2, <2>3, <2>4
  <2>6. ((d + q) * b + r) % b = r
    BY <2>4, Remainder
  <2>. QED  BY <2>2, <2>3, <2>5, <2>6
<1>2. (x + y) % b = ((x % b) + y) % b
  BY <1>1
<1>3. (y + x) % b = ((y % b) + x) % b
  BY <1>1
<1>4. y % b \in Nat
  BY Quotient
<1>5. x + y = y + x /\ x + (y % b) = (y % b) + x
  BY <1>4
<1>. QED  BY <1>2, <1>3, <1>5

LEMMA SmallNumber ==
    ASSUME NEW b \in Nat \ {0}, NEW x \in 0 .. b - 1
    PROVE  x % b = x
<1>1. 0 * b + x = x
  OBVIOUS
<1>. QED  BY <1>1, Remainder

LEMMA TotalSplit ==
    ASSUME NEW a \in Nat, NEW b \in Nat, a <= b, NEW g, \A x \in 0 .. b - 1 : g[x] \in Nat
    PROVE  /\ Total(g, 0 .. a - 1) \in Nat /\ Total(g, a .. b - 1) \in Nat
           /\ Total(g, 0 .. b - 1) = Total(g, 0 .. a - 1) + Total(g, a .. b - 1)
<1>. DEFINE S == 0 .. a - 1
            T == a .. b - 1
<1>1. IsFiniteSet(S) /\ IsFiniteSet(T)
  <2>1. 0 \in Int /\ a \in Int /\ a - 1 \in Int /\ b - 1 \in Int
    OBVIOUS
  <2>. QED  BY <2>1, FS_Interval
<1>2. S \cup T = 0 .. b - 1 /\ S \cap T = {} /\ T \cap S = {} /\ T \cup S = S \cup T
  OBVIOUS
<1>. HIDE DEF S, T
<1>3. Total(g, S) \in Nat /\ Total(g, S \cup T) = Total(g, S) + Total(g, T)
  BY <1>1, <1>2, TotalFacts
<1>4. Total(g, T) \in Nat
  BY <1>1, <1>2, TotalFacts
<1>. QED  BY <1>2, <1>3, <1>4 DEF S, T

LEMMA TotalNext ==
    ASSUME NEW c \in Nat, NEW g, \A x \in 0 .. c : g[x] \in Nat
    PROVE  Total(g, 0 .. c - 1) \in Nat /\ Total(g, 0 .. c) = Total(g, 0 .. c - 1) + g[c]
<1>1. PICK d \in Nat : d = c + 1
  OBVIOUS
<1>2. c <= d /\ c .. d - 1 = {c} /\ 0 .. d - 1 = 0 .. c
  BY <1>1
<1>3. \A x \in 0 .. d - 1 : g[x] \in Nat
  BY <1>2
<1>4. /\ Total(g, 0 .. c - 1) \in Nat
      /\ Total(g, 0 .. d - 1) = Total(g, 0 .. c - 1) + Total(g, c .. d - 1)
  BY <1>2, <1>3, TotalSplit
<1>5. Total(g, {c}) = g[c]
  BY TotalSmall
<1>. QED  BY <1>2, <1>4, <1>5

\* t tells what each term adds to a total, up to whole words.
Adds(t, g, n) ==
    /\ t[0] = 0
    /\ \A c \in 0 .. n : t[c] \in Nat
    /\ \A c \in 0 .. n - 1 : g[c] \in Nat /\ t[c + 1] % Word = (t[c] + g[c]) % Word

LEMMA RunningTotal ==
    ASSUME NEW n \in Nat, NEW g, NEW t, Adds(t, g, n)
    PROVE  Total(g, 0 .. n - 1) \in Nat /\ Total(g, 0 .. n - 1) % Word = t[n] % Word
<1>. USE DEF Adds
<1>. DEFINE b == Word
            sum(c) == Total(g, 0 .. c - 1)
            T == {c \in Nat : c <= n => sum(c) \in Nat /\ sum(c) % b = t[c] % b}
<1>0. sum(0) = 0
  <2>1. 0 .. 0 - 1 = {}
    OBVIOUS
  <2>. QED  BY <2>1, TotalSmall
<1>1. ASSUME NEW c \in 0 .. n - 1
      PROVE  sum(c) \in Nat /\ sum(c + 1) = sum(c) + g[c]
  <2>1. c \in Nat /\ (c + 1) - 1 = c
    OBVIOUS
  <2>2. \A x \in 0 .. c : g[x] \in Nat
    OBVIOUS
  <2>. QED  BY <2>1, <2>2, TotalNext
<1>4. b \in Nat \ {0}
  BY WordAssumption
<1>. HIDE DEF sum, b
<1>2. 0 \in T
  BY <1>0
<1>3. ASSUME NEW c \in Nat, c \in T PROVE c + 1 \in T
  <2>. SUFFICES ASSUME c + 1 <= n
                PROVE  sum(c + 1) \in Nat /\ sum(c + 1) % b = t[c + 1] % b
    OBVIOUS
  <2>1. c \in 0 .. n - 1 /\ c \in 0 .. n /\ c + 1 \in 0 .. n
    OBVIOUS
  <2>2. g[c] \in Nat /\ t[c] \in Nat /\ sum(c) \in Nat /\ sum(c + 1) = sum(c) + g[c]
    BY <1>1, <2>1
  <2>3. sum(c) % b = t[c] % b
    BY <1>3
  <2>4. /\ (sum(c) + g[c]) % b = ((sum(c) % b) + g[c]) % b
        /\ (t[c] + g[c]) % b = ((t[c] % b) + g[c]) % b
    BY <1>4, <2>2, WrapsOnce
  <2>5. (sum(c) + g[c]) % b = t[c + 1] % b
    BY <2>1, <2>3, <2>4 DEF b
  <2>6. sum(c) + g[c] \in Nat
    BY <2>2
  <2>. QED  BY <2>2, <2>5, <2>6
<1>. HIDE DEF T
<1>5. \A c \in Nat : c \in T
  BY <1>2, <1>3, InductionSet
<1>. QED  BY <1>5 DEF T, sum, b

-----------------------------------------------------------------------------
(* What is sent and counted.                                               *)

Itself == [v \in Nat |-> v]

LEMMA ValuesTotal ==
    ASSUME NEW lo \in Nat, NEW hi \in Nat
    PROVE  SumFunction([v \in lo .. hi - 1 |-> v]) = Total(Itself, lo .. hi - 1)
<1>1. [v \in lo .. hi - 1 |-> v] = [v \in lo .. hi - 1 |-> Itself[v]]
  BY DEF Itself
<1>. QED  BY <1>1 DEF Total

LEMMA Triangle ==
    ASSUME NEW n \in Nat
    PROVE  Total(Itself, 0 .. n - 1) \in Nat /\ (n * (n - 1)) \div 2 = Total(Itself, 0 .. n - 1)
<1>. DEFINE sum(c) == Total(Itself, 0 .. c - 1)
            T == {c \in Nat : sum(c) \in Nat /\ c * (c - 1) = 2 * sum(c)}
<1>1. 0 \in T
  <2>1. 0 .. 0 - 1 = {}
    OBVIOUS
  <2>2. sum(0) = 0
    BY <2>1, TotalSmall
  <2>. HIDE DEF sum
  <2>. QED  BY <2>2
<1>2. ASSUME NEW c \in Nat, c \in T PROVE c + 1 \in T
  <2>1. (c + 1) - 1 = c
    OBVIOUS
  <2>2. (\A x \in 0 .. c : Itself[x] \in Nat) /\ Itself[c] = c
    BY DEF Itself
  <2>4. sum(c) \in Nat /\ sum(c + 1) = sum(c) + c
    BY <2>1, <2>2, TotalNext
  <2>. HIDE DEF sum
  <2>5. c * (c - 1) = 2 * sum(c)
    BY <1>2
  <2>6. (c + 1) * ((c + 1) - 1) = c * (c - 1) + 2 * c
    <3>1. (c + 1) * c = c * c + c /\ c * (c - 1) = c * c - c /\ c * c \in Nat
      OBVIOUS
    <3>. QED  BY <2>1, <3>1
  <2>. QED  BY <2>4, <2>5, <2>6
<1>. HIDE DEF T
<1>3. \A c \in Nat : c \in T
  BY <1>1, <1>2, InductionSet
<1>4. sum(n) \in Nat /\ n * (n - 1) = 2 * sum(n)
  BY <1>3 DEF T
<1>. HIDE DEF sum
<1>5. n * (n - 1) = sum(n) * 2 + 0
  BY <1>4
<1>6. (sum(n) * 2 + 0) \div 2 = sum(n)
  BY <1>4, Remainder
<1>. QED  BY <1>4, <1>5, <1>6 DEF sum

\* Each of k producers sends its e values: all of them are 0 .. e * k - 1.
LEMMA SentTotal ==
    ASSUME NEW e \in Nat, NEW k \in Nat
    PROVE  SumFunction([p \in 0 .. k - 1 |-> SumFunction([v \in p * e .. (p + 1) * e - 1 |-> v])]) % Word
              = (((e * k) * (e * k - 1)) \div 2) % Word
<1>. DEFINE g == [p \in 0 .. k - 1 |-> SumFunction([v \in p * e .. (p + 1) * e - 1 |-> v])]
            t == [p \in 0 .. k |-> Total(Itself, 0 .. p * e - 1)]
<1>1. ASSUME NEW p \in 0 .. k - 1
      PROVE  g[p] \in Nat /\ t[p + 1] = t[p] + g[p]
  <2>. DEFINE lo == p * e
              hi == (p + 1) * e
  <2>1. lo \in Nat /\ hi \in Nat /\ lo <= hi /\ p \in 0 .. k /\ p + 1 \in 0 .. k
    <3>1. p * e \in Nat /\ (p + 1) * e = p * e + e
      OBVIOUS
    <3>. QED  BY <3>1
  <2>2. g[p] = SumFunction([v \in lo .. hi - 1 |-> v])
    OBVIOUS
  <2>3. t[p] = Total(Itself, 0 .. lo - 1) /\ t[p + 1] = Total(Itself, 0 .. hi - 1)
    BY <2>1
  <2>. HIDE DEF g, t, lo, hi
  <2>4. \A x \in 0 .. hi - 1 : Itself[x] \in Nat
    BY DEF Itself
  <2>5. g[p] = Total(Itself, lo .. hi - 1)
    BY <2>1, <2>2, ValuesTotal
  <2>6. /\ Total(Itself, lo .. hi - 1) \in Nat
        /\ Total(Itself, 0 .. hi - 1) = Total(Itself, 0 .. lo - 1) + Total(Itself, lo .. hi - 1)
    BY <2>1, <2>4, TotalSplit
  <2>. QED  BY <2>3, <2>5, <2>6
<1>2. \A p \in 0 .. k : t[p] \in Nat
  <2>1. ASSUME NEW p \in 0 .. k PROVE t[p] \in Nat
    <3>1. p * e \in Nat
      OBVIOUS
    <3>. QED  BY <3>1, Triangle
  <2>. QED  BY <2>1
<1>3. t[0] = 0
  <2>1. 0 * e = 0 /\ 0 .. 0 - 1 = {} /\ t[0] = Total(Itself, 0 .. 0 * e - 1)
    OBVIOUS
  <2>. QED  BY <2>1, TotalSmall
<1>4. t[k] = ((e * k) * (e * k - 1)) \div 2
  <2>1. k * e = e * k /\ e * k \in Nat /\ t[k] = Total(Itself, 0 .. k * e - 1)
    OBVIOUS
  <2>. HIDE DEF t
  <2>. QED  BY <2>1, Triangle
<1>5. SumFunction(g) = Total(g, 0 .. k - 1)
  <2>1. g = [p \in 0 .. k - 1 |-> g[p]]
    OBVIOUS
  <2>. HIDE DEF g
  <2>. QED  BY <2>1 DEF Total
<1>. HIDE DEF g, t
<1>6. Total(g, 0 .. k - 1) % Word = t[k] % Word
  <2>1. \A c \in 0 .. k - 1 : t[c + 1] % Word = (t[c] + g[c]) % Word
    BY <1>1
  <2>2. Adds(t, g, k)
    BY <1>1, <1>2, <1>3, <2>1 DEF Adds
  <2>. QED  BY <2>2, RunningTotal
<1>. QED  BY <1>4, <1>5, <1>6 DEF g

\* Each of k workers counts to e.
LEMMA CountedTotal ==
    ASSUME NEW e \in Nat, NEW k \in Nat, e * k \in 0 .. Word - 1
    PROVE  SumFunction([w \in 0 .. k - 1 |-> e]) % Word = e * k
<1>. DEFINE g == [w \in 0 .. k - 1 |-> e]
            t == [w \in 0 .. k |-> w * e]
<1>1. \A w \in 0 .. k - 1 : g[w] \in Nat
  OBVIOUS
<1>2. t[0] = 0 /\ \A w \in 0 .. k : t[w] \in Nat
  <2>1. 0 * e = 0 /\ \A w \in Nat : w * e \in Nat
    OBVIOUS
  <2>. QED  BY <2>1
<1>3. ASSUME NEW w \in 0 .. k - 1 PROVE t[w + 1] = t[w] + g[w]
  <2>1. (w + 1) * e = w * e + e /\ w \in 0 .. k /\ w + 1 \in 0 .. k
    OBVIOUS
  <2>. QED  BY <2>1
<1>4. t[k] = e * k
  <2>1. k * e = e * k /\ k \in 0 .. k
    OBVIOUS
  <2>. QED  BY <2>1
<1>5. SumFunction(g) = Total(g, 0 .. k - 1)
  <2>1. g = [p \in 0 .. k - 1 |-> g[p]]
    OBVIOUS
  <2>. HIDE DEF g
  <2>. QED  BY <2>1 DEF Total
<1>. HIDE DEF g, t
<1>6. Total(g, 0 .. k - 1) % Word = t[k] % Word
  <2>1. \A c \in 0 .. k - 1 : t[c + 1] % Word = (t[c] + g[c]) % Word
    BY <1>3
  <2>2. Adds(t, g, k)
    BY <1>1, <1>2, <2>1 DEF Adds
  <2>. QED  BY <2>2, RunningTotal
<1>7. (e * k) % Word = e * k
  BY SmallNumber, WordAssumption
<1>. QED  BY <1>4, <1>5, <1>6, <1>7 DEF g

-----------------------------------------------------------------------------
(* The hashes of cpu.                                                      *)

\* Hashing is defined: the recursive function exists, and yields a word.
LEMMA MixedIsAWord ==
    ASSUME NEW i \in Nat, NEW rounds \in Nat
    PROVE  mixed(i, rounds) \in 0 .. Word - 1
<1>. DEFINE W == 0 .. Word - 1
            Hashes(n) == {x \in [0 .. n -> W] :
                             x[0] = i % Word /\ \A r \in 0 .. n - 1 : x[r + 1] = mix(x[r])}
            T == {n \in Nat : Hashes(n) # {}}
            hash(x) == [r \in 0 .. rounds |-> IF r = 0 THEN i % Word ELSE mix(x[r - 1])]
<1>1. i % Word \in W /\ \A z \in W : mix(z) \in W
  <2>1. ASSUME NEW z \in W PROVE mix(z) \in W
    <3>1. (z + 7) * 5 \in Nat
      OBVIOUS
    <3>. QED  BY <3>1, Quotient, WordAssumption DEF mix
  <2>. QED  BY <2>1, Quotient, WordAssumption
<1>. HIDE DEF W
<1>2. 0 \in T
  <2>1. [r \in 0 .. 0 |-> i % Word] \in Hashes(0)
    BY <1>1
  <2>. QED  BY <2>1
<1>3. ASSUME NEW n \in Nat, n \in T PROVE n + 1 \in T
  <2>1. PICK x \in [0 .. n -> W] : x[0] = i % Word /\ \A r \in 0 .. n - 1 : x[r + 1] = mix(x[r])
    BY <1>3
  <2>. DEFINE y == [r \in 0 .. n + 1 |-> IF r = n + 1 THEN mix(x[n]) ELSE x[r]]
  <2>2. mix(x[n]) \in W
    BY <1>1
  <2>3. y \in [0 .. n + 1 -> W] /\ y[0] = i % Word
    BY <2>1, <2>2
  <2>4. ASSUME NEW r \in 0 .. n PROVE y[r + 1] = mix(y[r])
    <3>1. CASE r = n
      BY <3>1
    <3>2. CASE r \in 0 .. n - 1
      BY <2>1, <3>2
    <3>. QED  BY <3>1, <3>2
  <2>. HIDE DEF y
  <2>5. y \in Hashes(n + 1)
    <3>1. 0 .. (n + 1) - 1 = 0 .. n
      OBVIOUS
    <3>. QED  BY <2>3, <2>4, <3>1
  <2>. QED  BY <2>5
<1>. HIDE DEF T
<1>4. rounds \in T
  BY <1>2, <1>3, InductionSet
<1>5. PICK x \in [0 .. rounds -> W] :
         x[0] = i % Word /\ \A r \in 0 .. rounds - 1 : x[r + 1] = mix(x[r])
  BY <1>4 DEF T
<1>6. x = hash(x)
  <2>1. ASSUME NEW r \in 0 .. rounds PROVE x[r] = IF r = 0 THEN i % Word ELSE mix(x[r - 1])
    <3>1. CASE r = 0
      BY <1>5, <3>1
    <3>2. CASE r # 0
      <4>1. r - 1 \in 0 .. rounds - 1 /\ (r - 1) + 1 = r
        BY <3>2
      <4>. QED  BY <1>5, <3>2, <4>1
    <3>. QED  BY <3>1, <3>2
  <2>2. x = [r \in 0 .. rounds |-> x[r]]
    OBVIOUS
  <2>. QED  BY <2>1, <2>2
<1>7. PICK h : h = hash(h) /\ mixed(i, rounds) = h[rounds]
  <2>1. \E h : h = hash(h)
    BY <1>6
  <2>. QED  BY <2>1 DEF mixed
<1>. DEFINE U == {n \in Nat : n <= rounds => h[n] \in W}
<1>8. 0 \in U
  BY <1>1, <1>7
<1>9. ASSUME NEW n \in Nat, n \in U PROVE n + 1 \in U
  <2>. SUFFICES ASSUME n + 1 <= rounds PROVE h[n + 1] \in W
    OBVIOUS
  <2>1. n + 1 \in 0 .. rounds /\ n + 1 # 0 /\ (n + 1) - 1 = n
    OBVIOUS
  <2>2. h[n + 1] = mix(h[n])
    BY <1>7, <2>1
  <2>. QED  BY <1>1, <1>9, <2>2
<1>. HIDE DEF U
<1>10. rounds \in U
  BY <1>8, <1>9, InductionSet
<1>. QED  BY <1>7, <1>10 DEF U, W

Hash(rounds) == [i \in Nat |-> mixed(i, rounds)]

LEMMA HashRange ==
    ASSUME NEW rounds \in Nat, NEW a \in Nat, NEW b \in Nat, a <= b
    PROVE  /\ cpu_range(a .. b - 1, rounds) \in Nat
           /\ Total(Hash(rounds), 0 .. a - 1) \in Nat /\ Total(Hash(rounds), 0 .. b - 1) \in Nat
           /\ Total(Hash(rounds), 0 .. b - 1) % Word
                 = (Total(Hash(rounds), 0 .. a - 1) + cpu_range(a .. b - 1, rounds)) % Word
<1>. DEFINE g == Hash(rounds)
            x == Total(g, 0 .. a - 1)
            y == Total(g, a .. b - 1)
<1>1. \A i \in Nat : g[i] \in Nat /\ g[i] = mixed(i, rounds)
  <2>1. ASSUME NEW i \in Nat PROVE g[i] \in Nat /\ g[i] = mixed(i, rounds)
    BY MixedIsAWord, WordAssumption DEF Hash
  <2>. QED  BY <2>1
<1>. HIDE DEF g
<1>2. [i \in a .. b - 1 |-> mixed(i, rounds)] = [i \in a .. b - 1 |-> g[i]]
  BY <1>1
<1>3. cpu_range(a .. b - 1, rounds) = y % Word
  BY <1>2 DEF cpu_range, Total
<1>4. x \in Nat /\ y \in Nat /\ Total(g, 0 .. b - 1) = x + y
  <2>1. \A i \in 0 .. b - 1 : g[i] \in Nat
    BY <1>1
  <2>. QED  BY <2>1, TotalSplit
<1>. HIDE DEF x, y
<1>5. y % Word \in Nat /\ (x + y) % Word = (x + (y % Word)) % Word
  <2>1. Word \in Nat \ {0}
    BY WordAssumption
  <2>2. y % Word \in Nat
    BY <1>4, <2>1, Quotient
  <2>. QED  BY <1>4, <2>1, <2>2, WrapsOnce
<1>6. x + y \in Nat
  BY <1>4
<1>. QED  BY <1>3, <1>4, <1>5, <1>6 DEF g, x

LEMMA RoundedUp ==
    ASSUME NEW n \in Nat, NEW chunks \in Nat \ {0}
    PROVE  LET each == (n + chunks - 1) \div chunks
           IN  each \in Nat /\ n <= chunks * each
<1>. DEFINE a == n + chunks - 1
            each == a \div chunks
            r == a % chunks
<1>1. a \in Nat
  OBVIOUS
<1>2. each \in Nat /\ r \in 0 .. chunks - 1 /\ a = each * chunks + r
  BY <1>1, Quotient
<1>3. a = n + chunks - 1
  OBVIOUS
<1>. HIDE DEF a, each, r
<1>4. each * chunks = chunks * each /\ chunks * each \in Nat
  BY <1>2
<1>5. n <= chunks * each
  BY <1>2, <1>3, <1>4
<1>. QED  BY <1>2, <1>5 DEF each, a

\* The chunks of the tasks are the whole range.
LEMMA ChunksTotal ==
    ASSUME NEW n \in Nat, NEW tasks \in Nat \ {0}, NEW rounds \in Nat
    PROVE  SumFunction([c \in 0 .. tasks - 1 |-> cpu_range(chunk_bounds(n, tasks, c), rounds)]) % Word
              = Total(Hash(rounds), 0 .. n - 1) % Word
<1>1. PICK each \in Nat : each = (n + tasks - 1) \div tasks /\ n <= tasks * each
  BY RoundedUp
<1>. DEFINE lo(c) == Lesser(c * each, n)
            g == [c \in 0 .. tasks - 1 |-> cpu_range(chunk_bounds(n, tasks, c), rounds)]
            t == [c \in 0 .. tasks |-> Total(Hash(rounds), 0 .. lo(c) - 1)]
<1>2. ASSUME NEW c \in 0 .. tasks
      PROVE  lo(c) \in Nat /\ lo(c) <= lo(c + 1) /\ Lesser(lo(c) + each, n) = lo(c + 1)
  <2>1. c * each \in Nat /\ (c + 1) * each = c * each + each
    OBVIOUS
  <2>. QED  BY <2>1 DEF Lesser
<1>3. lo(0) = 0 /\ lo(tasks) = n
  <2>1. 0 * each = 0 /\ tasks * each \in Nat
    OBVIOUS
  <2>. QED  BY <1>1, <2>1 DEF Lesser
<1>4. ASSUME NEW c \in 0 .. tasks - 1 PROVE g[c] = cpu_range(lo(c) .. lo(c + 1) - 1, rounds)
  <2>1. c \in 0 .. tasks
    OBVIOUS
  <2>2. chunk_bounds(n, tasks, c) = lo(c) .. lo(c + 1) - 1
    BY <1>1, <1>2, <2>1 DEF chunk_bounds
  <2>. QED  BY <2>2
<1>. HIDE DEF lo
<1>5. ASSUME NEW c \in 0 .. tasks - 1
      PROVE  g[c] \in Nat /\ t[c + 1] % Word = (t[c] + g[c]) % Word
  <2>1. c \in 0 .. tasks /\ c + 1 \in 0 .. tasks
    OBVIOUS
  <2>2. lo(c) \in Nat /\ lo(c + 1) \in Nat /\ lo(c) <= lo(c + 1)
    BY <1>2, <2>1
  <2>3. /\ t[c] = Total(Hash(rounds), 0 .. lo(c) - 1)
        /\ t[c + 1] = Total(Hash(rounds), 0 .. lo(c + 1) - 1)
    BY <2>1
  <2>. HIDE DEF g, t
  <2>4. /\ cpu_range(lo(c) .. lo(c + 1) - 1, rounds) \in Nat
        /\ Total(Hash(rounds), 0 .. lo(c + 1) - 1) % Word
              = (Total(Hash(rounds), 0 .. lo(c) - 1) + cpu_range(lo(c) .. lo(c + 1) - 1, rounds)) % Word
    BY <2>2, HashRange
  <2>. QED  BY <1>4, <2>3, <2>4
<1>6. ASSUME NEW c \in 0 .. tasks PROVE t[c] \in Nat
  <2>1. lo(c) \in Nat /\ lo(c) <= lo(c)
    BY <1>2
  <2>. QED  BY <2>1, HashRange
<1>7. t[0] = 0 /\ t[tasks] = Total(Hash(rounds), 0 .. n - 1)
  <2>1. 0 .. 0 - 1 = {}
    OBVIOUS
  <2>2. t[0] = Total(Hash(rounds), 0 .. 0 - 1) /\ t[tasks] = Total(Hash(rounds), 0 .. n - 1)
    BY <1>3
  <2>. QED  BY <2>1, <2>2, TotalSmall
<1>8. SumFunction(g) = Total(g, 0 .. tasks - 1)
  <2>1. g = [c \in 0 .. tasks - 1 |-> g[c]]
    OBVIOUS
  <2>. HIDE DEF g
  <2>. QED  BY <2>1 DEF Total
<1>. HIDE DEF g, t
<1>9. Adds(t, g, tasks)
  BY <1>5, <1>6, <1>7 DEF Adds
<1>10. Total(g, 0 .. tasks - 1) % Word = t[tasks] % Word
  BY <1>9, RunningTotal
<1>. QED  BY <1>7, <1>8, <1>10 DEF g

\* So are the blocks of the runner.
LEMMA BlocksTotal ==
    ASSUME NEW n \in Nat, NEW rounds \in Nat
    PROVE  cpu_checksum(n, rounds) = Total(Hash(rounds), 0 .. n - 1) % Word
<1>. DEFINE g == [b \in Nat |-> cpu_range(b .. Lesser(n, b + CpuBlock) - 1, rounds)]
            end(q) == Lesser(q * CpuBlock, n)
            D(q) == {b \in 0 .. n - 1 : b % CpuBlock = 0 /\ b < q * CpuBlock}
            All == {b \in 0 .. n - 1 : b % CpuBlock = 0}
            sum(q) == Total(Hash(rounds), 0 .. end(q) - 1)
            T == {q \in Nat : /\ Total(g, D(q)) \in Nat
                              /\ Total(g, D(q)) % Word = sum(q) % Word}
<1>1. CpuBlock \in Nat \ {0}
  BY CommandAssumption
<1>2. ASSUME NEW q \in Nat
      PROVE  /\ q * CpuBlock \in Nat /\ (q + 1) * CpuBlock = q * CpuBlock + CpuBlock
             /\ end(q) \in Nat /\ end(q) <= end(q + 1)
  <2>1. q * CpuBlock \in Nat /\ (q + 1) * CpuBlock = q * CpuBlock + CpuBlock
    BY <1>1
  <2>. QED  BY <1>1, <2>1 DEF Lesser
<1>3. \A q : IsFiniteSet(D(q))
  <2>1. IsFiniteSet(0 .. n - 1)
    BY FS_Interval
  <2>. QED  BY <2>1, FS_Subset
<1>4. \A b \in 0 .. n - 1 : g[b] \in Nat
  <2>1. ASSUME NEW b \in 0 .. n - 1 PROVE g[b] \in Nat
    <3>1. Lesser(n, b + CpuBlock) \in Nat /\ b <= Lesser(n, b + CpuBlock) /\ b \in Nat
      BY <1>1 DEF Lesser
    <3>. QED  BY <3>1, HashRange
  <2>. QED  BY <2>1
<1>5. 0 \in T
  <2>1. 0 * CpuBlock = 0
    BY <1>1
  <2>2. D(0) = {} /\ end(0) = 0 /\ 0 .. 0 - 1 = {}
    BY <2>1 DEF Lesser
  <2>3. Total(g, D(0)) = 0 /\ sum(0) = 0
    BY <2>2, TotalSmall
  <2>. HIDE DEF g, D, sum
  <2>. QED  BY <2>3
<1>6. ASSUME NEW q \in Nat, q \in T PROVE q + 1 \in T
  <2>. DEFINE x == Total(g, D(q))
  <2>1. x \in Nat /\ x % Word = sum(q) % Word
    BY <1>6
  <2>2. CASE q * CpuBlock < n
    <3>0. PICK a \in Nat : a = q * CpuBlock /\ (q + 1) * CpuBlock = a + CpuBlock
      BY <1>2
    <3>1. a \in 0 .. n - 1 /\ a % CpuBlock = 0
      <4>1. a = q * CpuBlock + 0
        BY <3>0
      <4>. QED  BY <1>1, <2>2, <3>0, <4>1, Remainder
    <3>2. D(q + 1) = D(q) \cup {a}
      <4>1. ASSUME NEW b \in 0 .. n - 1, b % CpuBlock = 0, b < a + CpuBlock, b >= a PROVE b = a
        <5>. DEFINE m == b - a
        <5>1. m \in 0 .. CpuBlock - 1 /\ b = a + m
          BY <1>1, <4>1
        <5>. HIDE DEF m
        <5>2. (q * CpuBlock + m) % CpuBlock = m
          BY <1>1, <5>1, Remainder
        <5>3. b % CpuBlock = m
          BY <3>0, <5>1, <5>2
        <5>4. m = 0
          BY <4>1, <5>3
        <5>. QED  BY <5>1, <5>4
      <4>3. \A b \in 0 .. n - 1 : b % CpuBlock = 0 =>
               (b < (q + 1) * CpuBlock <=> b < a \/ b = a)
        <5>1. \A b \in 0 .. n - 1 : b % CpuBlock = 0 => (b < a + CpuBlock <=> b < a \/ b = a)
          <6>. SUFFICES ASSUME NEW b \in 0 .. n - 1, b % CpuBlock = 0
                        PROVE  b < a + CpuBlock <=> b < a \/ b = a
            OBVIOUS
          <6>1. b < a + CpuBlock /\ b >= a => b = a
            BY <4>1
          <6>. QED  BY <1>1, <6>1
        <5>. QED  BY <3>0, <5>1
      <4>4. D(q) = {b \in 0 .. n - 1 : b % CpuBlock = 0 /\ b < a}
        BY <3>0
      <4>. QED  BY <3>1, <4>3, <4>4
    <3>3. D(q) \cap {a} = {} /\ \A b \in D(q) \cup {a} : g[b] \in Nat
      <4>1. a \notin D(q) /\ D(q) \subseteq 0 .. n - 1
        BY <3>0
      <4>. HIDE DEF D, g
      <4>. QED  BY <1>4, <3>1, <4>1
    <3>4. IsFiniteSet(D(q)) /\ IsFiniteSet({a})
      BY <1>3, FS_Singleton
    <3>5. g[a] \in Nat
      BY <3>3
    <3>6. Total(g, D(q + 1)) = x + g[a]
      <4>. HIDE DEF D, g
      <4>1. Total(g, D(q) \cup {a}) = x + Total(g, {a})
        BY <3>3, <3>4, TotalFacts
      <4>2. Total(g, {a}) = g[a]
        BY <3>5, TotalSmall
      <4>. QED  BY <3>2, <4>1, <4>2
    <3>7. end(q) = a /\ end(q + 1) = Lesser(n, a + CpuBlock)
      BY <1>1, <2>2, <3>0 DEF Lesser
    <3>8. g[a] = cpu_range(end(q) .. end(q + 1) - 1, rounds)
      BY <3>1, <3>7
    <3>. HIDE DEF x, g, D, end
    <3>9. sum(q) \in Nat /\ sum(q + 1) % Word = (sum(q) + g[a]) % Word
      <4>1. end(q) \in Nat /\ end(q + 1) \in Nat /\ end(q) <= end(q + 1)
        BY <1>2
      <4>2. /\ sum(q) \in Nat
            /\ sum(q + 1) % Word = (sum(q) + cpu_range(end(q) .. end(q + 1) - 1, rounds)) % Word
        BY <4>1, HashRange
      <4>. HIDE DEF sum
      <4>. QED  BY <3>8, <4>2
    <3>. HIDE DEF sum
    <3>10. /\ (x + g[a]) % Word = ((x % Word) + g[a]) % Word
           /\ (sum(q) + g[a]) % Word = ((sum(q) % Word) + g[a]) % Word
      BY <2>1, <3>5, <3>9, WrapsOnce, WordAssumption
    <3>11. (x + g[a]) % Word = sum(q + 1) % Word
      BY <2>1, <3>9, <3>10
    <3>12. x + g[a] \in Nat
      BY <2>1, <3>5
    <3>. QED  BY <3>6, <3>11, <3>12
  <2>3. CASE ~(q * CpuBlock < n)
    <3>1. \A b \in 0 .. n - 1 : b < q * CpuBlock /\ b < (q + 1) * CpuBlock
      BY <1>1, <1>2, <2>3
    <3>2. D(q + 1) = D(q)
      BY <3>1
    <3>3. end(q + 1) = end(q)
      BY <1>1, <1>2, <2>3 DEF Lesser
    <3>. HIDE DEF D, end, g
    <3>. QED  BY <2>1, <3>2, <3>3
  <2>. QED  BY <2>2, <2>3
<1>. HIDE DEF T
<1>7. n \in T
  BY <1>5, <1>6, InductionSet
<1>8. n * CpuBlock >= n /\ end(n) = n
  <2>1. n * CpuBlock = n * (CpuBlock - 1) + n /\ n * (CpuBlock - 1) \in Nat /\ n * CpuBlock \in Nat
    BY <1>1
  <2>2. n * CpuBlock >= n
    BY <2>1
  <2>. QED  BY <2>1, <2>2 DEF Lesser
<1>9. D(n) = All
  <2>1. \A b \in 0 .. n - 1 : b < n * CpuBlock
    BY <1>1, <1>8
  <2>. QED  BY <2>1
<1>10. Total(g, D(n)) % Word = Total(Hash(rounds), 0 .. n - 1) % Word
  <2>. HIDE DEF g, D, end
  <2>. QED  BY <1>7, <1>8 DEF T
<1>11. [b \in All |-> cpu_range(b .. Lesser(n, b + CpuBlock) - 1, rounds)] = [b \in All |-> g[b]]
  OBVIOUS
<1>. QED  BY <1>9, <1>10, <1>11 DEF cpu_checksum, Total

-----------------------------------------------------------------------------
(* Command.                                                                *)

Params ==
    {"capacity", "producers", "consumers", "workers",
     "tasks", "rounds", "sample_every", "settle_ms"}

\* The runner has made a command line.
Started ==
    /\ startedBy = "runner" /\ step # "asked"
    /\ ~(step = "ended" /\ report.status = "not applicable")

Asked ==
    /\ startedBy \in {"runner", "hand"}
    /\ step \in {"asked", "started", "parsed", "checked", "ended"}
    /\ startedBy = "hand" => ours = TRUE /\ step # "asked"
    /\ startedBy = "runner" =>
          /\ asked.impl \in Implementations /\ asked.size \in Sizes
          /\ asked.case \in DOMAIN WORKLOAD_PARAMS

\* The command line is the one that was asked for.
Wanted == [program  |-> resolve_impl,
           variants |-> asked.impl.variants \ {"mimalloc"},
           flags    |-> Overlay(WORKLOAD_PARAMS[asked.case],
                             [workload |-> program_workload(asked.case),
                              size |-> asked.size, threads |-> Threads])]

Commanded == Started => Applicable /\ command = Wanted

Ended(statuses) == step = "ended" /\ report.status \in statuses

\* The Args of a program that has parsed its command line.
Parsed ==
    /\ ~BadFlags
    /\ args = Flags \/ (~ours /\ args \in OneThingElse)
    /\ ours => variants = command.variants

Checked == EachApplies /\ ~Conflicting

Passed ==
    /\ step \in {"parsed", "checked"} \/ Ended({"ok", "skipped", "panicked"}) => Parsed
    /\ step = "checked" \/ Ended({"ok", "panicked"}) => Checked

Allocator == IF command.program = "variants-mimalloc" THEN {"mimalloc"} ELSE {}

\* What is printed of the parameters is what they were.
Echoed(printed) == \A p \in DOMAIN printed : printed[p] = args[p]

\* How a program ends, and what it prints.
EndedAs ==
    step = "ended" =>
        /\ report.status \in {"not applicable", "failed", "panicked", "skipped", "ok"}
        /\ report.status = "failed" => ~(startedBy = "runner" /\ ours)
        /\ report.status = "panicked" => Panics
        /\ report.status = "skipped" =>
              Conflicting \/ TooManyThreads \/ ~(startedBy = "runner" /\ ours)
        /\ report.status = "ok" => report.checksum = checksum
        /\ report.status \in {"skipped", "ok"} =>
              /\ Echoed(report.echoed)
              /\ report.label = Switches \cup Allocator
              /\ report.acting = (Switches \cap LooksAt(args.workload)) \cup Allocator

JudgedAs ==
    row # None =>
        /\ step = "ended" /\ startedBy = "runner"
        /\ row.status = "ok" => report.status = "ok" /\ AsAsked
        /\ row.valid # "wrong"

CommandIInv == Asked /\ Commanded /\ Passed /\ EndedAs /\ JudgedAs

-----------------------------------------------------------------------------

\* A case has every parameter that its workload reads, and none that is zero.
LEMMA Tables ==
    ASSUME NEW c \in DOMAIN WORKLOAD_PARAMS
    PROVE  /\ program_workload(c) \in Workloads
           /\ DOMAIN WORKLOAD_PARAMS[c] \subseteq Params
           /\ \A p \in DOMAIN WORKLOAD_PARAMS[c] :
                 WORKLOAD_PARAMS[c][p] \in Nat /\ (p # "rounds" => WORKLOAD_PARAMS[c][p] # 0)
           /\ Reads(program_workload(c)) \subseteq DOMAIN WORKLOAD_PARAMS[c]
<1>. USE DEF WORKLOAD_PARAMS, program_workload, CASE_WORKLOAD, Workloads,
            Reads, Params
<1>1. c \in {"spsc", "spsc_cap1", "mpsc", "mpsc_cap1", "mpmc", "mpmc_cap1", "pingpong", "spawn",
             "cpu", "select", "select_cap1", "mutex", "idle"}
  OBVIOUS
<1>2. CASE c \in {"spsc", "spsc_cap1"}
  BY <1>2
<1>3. CASE c \in {"mpsc", "mpsc_cap1"}
  BY <1>3
<1>4. CASE c \in {"mpmc", "mpmc_cap1"}
  BY <1>4
<1>5. CASE c \in {"pingpong", "spawn"}
  BY <1>5
<1>6. CASE c = "cpu"
  BY <1>6, CommandAssumption
<1>7. CASE c \in {"select", "select_cap1"}
  BY <1>7
<1>8. CASE c \in {"mutex", "idle"}
  BY <1>8
<1>. HIDE DEF WORKLOAD_PARAMS, program_workload, CASE_WORKLOAD, Workloads,
              Reads, Params
<1>. QED  BY <1>1, <1>2, <1>3, <1>4, <1>5, <1>6, <1>7, <1>8

LEMMA SizesFit == \A n \in Sizes : n \in Nat /\ n \in 0 .. Word - 1
<1>1. ASSUME NEW n \in Sizes PROVE n \in Nat /\ n \in 0 .. Word - 1
  <2>1. n \in 0 .. Word - 1
    BY CommandAssumption
  <2>. QED  BY <2>1, WordAssumption
<1>. QED  BY <1>1

LEMMA DefaultsPositive ==
    /\ DOMAIN Defaults = Params
    /\ \A p \in Params : Defaults[p] \in Nat /\ (p # "rounds" => Defaults[p] # 0)
BY CommandAssumption DEF Defaults, Params

\* The two tables of variants.
LEMMA SameVariants ==
    /\ DOMAIN TOKIO_VARIANTS \ {"mimalloc"} = DOMAIN VARIANTS
    /\ \A v \in DOMAIN VARIANTS : VARIANTS[v] = TOKIO_VARIANTS[v]
    /\ \A w \in Workloads : w \in TOKIO_VARIANTS["mimalloc"]
BY DEF TOKIO_VARIANTS, VARIANTS

\* What a program makes of the runner's flags.
LEMMA RunnerFlags ==
    ASSUME Asked, Commanded, Started
    PROVE  /\ DOMAIN Flags = {"workload", "size", "threads"} \cup Params
           /\ Flags.workload = program_workload(asked.case)
           /\ Flags.workload \in Workloads
           /\ Flags.threads \in Nat \ {0} /\ Flags.size \in Nat
           /\ \A p \in Params : Flags[p] \in Nat /\ (p # "rounds" => Flags[p] # 0)
<1>. DEFINE given == [workload |-> program_workload(asked.case), size |-> asked.size,
                      threads |-> Threads]
            params == WORKLOAD_PARAMS[asked.case]
            raw == Overlay(Overlay(params, given), Defaults)
<1>1. asked.case \in DOMAIN WORKLOAD_PARAMS /\ asked.size \in Nat /\ Threads \in Nat \ {0}
  BY SizesFit, CommandAssumption DEF Asked, Started
<1>2. /\ DOMAIN params \subseteq Params
      /\ \A p \in DOMAIN params : params[p] \in Nat /\ (p # "rounds" => params[p] # 0)
      /\ program_workload(asked.case) \in Workloads
  BY <1>1, Tables
<1>3. DOMAIN raw = {"workload", "size", "threads"} \cup Params
  <2>1. DOMAIN given = {"workload", "size", "threads"}
    OBVIOUS
  <2>. HIDE DEF given, params
  <2>. QED  BY <1>2, <2>1, DefaultsPositive DEF Overlay
<1>4. /\ raw["workload"] = program_workload(asked.case)
      /\ raw["size"] = asked.size /\ raw["threads"] = Threads
  <2>1. /\ DOMAIN given = {"workload", "size", "threads"}
        /\ given["workload"] = program_workload(asked.case)
        /\ given["size"] = asked.size /\ given["threads"] = Threads
    OBVIOUS
  <2>2. ASSUME NEW k \in {"workload", "size", "threads"} PROVE k \notin DOMAIN params
    BY <1>2 DEF Params
  <2>. HIDE DEF given, params
  <2>3. ASSUME NEW k \in {"workload", "size", "threads"} PROVE raw[k] = given[k]
    BY <2>1, <2>2 DEF Overlay
  <2>. QED  BY <2>1, <2>3
<1>5. ASSUME NEW p \in Params PROVE raw[p] \in Nat /\ (p # "rounds" => raw[p] # 0)
  <2>1. DOMAIN given = {"workload", "size", "threads"} /\ p \notin {"workload", "size", "threads"}
    BY DEF Params
  <2>2. Defaults[p] \in Nat /\ (p # "rounds" => Defaults[p] # 0) /\ p \in DOMAIN Defaults
    BY DefaultsPositive
  <2>. HIDE DEF given, params
  <2>. QED  BY <1>2, <2>1, <2>2 DEF Overlay
<1>. HIDE DEF given, params, raw
<1>6. Flags = [raw EXCEPT !["sample_every"] = IF @ = 0 THEN 1 ELSE @]
  BY DEF Flags, Commanded, Wanted, raw, given, params
<1>7. /\ DOMAIN Flags = DOMAIN raw
      /\ \A p \in DOMAIN raw : p # "sample_every" => Flags[p] = raw[p]
      /\ Flags["sample_every"] = IF raw["sample_every"] = 0 THEN 1 ELSE raw["sample_every"]
  <2>1. "sample_every" \in DOMAIN raw
    BY <1>3 DEF Params
  <2>. QED  BY <1>6, <2>1
<1>8. /\ DOMAIN Flags = {"workload", "size", "threads"} \cup Params
      /\ Flags["workload"] = program_workload(asked.case)
      /\ Flags["threads"] = Threads /\ Flags["size"] = asked.size
  BY <1>3, <1>4, <1>7
<1>9. ASSUME NEW p \in Params PROVE Flags[p] \in Nat /\ (p # "rounds" => Flags[p] # 0)
  BY <1>3, <1>5, <1>7
<1>. QED  BY <1>1, <1>2, <1>8, <1>9

\* The runner starts no program with flags that it refuses.
LEMMA RunnerFlagsFine ==
    ASSUME Asked, Commanded, Started
    PROVE  ~BadFlags
<1>1. /\ Flags.workload \in Workloads /\ Flags.threads # 0
      /\ \A p \in {"producers", "consumers", "workers", "tasks"} : Flags[p] # 0
  BY RunnerFlags DEF Params
<1>2. command.program = "go" => command.variants = {}
  BY DEF Commanded, Wanted, resolve_impl
<1>. QED  BY <1>1, <1>2 DEF BadFlags, Workloads

\* Nothing that a workload divides by is zero; --capacity may be, by hand.
LEMMA ArgsPositive ==
    ASSUME Asked, Commanded, Parsed, startedBy = "runner" => Started
    PROVE  /\ \A p \in {"producers", "tasks", "workers", "sample_every"} : args[p] # 0
           /\ startedBy = "runner" => args.capacity # 0
<1>1. CASE args = Flags
  <2>1. args = Flags /\ ~BadFlags
    BY <1>1 DEF Parsed
  <2>2. Flags["sample_every"] # 0
    <3>1. "sample_every" \in DOMAIN Defaults
      BY DEF Defaults
    <3>2. "sample_every" \in DOMAIN Overlay(command.flags, Defaults)
      BY <3>1 DEF Overlay
    <3>. QED  BY <3>2 DEF Flags
  <2>3. startedBy = "runner" => Flags["capacity"] # 0
    BY RunnerFlags DEF Params
  <2>. QED  BY <2>1, <2>2, <2>3 DEF BadFlags
<1>2. CASE ~ours /\ args \in OneThingElse
  <2>1. Started
    BY <1>2 DEF Asked
  <2>2. args \in OneThingElse
    BY <1>2
  <2>3. /\ DOMAIN Flags = {"workload", "size", "threads"} \cup Params
        /\ \A p \in Params : Flags[p] \in Nat /\ (p # "rounds" => Flags[p] # 0)
    BY <2>1, RunnerFlags
  <2>4. ASSUME NEW p \in {"producers", "tasks", "workers", "sample_every", "capacity"}
        PROVE  args[p] # 0
    <3>1. p \in Params /\ p # "rounds" /\ p # "workload"
      BY DEF Params
    <3>2. Flags[p] \in Nat /\ Flags[p] # 0 /\ p \in DOMAIN Flags
      BY <2>3, <3>1
    <3>3. CASE \E k \in DOMAIN Flags \ {"workload"} : args = [Flags EXCEPT ![k] = @ + 1]
      <4>1. PICK k \in DOMAIN Flags \ {"workload"} :
               args = [Flags EXCEPT ![k] = Flags[k] + 1]
        BY <3>3
      <4>2. args[p] = IF p = k THEN Flags[p] + 1 ELSE Flags[p]
        BY <3>2, <4>1
      <4>. QED  BY <3>2, <4>2
    <3>4. CASE \E w \in Workloads : args = [Flags EXCEPT !["workload"] = w]
      BY <3>1, <3>2, <3>4
    <3>. QED  BY <2>2, <3>3, <3>4 DEF OneThingElse
  <2>. QED  BY <2>4
<1>. QED  BY <1>1, <1>2 DEF Parsed

\* No flags make a program ask for a channel it has not.
LEMMA ChannelKnown ==
    ASSUME NEW w, command.program \in VariantPrograms
    PROVE  chan(w) \in Kinds(w) /\ (w = "mpmc" \/ w # "mpmc")
BY DEF VariantPrograms, chan, Kinds

LEMMA OnlyCapacityPanics ==
    ASSUME Asked, Commanded, Parsed, startedBy = "runner" => Started, Panics
    PROVE  startedBy = "hand" /\ args.capacity = 0
<1>1. ~\E p \in Divides(args.workload) : args[p] = 0
  <2>1. Divides(args.workload) \subseteq {"producers", "sample_every", "tasks", "workers"}
    BY DEF Divides
  <2>. QED  BY <2>1, ArgsPositive
<1>2. args.capacity = 0
  BY <1>1, ChannelKnown DEF Panics
<1>. QED  BY <1>2, ArgsPositive DEF Asked

\* A variant that is not refused is looked at.
LEMMA AllAct ==
    ASSUME Checked
    PROVE  Switches \subseteq LooksAt(args.workload)
<1>. SUFFICES ASSUME NEW v \in Switches PROVE v \in LooksAt(args.workload)
  OBVIOUS
<1>1. v \in DOMAIN VARIANTS /\ args.workload \in VARIANTS[v]
  BY DEF Checked, EachApplies
<1>2. /\ ~({"kanal", "flume"} \subseteq Switches)
      /\ ~({"stdmutex", "parkinglot"} \subseteq Switches)
  BY DEF Checked, Conflicting, CONFLICTS
<1>3. CASE v = "kanal"
  <2>1. args.workload \in {"spsc", "mpsc", "mpmc", "pingpong"}
    BY <1>1, <1>3 DEF VARIANTS
  <2>2. chan(args.workload) = v
    <3>1. command.program \notin {"crossbeam", "go", "tuned"}
      BY DEF Switches, VariantPrograms
    <3>. QED  BY <1>3, <3>1 DEF chan
  <2>. QED  BY <2>1, <2>2 DEF LooksAt
<1>4. CASE v = "flume"
  <2>1. Switches \cap {"kanal", "flume"} = {"flume"} /\ "kanal" \notin Switches
    BY <1>2, <1>4
  <2>2. args.workload \in {"spsc", "mpsc", "mpmc", "pingpong"}
    BY <1>1, <1>4 DEF VARIANTS
  <2>3. chan(args.workload) = v
    <3>1. command.program \notin {"crossbeam", "go", "tuned"}
      BY DEF Switches, VariantPrograms
    <3>. QED  BY <1>4, <2>1, <3>1 DEF chan
  <2>. QED  BY <2>2, <2>3 DEF LooksAt
<1>5. CASE v \in {"stdmutex", "parkinglot"}
  BY <1>1, <1>2, <1>5 DEF VARIANTS, LooksAt
<1>6. CASE v \in {"batch", "unconstrained"}
  BY <1>1, <1>6 DEF VARIANTS, LooksAt
<1>7. CASE v \in {"join", "nohandles", "biased"}
  BY <1>1, <1>7 DEF VARIANTS, LooksAt
<1>. QED  BY <1>1, <1>3, <1>4, <1>5, <1>6, <1>7 DEF VARIANTS

\* What is applicable for the runner is so for the program.
LEMMA RunnerVariants ==
    ASSUME Asked, Commanded, Started, variants = command.variants
    PROVE  /\ Switches \cup Allocator = asked.impl.variants
           /\ \A v \in Switches :
                 /\ v \in DOMAIN VARIANTS
                 /\ program_workload(asked.case) \in VARIANTS[v]
<1>1. /\ asked.impl \in Implementations /\ Applicable
      /\ command.program = resolve_impl
      /\ command.variants = asked.impl.variants \ {"mimalloc"}
  <2>1. startedBy = "runner"
    BY DEF Started
  <2>2. Applicable /\ command = Wanted
    BY DEF Commanded
  <2>. QED  BY <2>1, <2>2 DEF Asked, Wanted
<1>2. /\ asked.impl.variants \subseteq DOMAIN TOKIO_VARIANTS
      /\ asked.impl.base \in {"tokio", "crossbeam", "go", "tuned", "tuned-tokio"}
  BY <1>1 DEF Implementations, SmallSubsets
<1>3. Switches = asked.impl.variants \ {"mimalloc"}
  BY <1>1, <1>2 DEF Switches, VariantPrograms, resolve_impl
<1>4. Switches \cup Allocator = asked.impl.variants
  BY <1>1, <1>2, <1>3 DEF Allocator, resolve_impl
<1>5. \A v \in Switches :
         /\ v \in DOMAIN VARIANTS
         /\ program_workload(asked.case) \in VARIANTS[v]
  BY <1>1, <1>2, <1>3, SameVariants DEF Applicable
<1>. QED  BY <1>4, <1>5

\* What an accepted run was of.
LEMMA RanAsAsked ==
    ASSUME CommandIInv, startedBy = "runner", step = "ended", report.status = "ok", AsAsked
    PROVE  /\ args.workload = program_workload(asked.case) /\ args.size = asked.size
           /\ args.workload \in Workloads /\ args.size \in Sizes
           /\ \A p \in Reads(args.workload) :
                 /\ p \in DOMAIN WORKLOAD_PARAMS[asked.case]
                 /\ args[p] = WORKLOAD_PARAMS[asked.case][p]
                 /\ args[p] \in Nat /\ (p # "rounds" => args[p] # 0)
<1>1. asked.case \in DOMAIN WORKLOAD_PARAMS /\ asked.size \in Sizes
  BY DEF CommandIInv, Asked
<1>2. args.workload = program_workload(asked.case) /\ args.size = asked.size
  BY DEF AsAsked
<1>3. args.workload \in Workloads
  BY <1>1, <1>2, Tables
<1>4. ASSUME NEW p \in Reads(args.workload)
      PROVE  /\ p \in DOMAIN WORKLOAD_PARAMS[asked.case]
             /\ args[p] = WORKLOAD_PARAMS[asked.case][p]
             /\ args[p] \in Nat /\ (p # "rounds" => args[p] # 0)
  <2>1. /\ p \in DOMAIN WORKLOAD_PARAMS[asked.case]
        /\ WORKLOAD_PARAMS[asked.case][p] \in Nat
        /\ p # "rounds" => WORKLOAD_PARAMS[asked.case][p] # 0
    BY <1>1, <1>2, Tables
  <2>2. p \in DOMAIN report.echoed /\ report.echoed[p] = WORKLOAD_PARAMS[asked.case][p]
    BY <2>1 DEF AsAsked
  <2>3. report.echoed[p] = args[p]
    BY <2>2 DEF CommandIInv, EndedAs, Echoed
  <2>. QED  BY <2>1, <2>2, <2>3
<1>. QED  BY <1>1, <1>2, <1>3, <1>4

\* A run of what was asked for adds up to what the runner expects.
LEMMA ChecksumRight ==
    ASSUME CommandIInv, startedBy = "runner", step = "ended", report.status = "ok", AsAsked
    PROVE  checksum = expected_checksum(program_workload(asked.case), asked.size,
                                        WORKLOAD_PARAMS[asked.case])
<1>. DEFINE w == args.workload
            n == args.size
            params == WORKLOAD_PARAMS[asked.case]
            expected == expected_checksum(program_workload(asked.case), asked.size, params)
            triangle(k) == ((k * (k - 1)) \div 2) % Word
            values(lo, hi) == SumFunction([v \in lo .. hi - 1 |-> v])
            sent(e, k) == SumFunction([p \in 0 .. k - 1 |-> values(p * e, (p + 1) * e)])
<1>1. /\ w = program_workload(asked.case) /\ n = asked.size
      /\ w \in Workloads /\ n \in Nat /\ n \in 0 .. Word - 1
      /\ \A p \in Reads(w) : params[p] = args[p] /\ args[p] \in Nat /\ (p # "rounds" => args[p] # 0)
  BY RanAsAsked, SizesFit
<1>2. Word \in Nat \ {0}
  BY WordAssumption
<1>3. \A e, k \in Nat : sent(e, k) % Word = triangle(e * k)
  BY SentTotal
<1>4. CASE w \in {"spsc", "spawn"}
  <2>1. checksum = values(0, n) % Word /\ expected = triangle(n)
    BY <1>1, <1>4 DEF checksum, expected_checksum
  <2>2. values(0, n) = Total(Itself, 0 .. n - 1)
    BY <1>1, ValuesTotal
  <2>. QED  BY <1>1, <2>1, <2>2, Triangle
<1>5. CASE w \in {"mpsc", "mpmc"}
  <2>1. PICK k \in Nat \ {0} : k = args.producers /\ k = params.producers
    <3>1. "producers" \in Reads(w)
      BY <1>5 DEF Reads
    <3>. QED  BY <1>1, <3>1
  <2>2. checksum = sent(n \div k, k) % Word /\ expected = triangle((n \div k) * k)
    BY <1>1, <1>5, <2>1 DEF checksum, expected_checksum
  <2>3. n \div k \in Nat
    BY <1>1, Quotient
  <2>. QED  BY <1>3, <2>2, <2>3
<1>6. CASE w = "select"
  <2>1. checksum = sent(n \div 2, 2) % Word /\ expected = triangle((n \div 2) * 2)
    BY <1>1, <1>6 DEF checksum, expected_checksum
  <2>2. n \div 2 \in Nat
    BY <1>1, Quotient
  <2>. QED  BY <1>3, <2>1, <2>2
<1>7. CASE w = "pingpong"
  BY <1>1, <1>7 DEF checksum, expected_checksum
<1>8. CASE w = "mutex"
  <2>1. PICK k \in Nat \ {0} : k = args.workers /\ k = params.workers
    <3>1. "workers" \in Reads(w)
      BY <1>8 DEF Reads
    <3>. QED  BY <1>1, <3>1
  <2>2. PICK e \in Nat, r \in Nat : e = n \div k /\ n = e * k + r
    <3>1. n \div k \in Nat /\ n % k \in 0 .. k - 1 /\ n = (n \div k) * k + (n % k)
      BY <1>1, Quotient
    <3>2. n % k \in Nat
      BY <3>1
    <3>. QED  BY <3>1, <3>2
  <2>3. /\ checksum = SumFunction([i \in 0 .. k - 1 |-> e]) % Word
        /\ expected = e * k
    BY <1>1, <1>8, <2>1, <2>2 DEF checksum, expected_checksum
  <2>4. e * k \in 0 .. Word - 1
    <3>1. e * k \in Nat
      OBVIOUS
    <3>. QED  BY <1>1, <1>2, <2>2, <3>1
  <2>. QED  BY <2>3, <2>4, CountedTotal
<1>9. CASE w = "idle"
  <2>1. checksum = n % Word /\ expected = n
    BY <1>1, <1>9 DEF checksum, expected_checksum
  <2>. QED  BY <1>1, <1>2, <2>1, SmallNumber
<1>10. CASE w = "cpu"
  <2>1. PICK tasks \in Nat \ {0}, rounds \in Nat :
           tasks = args.tasks /\ rounds = args.rounds /\ rounds = params.rounds
    <3>1. "tasks" \in Reads(w) /\ "rounds" \in Reads(w)
      BY <1>10 DEF Reads
    <3>. QED  BY <1>1, <3>1
  <2>2. /\ checksum = SumFunction([c \in 0 .. tasks - 1 |->
                                      cpu_range(chunk_bounds(n, tasks, c), rounds)]) % Word
        /\ expected = cpu_checksum(n, rounds)
    BY <1>1, <1>10, <2>1 DEF checksum, expected_checksum
  <2>. QED  BY <1>1, <2>2, ChunksTotal, BlocksTotal
<1>. QED  BY <1>1, <1>4, <1>5, <1>6, <1>7, <1>8, <1>9, <1>10 DEF Workloads

-----------------------------------------------------------------------------

LEMMA SameCommand ==
    ASSUME UNCHANGED <<asked, command>>
    PROVE  /\ Applicable' = Applicable /\ Wanted' = Wanted
           /\ Flags' = Flags /\ BadFlags' = BadFlags
           /\ OneThingElse' = OneThingElse /\ Allocator' = Allocator
<1>1. Applicable' = Applicable
  BY DEF Applicable
<1>2. Wanted' = Wanted
  BY DEF Wanted, resolve_impl
<1>3. Flags' = Flags
  BY DEF Flags
<1>4. BadFlags' = BadFlags
  BY <1>3 DEF BadFlags
<1>5. OneThingElse' = OneThingElse
  BY <1>3 DEF OneThingElse
<1>6. Allocator' = Allocator
  BY DEF Allocator
<1>. QED  BY <1>1, <1>2, <1>3, <1>4, <1>5, <1>6

LEMMA SameSwitches ==
    ASSUME UNCHANGED <<command, variants>>
    PROVE  Switches' = Switches /\ Conflicting' = Conflicting
<1>1. Switches' = Switches
  BY DEF Switches
<1>. QED  BY <1>1 DEF Conflicting

LEMMA SameArgs ==
    ASSUME UNCHANGED <<ours, asked, command, args, variants>>
    PROVE  /\ Parsed' = Parsed /\ Checked' = Checked
           /\ Switches' = Switches /\ Conflicting' = Conflicting
           /\ TooManyThreads' = TooManyThreads /\ Panics' = Panics
           /\ LooksAt(args.workload)' = LooksAt(args.workload)
           /\ checksum' = checksum
<1>1. Parsed' = Parsed
  BY SameCommand DEF Parsed
<1>2. Checked' = Checked
  BY SameSwitches DEF Checked, EachApplies
<1>3. TooManyThreads' = TooManyThreads
  BY DEF TooManyThreads
<1>4. ASSUME NEW w PROVE chan(w)' = chan(w)
  BY SameSwitches DEF chan
<1>5. Panics' = Panics
  BY <1>4 DEF Panics
<1>6. LooksAt(args.workload)' = LooksAt(args.workload)
  BY SameSwitches, <1>4 DEF LooksAt
<1>7. checksum' = checksum
  BY DEF checksum
<1>. QED  BY <1>1, <1>2, <1>3, <1>5, <1>6, <1>7, SameSwitches

\* A program that is not yet at its end was started with what was asked.
LEMMA RunnerStarted ==
    ASSUME Asked, step \in {"started", "parsed", "checked"}
    PROVE  /\ startedBy = "runner" => Started
           /\ ours \/ startedBy = "runner"
BY DEF Asked, Started

LEMMA Starts == CommandInit => CommandIInv
<1>. SUFFICES ASSUME CommandInit PROVE CommandIInv
  OBVIOUS
<1>1. row = None /\ step \in {"asked", "started"} /\ (startedBy = "runner" => step = "asked")
  BY DEF CommandInit, Requests, ByHand
<1>2. Asked
  BY DEF CommandInit, Requests, Asked
<1>. QED  BY <1>1, <1>2 DEF CommandIInv, Commanded, Started, Passed, Ended, EndedAs, JudgedAs

\* A step that ends a program leaves what it was started with.
LEMMA Ending ==
    ASSUME Asked, Commanded, JudgedAs, step # "ended", step' = "ended",
           UNCHANGED <<startedBy, ours, asked, command, args, variants, row>>
    PROVE  /\ Asked' /\ JudgedAs'
           /\ step # "asked" \/ report'.status = "not applicable" => Commanded'
<1>1. Asked'
  BY DEF Asked
<1>2. JudgedAs'
  BY DEF JudgedAs, None
<1>3. ASSUME step # "asked" \/ report'.status = "not applicable" PROVE Commanded'
  <2>. SUFFICES ASSUME Started' PROVE Applicable' /\ command' = Wanted'
    BY DEF Commanded
  <2>1. startedBy = "runner" /\ report'.status # "not applicable"
    BY DEF Started
  <2>2. Started
    BY <1>3, <2>1 DEF Started
  <2>. QED  BY <2>2, SameCommand DEF Commanded
<1>. QED  BY <1>1, <1>2, <1>3

LEMMA NotApplicableStep ==
    ASSUME CommandIInv, NotApplicable
    PROVE  CommandIInv'
<1>1. /\ step = "asked" /\ step' = "ended" /\ report' = [status |-> "not applicable"]
      /\ UNCHANGED <<startedBy, ours, asked, command, args, variants, row>>
  BY DEF NotApplicable, Ends, Goto
<1>2. Asked' /\ JudgedAs' /\ Commanded'
  BY <1>1, Ending DEF CommandIInv
<1>3. Passed' /\ EndedAs'
  BY <1>1 DEF Passed, Ended, EndedAs
<1>. QED  BY <1>2, <1>3 DEF CommandIInv

LEMMA BenchCommandStep ==
    ASSUME CommandIInv, bench_command
    PROVE  CommandIInv'
<1>1. /\ step = "asked" /\ step' = "started" /\ Applicable /\ command' = Wanted
      /\ UNCHANGED <<startedBy, ours, asked, args, variants, report, row>>
  BY DEF bench_command, Goto, Wanted
<1>2. Asked'
  BY <1>1 DEF CommandIInv, Asked
<1>3. Commanded'
  <2>1. Applicable' /\ Wanted' = Wanted
    BY <1>1 DEF Applicable, Wanted, resolve_impl
  <2>. QED  BY <1>1, <2>1 DEF Commanded
<1>4. Passed' /\ EndedAs'
  BY <1>1 DEF Passed, Ended, EndedAs
<1>5. JudgedAs'
  BY <1>1 DEF CommandIInv, JudgedAs, None
<1>. QED  BY <1>2, <1>3, <1>4, <1>5 DEF CommandIInv

\* The three ways to fail before the workload runs, none of them the
\* runner's with this build.
LEMMA FailedStep ==
    ASSUME CommandIInv, ParseFails \/ UnknownVariant \/ UnknownWorkload
    PROVE  CommandIInv'
<1>1. /\ step \in {"started", "parsed", "checked"} /\ step' = "ended"
      /\ report' = [status |-> "failed"]
      /\ UNCHANGED <<startedBy, ours, asked, command, args, variants, row>>
  BY DEF ParseFails, UnknownVariant, UnknownWorkload, Ends, Goto
<1>2. Asked' /\ JudgedAs' /\ Commanded'
  BY <1>1, Ending DEF CommandIInv
<1>3. ASSUME startedBy = "runner", ours PROVE FALSE
  <2>1. Started
    BY <1>1, <1>3 DEF Started
  <2>2. ~ParseFails
    BY <2>1, RunnerFlagsFine DEF CommandIInv, ParseFails
  <2>3. ~UnknownVariant
    <3>1. step = "parsed" => variants = command.variants
      BY <1>3 DEF CommandIInv, Passed, Parsed
    <3>. QED  BY <2>1, <3>1, RunnerVariants DEF CommandIInv, UnknownVariant
  <2>4. ~UnknownWorkload
    <3>1. step = "checked" => args = Flags
      BY <1>3 DEF CommandIInv, Passed, Parsed
    <3>. QED  BY <2>1, <3>1, RunnerFlags DEF CommandIInv, UnknownWorkload
  <2>. QED  BY <2>2, <2>3, <2>4
<1>4. Passed'
  BY <1>1 DEF Passed, Ended
<1>5. EndedAs'
  BY <1>1, <1>3 DEF EndedAs
<1>. QED  BY <1>2, <1>4, <1>5 DEF CommandIInv

\* Whatever build it is that parses.
LEMMA ParseStep ==
    ASSUME CommandIInv, Parse \/ ParseElse
    PROVE  CommandIInv'
<1>1. /\ step = "started" /\ step' = "parsed" /\ ~BadFlags
      /\ args' = Flags \/ (~ours /\ args' \in OneThingElse)
      /\ ours => variants' = command.variants
      /\ UNCHANGED <<startedBy, ours, asked, command, report, row>>
  <2>1. CASE Parse
    BY <2>1 DEF Parse, Goto
  <2>2. CASE ParseElse
    BY <2>2 DEF ParseElse, Goto
  <2>. QED  BY <2>1, <2>2
<1>2. Asked'
  BY <1>1 DEF CommandIInv, Asked
<1>3. Commanded'
  BY <1>1, SameCommand DEF CommandIInv, Commanded, Started
<1>4. Passed'
  BY <1>1, SameCommand DEF Passed, Parsed, Ended
<1>5. EndedAs' /\ JudgedAs'
  BY <1>1 DEF CommandIInv, EndedAs, JudgedAs, None
<1>. QED  BY <1>2, <1>3, <1>4, <1>5 DEF CommandIInv

LEMMA CheckedOkStep ==
    ASSUME CommandIInv, CheckedOk
    PROVE  CommandIInv'
<1>1. /\ step = "parsed" /\ step' = "checked" /\ Checked
      /\ UNCHANGED <<startedBy, ours, asked, command, args, variants, report, row>>
  BY DEF CheckedOk, Goto, Checked
<1>2. Asked'
  BY <1>1 DEF CommandIInv, Asked
<1>3. Commanded'
  BY <1>1, SameCommand DEF CommandIInv, Commanded, Started
<1>4. Passed'
  BY <1>1, SameArgs DEF CommandIInv, Passed, Ended
<1>5. EndedAs' /\ JudgedAs'
  BY <1>1 DEF CommandIInv, EndedAs, JudgedAs, None
<1>. QED  BY <1>2, <1>3, <1>4, <1>5 DEF CommandIInv

\* What is printed, and that nothing else changes.
LEMMA Printed ==
    ASSUME NEW status, NEW sum, Prints(status, sum)
    PROVE  /\ step' = "ended" /\ report'.status = status /\ report'.checksum = sum
           /\ Echoed(report'.echoed)
           /\ report'.label = Switches \cup Allocator
           /\ report'.acting = (Switches \cap LooksAt(args.workload)) \cup Allocator
           /\ UNCHANGED <<startedBy, ours, asked, command, args, variants, row>>
BY DEF Prints, Goto, Allocator, Echoes, Echoed

\* The three ways to be skipped.
LEMMA SkippedStep ==
    ASSUME CommandIInv, WrongWorkload \/ Conflict \/ Capped
    PROVE  CommandIInv'
<1>1. step \in {"parsed", "checked"} /\ Prints("skipped", 0)
  BY DEF WrongWorkload, Conflict, Capped
<1>2. /\ step' = "ended" /\ report'.status = "skipped"
      /\ Echoed(report'.echoed)
      /\ report'.label = Switches \cup Allocator
      /\ report'.acting = (Switches \cap LooksAt(args.workload)) \cup Allocator
      /\ UNCHANGED <<startedBy, ours, asked, command, args, variants, row>>
  BY <1>1, Printed
<1>3. Asked' /\ JudgedAs' /\ Commanded'
  BY <1>1, <1>2, Ending DEF CommandIInv
<1>4. Passed'
  BY <1>1, <1>2, SameArgs DEF CommandIInv, Passed, Ended
<1>5. Conflicting \/ TooManyThreads \/ ~(startedBy = "runner" /\ ours)
  <2>1. CASE WrongWorkload
    <3>. SUFFICES ASSUME startedBy = "runner", ours PROVE FALSE
      OBVIOUS
    <3>1. Started
      BY <1>1 DEF Started
    <3>2. args = Flags /\ variants = command.variants
      BY <1>1 DEF CommandIInv, Passed, Parsed
    <3>3. args.workload = program_workload(asked.case)
      BY <3>1, <3>2, RunnerFlags DEF CommandIInv
    <3>. QED  BY <2>1, <3>1, <3>2, <3>3, RunnerVariants DEF CommandIInv, WrongWorkload
  <2>2. CASE Conflict
    BY <2>2 DEF Conflict
  <2>3. CASE Capped
    BY <2>3 DEF Capped
  <2>. QED  BY <2>1, <2>2, <2>3
<1>6. EndedAs'
  BY <1>2, <1>5, SameCommand, SameArgs DEF EndedAs, Echoed
<1>. QED  BY <1>3, <1>4, <1>6 DEF CommandIInv

LEMMA PanicStep ==
    ASSUME CommandIInv, Panic
    PROVE  CommandIInv'
<1>1. /\ step = "checked" /\ step' = "ended" /\ report' = [status |-> "panicked"] /\ Panics
      /\ UNCHANGED <<startedBy, ours, asked, command, args, variants, row>>
  BY DEF Panic, Ends, Goto
<1>2. Asked' /\ JudgedAs' /\ Commanded'
  BY <1>1, Ending DEF CommandIInv
<1>3. Passed'
  BY <1>1, SameArgs DEF CommandIInv, Passed, Ended
<1>4. EndedAs'
  BY <1>1, SameArgs DEF EndedAs
<1>. QED  BY <1>2, <1>3, <1>4 DEF CommandIInv

LEMMA RunStep ==
    ASSUME CommandIInv, Run
    PROVE  CommandIInv'
<1>1. step = "checked" /\ Prints("ok", checksum)
  BY DEF Run
<1>2. /\ step' = "ended" /\ report'.status = "ok" /\ report'.checksum = checksum
      /\ Echoed(report'.echoed)
      /\ report'.label = Switches \cup Allocator
      /\ report'.acting = (Switches \cap LooksAt(args.workload)) \cup Allocator
      /\ UNCHANGED <<startedBy, ours, asked, command, args, variants, row>>
  BY <1>1, Printed
<1>3. Asked' /\ JudgedAs' /\ Commanded'
  BY <1>1, <1>2, Ending DEF CommandIInv
<1>4. Passed'
  BY <1>1, <1>2, SameArgs DEF CommandIInv, Passed, Ended
<1>5. EndedAs'
  BY <1>2, SameCommand, SameArgs DEF EndedAs, Echoed
<1>. QED  BY <1>3, <1>4, <1>5 DEF CommandIInv

\* A row is "ok" only for a program that was, and printed what was asked for;
\* and then the checksum is as expected.
LEMMA RunOneStep ==
    ASSUME CommandIInv, run_one
    PROVE  CommandIInv'
<1>1. /\ step = "ended" /\ startedBy = "runner"
      /\ UNCHANGED <<startedBy, ours, asked, command, step, args, variants, report>>
  BY DEF run_one
<1>2. (row'.status = "ok" => report.status = "ok" /\ AsAsked) /\ row'.valid # "wrong"
  <2>1. CASE report.status \in {"failed", "panicked"} \/ ~AsAsked
    <3>1. row' \in {[status |-> "error", valid |-> "unverified"]}
      BY <2>1, Zenon DEF run_one
    <3>. QED  BY <3>1
  <2>2. CASE ~(report.status \in {"failed", "panicked"} \/ ~AsAsked)
    <3>1. row' \in [status : {report.status},
                    valid  : IF report.status = "ok" THEN verify ELSE {"unverified"}]
      BY <2>2 DEF run_one
    <3>2. report.status = "ok" => "wrong" \notin verify
      <4>1. ASSUME report.status = "ok" PROVE "wrong" \notin verify
        <5>1. report.checksum = checksum
          BY <1>1, <4>1 DEF CommandIInv, EndedAs
        <5>. QED  BY <1>1, <2>2, <4>1, <5>1, ChecksumRight DEF verify
      <4>. QED  BY <4>1
    <3>. QED  BY <2>2, <3>1, <3>2
  <2>. QED  BY <2>1, <2>2
<1>3. AsAsked' = AsAsked
  BY <1>1 DEF AsAsked
<1>4. JudgedAs'
  BY <1>1, <1>2, <1>3 DEF JudgedAs
<1>5. Asked' /\ Commanded'
  BY <1>1, SameCommand DEF CommandIInv, Asked, Commanded, Started
<1>6. Passed'
  BY <1>1, SameArgs DEF CommandIInv, Passed, Ended
<1>7. EndedAs'
  BY <1>1, SameCommand, SameArgs DEF CommandIInv, EndedAs, Echoed
<1>. QED  BY <1>4, <1>5, <1>6, <1>7 DEF CommandIInv

LEMMA NoStep ==
    ASSUME CommandIInv, UNCHANGED commandVars
    PROVE  CommandIInv'
<1>1. UNCHANGED <<startedBy, ours, asked, command, step, args, variants, report, row>>
  BY DEF commandVars
<1>2. AsAsked' = AsAsked
  BY <1>1 DEF AsAsked
<1>3. JudgedAs'
  BY <1>1, <1>2 DEF CommandIInv, JudgedAs, None
<1>4. Asked' /\ Commanded'
  BY <1>1, SameCommand DEF CommandIInv, Asked, Commanded, Started
<1>5. Passed'
  BY <1>1, SameArgs DEF CommandIInv, Passed, Ended
<1>6. EndedAs'
  BY <1>1, SameCommand, SameArgs DEF CommandIInv, EndedAs, Echoed
<1>. QED  BY <1>3, <1>4, <1>5, <1>6 DEF CommandIInv

\* The invariant holds in every state, whoever starts the program, and also
\* where it is another build than this source's.
THEOREM CommandInductive == CommandSpec => []CommandIInv
<1>1. CommandInit => CommandIInv
  BY Starts
<1>2. CommandIInv /\ [CommandNext]_commandVars => CommandIInv'
  <2>. SUFFICES ASSUME CommandIInv, [CommandNext]_commandVars PROVE CommandIInv'
    OBVIOUS
  <2>1. CASE NotApplicable
    BY <2>1, NotApplicableStep
  <2>2. CASE bench_command
    BY <2>2, BenchCommandStep
  <2>3. CASE ParseFails \/ UnknownVariant \/ UnknownWorkload
    BY <2>3, FailedStep
  <2>4. CASE Parse \/ ParseElse
    BY <2>4, ParseStep
  <2>5. CASE WrongWorkload \/ Conflict \/ Capped
    BY <2>5, SkippedStep
  <2>6. CASE CheckedOk
    BY <2>6, CheckedOkStep
  <2>7. CASE Panic
    BY <2>7, PanicStep
  <2>8. CASE Run
    BY <2>8, RunStep
  <2>9. CASE run_one
    BY <2>9, RunOneStep
  <2>10. CASE CommandDone \/ UNCHANGED commandVars
    BY <2>10, NoStep DEF CommandDone
  <2>. QED
    BY <2>1, <2>2, <2>3, <2>4, <2>5, <2>6, <2>7, <2>8, <2>9, <2>10 DEF CommandNext
<1>. QED  BY <1>1, <1>2, PTL DEF CommandSpec

\* The runner's program never fails and is skipped only for a conflict or the
\* cap, none panics but for --capacity 0 by hand, and a report names the
\* variants that ran, with the tables of the source and any sizes.
THEOREM ReportsAreTrue == CommandSpec => []NameSaysWhatRuns
<1>1. CommandIInv => NameSaysWhatRuns
  <2>. SUFFICES ASSUME CommandIInv, step = "ended", ours
                PROVE  /\ startedBy = "runner" =>
                            \/ report.status \in {"ok", "not applicable"}
                            \/ report.status = "skipped" /\ (Conflicting \/ TooManyThreads)
                       /\ report.status = "panicked" => startedBy = "hand" /\ args.capacity = 0
                       /\ report.status = "ok" => report.acting = report.label
    BY DEF NameSaysWhatRuns
  <2>1. ASSUME report.status = "panicked" PROVE startedBy = "hand" /\ args.capacity = 0
    <3>1. Parsed /\ Panics
      BY <2>1 DEF CommandIInv, Passed, Ended, EndedAs
    <3>2. startedBy = "runner" => Started
      BY <2>1 DEF Started
    <3>. QED  BY <3>1, <3>2, OnlyCapacityPanics DEF CommandIInv
  <2>2. ASSUME report.status = "ok" PROVE report.acting = report.label
    <3>1. Checked
      BY <2>2 DEF CommandIInv, Passed, Ended
    <3>2. Switches \subseteq LooksAt(args.workload)
      BY <3>1, AllAct
    <3>. QED  BY <2>2, <3>2 DEF CommandIInv, EndedAs
  <2>3. startedBy = "runner" =>
           \/ report.status \in {"ok", "not applicable"}
           \/ report.status = "skipped" /\ (Conflicting \/ TooManyThreads)
    BY <2>1 DEF CommandIInv, EndedAs
  <2>. QED  BY <2>1, <2>2, <2>3
<1>. QED  BY <1>1, CommandInductive, PTL

\* An accepted row is of a run of the workload, size, threads and parameters
\* that were asked for, for any sizes and whichever thing another build does
\* otherwise, if it prints nothing untrue; and, of this source, of the variants.
THEOREM RowsAreAsAsked == CommandSpec => []AcceptedRanAsAsked
<1>1. CommandIInv => AcceptedRanAsAsked
  <2>. SUFFICES ASSUME CommandIInv, row # None, row.status = "ok"
                PROVE  /\ args.workload = program_workload(asked.case)
                       /\ args.size = asked.size /\ args.threads = Threads
                       /\ ours => report.acting = asked.impl.variants
                       /\ \A p \in Reads(args.workload) :
                             /\ p \in DOMAIN WORKLOAD_PARAMS[asked.case]
                             /\ args[p] = WORKLOAD_PARAMS[asked.case][p]
    BY DEF AcceptedRanAsAsked
  <2>1. step = "ended" /\ startedBy = "runner" /\ report.status = "ok" /\ AsAsked
    BY DEF CommandIInv, JudgedAs
  <2>2. /\ args.workload = program_workload(asked.case)
        /\ args.size = asked.size /\ args.threads = Threads
    BY <2>1 DEF AsAsked
  <2>3. ASSUME ours PROVE report.acting = asked.impl.variants
    <3>1. Checked /\ Started /\ variants = command.variants
      BY <2>1, <2>3 DEF CommandIInv, Passed, Parsed, Ended, Started
    <3>2. Switches \subseteq LooksAt(args.workload)
      BY <3>1, AllAct
    <3>3. Switches \cup Allocator = asked.impl.variants
      BY <3>1, RunnerVariants DEF CommandIInv
    <3>. QED  BY <2>1, <3>2, <3>3 DEF CommandIInv, EndedAs
  <2>4. \A p \in Reads(args.workload) :
           /\ p \in DOMAIN WORKLOAD_PARAMS[asked.case]
           /\ args[p] = WORKLOAD_PARAMS[asked.case][p]
    BY <2>1, RanAsAsked
  <2>. QED  BY <2>2, <2>3, <2>4
<1>. QED  BY <1>1, CommandInductive, PTL

\* No run of what was asked for is marked wrong: the closed forms of the runner
\* are what the programs add up, for all sizes and any word they wrap to.
THEOREM SumsAreRight == CommandSpec => []ChecksumAsExpected
<1>1. CommandIInv => ChecksumAsExpected
  BY DEF CommandIInv, JudgedAs, ChecksumAsExpected
<1>. QED  BY <1>1, CommandInductive, PTL
=============================================================================
