------------------------------- MODULE Runner -------------------------------
(***************************************************************************)
(* The measuring loop of runner/run.py: main's loop over configurations,   *)
(* run_config, run_one and verify, and what a report says of the rows that *)
(* reached raw.jsonl, also when the runner was stopped on the way.         *)
(*                                                                         *)
(* A run of a binary ends with a checksum, with an error (a timeout, an    *)
(* exit code, an output that does not parse or that does not echo what was *)
(* asked) or with a deliberate skip.  Nothing is assumed of the order of   *)
(* runs within a round, which the code shuffles.                           *)
(***************************************************************************)
EXTENDS Summary, SequencesExt

CONSTANTS Plans,      \* what the runner may be asked to do: records with
                      \*   impls       the implementations (--impls)
                      \*   configs     the number of configurations
                      \*   warmup      rounds that are not measured (--warmup)
                      \*   reps        rounds that are (--reps)
                      \*   verifiable  whether the checksum can be computed
                      \*   speeds      what a right run may measure
                      \*   skips       whether memory may be too small, or a
                      \*               program skip (none does when asked for cpu)
          Checksums,  \* the checksums a binary may print
          Right,      \* the one a correct binary prints
          NoChecksum  \* the absence of a checksum

ASSUME RunnerAssumption ==
    /\ \A p \in Plans :
          /\ IsFiniteSet(p.impls)
          /\ p.configs \in Nat
          /\ p.warmup \in Nat
          /\ p.reps \in Nat \ {0}
          /\ p.verifiable \in BOOLEAN
          /\ p.speeds \subseteq Nat
          /\ p.skips \in BOOLEAN
    /\ Right \in Checksums
    /\ NoChecksum \notin Checksums

VARIABLES
    plan,     \* what the runner was asked to do
    stage,    \* "next" config, "rounds" of a config, "finished" or "stopped"
    config,   \* the configuration being run
    active,   \* the implementations still run in it
    round,    \* round_no
    todo,     \* what is left of `order` in this round
    rows,     \* raw.jsonl, what is still in the file object's buffer included
    flushed   \* how many rows are in the file

vars == <<plan, stage, config, active, round, todo, rows, flushed>>

Impls  == plan.impls
Rounds == plan.warmup + plan.reps

Row == [impl : Impls, config : 1 .. plan.configs, phase : {"warmup", "measure"},
        round : 0 .. Rounds - 1, status : {"ok", "error", "skipped"},
        checksum : Checksums \cup {NoChecksum}, speed : plan.speeds \cup {0}, valid : {"yes", "no", "unknown"}]

TypeOK ==
    /\ plan \in Plans
    /\ stage \in {"next", "rounds", "finished", "stopped"}
    /\ config \in 1 .. plan.configs + 1
    /\ active \in SUBSET Impls
    /\ round \in 0 .. Rounds - 1
    /\ todo \in SUBSET Impls
    /\ rows \in Seq(Row)
    /\ flushed \in 0 .. Len(rows)

Init ==
    /\ plan \in Plans
    /\ stage = "next"
    /\ config = 1
    /\ active = {}
    /\ round = 0
    /\ todo = {}
    /\ rows = <<>>
    /\ flushed = 0

-----------------------------------------------------------------------------

\* verify
Validity(status, checksum) ==
    IF status # "ok" \/ ~plan.verifiable THEN "unknown"
    ELSE IF checksum = Right THEN "yes" ELSE "no"

\* What run_one may return, verified and labelled.
Results(impl) ==
    {[impl |-> impl, config |-> config,
      phase |-> IF round < plan.warmup THEN "warmup" ELSE "measure", round |-> round,
      status |-> o[1], checksum |-> o[2], speed |-> o[3], valid |-> Validity(o[1], o[2])] :
        o \in ({"ok"} \X {Right} \X plan.speeds) \cup ({"ok"} \X (Checksums \ {Right}) \X {0})
              \cup ((IF plan.skips THEN {"error", "skipped"} ELSE {"error"}) \X {NoChecksum} \X {0})}

\* The row main writes for an implementation that is too big (it has no
\* round; 0 stands for that).
SkipRow(impl) ==
    [impl |-> impl, config |-> config, phase |-> "measure", round |-> 0,
     status |-> "skipped", checksum |-> NoChecksum, speed |-> 0, valid |-> "unknown"]

(* Mistakes.  Each of these is an operation below with one thing wrong,    *)
(* and breaks the property it is named with; none is part of Spec.         *)

\* KillLosesOnlySkips: a row that is not flushed.
RunOneUnflushed(impl) ==
    /\ stage = "rounds"
    /\ impl \in todo
    /\ todo' = todo \ {impl}
    /\ \E r \in Results(impl) :
          /\ rows' = Append(rows, r)
          /\ active' = IF r.status # "ok" \/ r.valid = "no"
                       THEN active \ {impl} ELSE active
    /\ UNCHANGED <<plan, stage, config, round, flushed>>

\* FairRounds: an implementation that failed stays in the game.
RunOneRegardless(impl) ==
    /\ stage = "rounds"
    /\ impl \in todo
    /\ todo' = todo \ {impl}
    /\ \E r \in Results(impl) : rows' = Append(rows, r)
    /\ flushed' = Len(rows')
    /\ UNCHANGED <<plan, stage, config, active, round>>

\* Terminates: rounds go on while anybody is left.
NextRoundForever ==
    /\ stage = "rounds"
    /\ todo = {}
    /\ todo' = active
    /\ UNCHANGED <<plan, stage, config, active, round, rows, flushed>>

-----------------------------------------------------------------------------

\* main: the memory check; the skip rows are written and not flushed.
Prepare ==
    /\ stage = "next"
    /\ config <= plan.configs
    /\ \E tooBig \in SUBSET Impls :
          /\ ~plan.skips => tooBig = {}
          /\ rows' = rows \o SetToSeq({SkipRow(i) : i \in tooBig})
          /\ IF tooBig = Impls
             THEN /\ config' = config + 1
                  /\ UNCHANGED <<plan, stage, active, round, todo>>
             ELSE /\ stage' = "rounds"
                  /\ active' = Impls \ tooBig
                  /\ round' = 0
                  /\ todo' = Impls \ tooBig
                  /\ UNCHANGED config
    /\ UNCHANGED <<plan, flushed>>

\* One run of run_config: the row is written and flushed, and an
\* implementation that was skipped, failed or wrong is not run again.
RunOne(impl) ==
    /\ stage = "rounds"
    /\ impl \in todo
    /\ todo' = todo \ {impl}
    /\ \E r \in Results(impl) :
          /\ rows' = Append(rows, r)
          /\ active' = IF r.status # "ok" \/ r.valid = "no"
                       THEN active \ {impl} ELSE active
    /\ flushed' = Len(rows')
    /\ UNCHANGED <<plan, stage, config, round>>

NextRound ==
    /\ stage = "rounds"
    /\ todo = {}
    /\ round + 1 < Rounds
    /\ round' = round + 1
    /\ todo' = active
    /\ UNCHANGED <<plan, stage, config, active, rows, flushed>>

EndConfig ==
    /\ stage = "rounds"
    /\ todo = {}
    /\ round + 1 = Rounds
    /\ stage' = "next"
    /\ config' = config + 1
    /\ UNCHANGED <<plan, active, round, todo, rows, flushed>>

\* The file is closed and the report is built.
Finish ==
    /\ stage = "next"
    /\ config = plan.configs + 1
    /\ stage' = "finished"
    /\ flushed' = Len(rows)
    /\ UNCHANGED <<plan, config, active, round, todo, rows>>

Running == stage \in {"next", "rounds"}

\* Ctrl-C: the file is closed on the way out, and report.py run by hand.
Interrupt ==
    /\ Running
    /\ stage' = "stopped"
    /\ flushed' = Len(rows)
    /\ UNCHANGED <<plan, config, active, round, todo, rows>>

\* The process is killed: what is in the buffer is lost.
Kill ==
    /\ Running
    /\ stage' = "stopped"
    /\ rows' = SubSeq(rows, 1, flushed)
    /\ UNCHANGED <<plan, config, active, round, todo, flushed>>

Over ==
    /\ ~Running
    /\ UNCHANGED vars

Step ==
    \/ Prepare
    \/ \E impl \in Impls : RunOne(impl)
    \/ NextRound
    \/ EndConfig
    \/ Finish

Next == Step \/ Interrupt \/ Kill \/ Over

Spec == Init /\ [][Next]_vars

(* The runner is never blocked: a run that hangs is ended by its timeout.  *)
FairSpec == Spec /\ WF_vars(Step)

-----------------------------------------------------------------------------

\* Who has run in a configuration, or was skipped in it.
StatusOf(c, impl) == Status(rows, c, impl, plan.reps)

(* An implementation that was skipped, failed or printed a wrong checksum  *)
(* is not run again in its configuration.                                  *)
NoRerun ==
    \A i, j \in DOMAIN rows :
        (i < j /\ rows[i].config = rows[j].config /\ rows[i].impl = rows[j].impl)
            => ~Bad(rows[i])

(* An implementation runs once in every round until it fails, whatever the *)
(* order and whoever else fails: the rounds of its rows are 0, 1, 2...     *)
EachRoundOnce ==
    \A c \in 1 .. plan.configs, impl \in Impls :
        LET group == Group(rows, c, impl)
        IN  {rows[i].round : i \in group} = 0 .. Cardinality(group) - 1

(* The rounds are fair to every implementation.                            *)
FairRounds == TypeOK /\ NoRerun /\ EachRoundOnce

(* A group reported "ok" has every run that was asked for, warm-up runs    *)
(* apart, and none of its runs failed, also when the report is made from   *)
(* what a stopped runner left.                                             *)
OkMeansAllRuns ==
    \A c \in 1 .. plan.configs, impl \in Impls :
        StatusOf(c, impl) = "ok" =>
            LET group == Group(rows, c, impl)
            IN  /\ Cardinality({i \in group : rows[i].phase = "measure"}) = plan.reps
                /\ \A i \in group : ~Bad(rows[i])

(* Every median that is shown is made of runs that computed the same       *)
(* thing: all runs of all groups that are shown printed one checksum, the  *)
(* right one when the runner can tell.                                     *)
ShownAgree ==
    LET groups == {g \in (1 .. plan.configs) \X Impls : Shown(rows, g[1], g[2], plan.reps)}
        shown  == {i \in DOMAIN rows :
                     /\ rows[i].status = "ok"
                     /\ <<rows[i].config, rows[i].impl>> \in groups}
    IN  \E k \in Checksums :
            /\ plan.verifiable => k = Right
            /\ \A i \in shown : rows[i].checksum = k

(* When the runner cannot verify checksums, more than half of the          *)
(* implementations being right, in every run, is enough for the right one  *)
(* to be accepted: a few wrong ones, however often and early they run, are *)
(* not.                                                                    *)
HonestMajorityWins ==
    LET honest == {impl \in Involved(rows) :
                      \A i \in Unverified(rows) :
                          rows[i].impl = impl => rows[i].checksum = Right}
    IN  2 * Cardinality(honest) > Cardinality(Involved(rows)) => Accepted(rows) = {Right}

(* What a killed runner loses are notes of deliberate skips, never a run:  *)
(* every result is in the file before the next run starts.                 *)
KillLosesOnlySkips ==
    \A i \in flushed + 1 .. Len(rows) : rows[i].status = "skipped"

(* A runner that got to its end has something to say of every              *)
(* implementation, and a "partial" one has a failed run to show for it.    *)
CompleteWhenFinished ==
    stage = "finished" =>
        \A c \in 1 .. plan.configs, impl \in Impls :
            /\ StatusOf(c, impl) \notin {"absent", "no data"}
            /\ StatusOf(c, impl) = "partial" =>
                  \E i \in Group(rows, c, impl) : Bad(rows[i])

(* What the report says of an implementation is what happened to it.       *)
NothingMissing == OkMeansAllRuns /\ CompleteWhenFinished

(* Bold goes to one implementation at most, which has a median to show.    *)
BoldIsOne ==
    stage = "finished" =>
        \A c \in 1 .. plan.configs, lowerBetter \in BOOLEAN :
            LET bold == Bold(rows, c, plan.reps, lowerBetter)
            IN  /\ \A b \in bold : b \in Impls /\ Shown(rows, c, b, plan.reps)
                /\ \A a, b \in bold : a = b

(* Bold is earned: it goes to one at most and, with fewer than six runs,   *)
(* each of its runs beats each run of the next best, or of one of those    *)
(* with the next best median, whether more is better or less.              *)
BoldIsEarned ==
    /\ BoldIsOne
    /\ stage = "finished" /\ plan.reps < 6 =>
          \A c \in 1 .. plan.configs, lowerBetter \in BOOLEAN :
              LET bold == Bold(rows, c, plan.reps, lowerBetter)
                  shown == {impl \in Impls : Shown(rows, c, impl, plan.reps)}
                  values(impl) == Values(resolve_unverified(rows), c, impl)
                  Better(x, y) == IF lowerBetter THEN x < y ELSE x > y
              IN  \A b \in bold : \E r \in shown \ {b} :
                      /\ \A a \in shown \ {b} : ~Better(median(values(a)), median(values(r)))
                      /\ \A v \in Range(values(b)), w \in Range(values(r)) : Better(v, w)

(* The interval of every median that is shown, and the one whose coverage  *)
(* the report states, are right for the number of runs they are made of,   *)
(* whichever runs failed.                                                  *)
IntervalsAreRight ==
    stage = "finished" =>
        \A c \in 1 .. plan.configs, impl \in Impls :
            Shown(rows, c, impl, plan.reps) =>
                /\ IntervalIsRight(Runs(resolve_unverified(rows), c, impl))
                /\ IntervalIsRight(plan.reps)

(* "Bold marks a clear best: its {coverage} confidence interval for the    *)
(* median doesn't overlap the next best's" (report.py:395), where the      *)
(* coverage is that of a median of --reps runs.                            *)
BoldCoverage ==
    stage = "finished" =>
        \A c \in 1 .. plan.configs : \A b \in Bold(rows, c, plan.reps, FALSE) :
            coverage(Count(Values(resolve_unverified(rows), c, b))) = coverage(plan.reps)

(* The runner comes to an end, whatever the binaries do.                   *)
Terminates == <>~Running

=============================================================================
