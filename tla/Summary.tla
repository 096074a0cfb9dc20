------------------------------- MODULE Summary -------------------------------
(***************************************************************************)
(* What runner/report.py makes of the rows of raw.jsonl: resolve_unverified*)
(* settles the runs whose checksum the runner could not verify, and        *)
(* summarise gives each implementation of each configuration its status.   *)
(*                                                                         *)
(* A row is a record with the fields                                       *)
(*   impl, config, phase ("warmup" or "measure"), round,                   *)
(*   status ("ok", "error" or "skipped"), checksum, speed (ops_per_sec),   *)
(*   and valid: "yes", "no", or "unknown" for the code's None.             *)
(* The configurations are the thread counts of one workload and size: one  *)
(* "case" of resolve_unverified.                                           *)
(***************************************************************************)
EXTENDS Statistics, Sequences

\* The rows resolve_unverified settles, and the implementations among them.
Unverified(rows) ==
    {i \in DOMAIN rows : rows[i].status = "ok" /\ rows[i].valid = "unknown"}

Involved(rows) == {rows[i].impl : i \in Unverified(rows)}

Reported(rows) == {rows[i].checksum : i \in Unverified(rows)}

\* The implementations that reported checksum k at least once.
Voters(rows, k) ==
    {rows[i].impl : i \in {j \in Unverified(rows) : rows[j].checksum = k}}

\* Where checksum k entered the dictionary.
FirstRow(rows, k) ==
    CHOOSE i \in Unverified(rows) :
        /\ rows[i].checksum = k
        /\ \A j \in Unverified(rows) : rows[j].checksum = k => i <= j

\* max(...) over the dictionary: the first of those with the most voters.
Winner(rows) ==
    CHOOSE k \in Reported(rows) :
        \A m \in Reported(rows) \ {k} :
            \/ Cardinality(Voters(rows, m)) < Cardinality(Voters(rows, k))
            \/ /\ Cardinality(Voters(rows, m)) = Cardinality(Voters(rows, k))
               /\ FirstRow(rows, k) < FirstRow(rows, m)

\* Mistakes.  Each of these is an operator below with one thing wrong, and
\* breaks the property it is named with.

\* HonestMajorityWins: the checksum that was seen first.
FirstReported(rows) ==
    {k \in Reported(rows) :
        \A m \in Reported(rows) : FirstRow(rows, k) <= FirstRow(rows, m)}

\* NothingMissing: warm-up runs count.
GoodInAnyPhase(row) == row.status = "ok" /\ row.valid = "yes"

\* The checksum that is accepted, as a set: none without a majority.
Accepted(rows) ==
    {k \in Reported(rows) :
        /\ 2 * Cardinality(Voters(rows, k)) > Cardinality(Involved(rows))
        /\ k = Winner(rows)}

resolve_unverified(rows) ==
    LET unverified == Unverified(rows)
        accepted   == Accepted(rows)
    IN  [i \in DOMAIN rows |->
            IF i \in unverified
            THEN [rows[i] EXCEPT !.valid =
                     IF rows[i].checksum \in accepted THEN "yes" ELSE "no"]
            ELSE rows[i]]

-----------------------------------------------------------------------------
(* summarise, for the rows of one group; rows are resolved before.         *)

Group(rows, config, impl) ==
    {i \in DOMAIN rows : rows[i].config = config /\ rows[i].impl = impl}

Good(row) == row.phase = "measure" /\ row.status = "ok" /\ row.valid = "yes"

Bad(row) == row.status # "ok" \/ row.valid = "no"

\* What the medians are made of, and of how many measured runs.
Values(rows, config, impl) ==
    [i \in {j \in Group(rows, config, impl) : Good(rows[j])} |-> rows[i].speed]

Runs(rows, config, impl) == Count(Values(rows, config, impl))

\* The first bad row of a group.
FirstBad(rows, group) ==
    CHOOSE i \in group :
        Bad(rows[i]) /\ \A j \in group : Bad(rows[j]) => i <= j

\* ShownAgree: a wrong checksum discredits its own run only.
StatusForgiving(unresolved, config, impl, reps) ==
    LET rows == resolve_unverified(unresolved)
        runs == Runs(rows, config, impl)
    IN  IF runs = 0 THEN "invalid" ELSE IF runs < reps THEN "partial" ELSE "ok"

\* The status of a group; "absent" when no row of it exists.
Status(unresolved, config, impl, reps) ==
    LET rows  == resolve_unverified(unresolved)
        group == Group(rows, config, impl)
        runs  == Runs(rows, config, impl)
    IN  IF group = {} THEN "absent"
        ELSE IF \E i \in group : rows[i].valid = "no" THEN "invalid"
        ELSE IF runs = 0
             THEN IF \E i \in group : Bad(rows[i])
                  THEN rows[FirstBad(rows, group)].status
                  ELSE "no data"
        ELSE IF runs < reps THEN "partial"
        ELSE "ok"

\* Whether the report shows a median for the group.
Shown(rows, config, impl, reps) == Status(rows, config, impl, reps) \in {"ok", "partial"}

\* The implementation in bold, as a set; lowerBetter for latencies and memory.
Bold(unresolved, config, reps, lowerBetter) ==
    LET rows  == resolve_unverified(unresolved)
        shown == {impl \in {rows[i].impl : i \in DOMAIN rows} : Shown(unresolved, config, impl, reps)}
    IN  clear_best([impl \in shown |-> Values(rows, config, impl)], lowerBetter)
=============================================================================
