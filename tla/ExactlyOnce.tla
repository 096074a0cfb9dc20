----------------------------- MODULE ExactlyOnce -----------------------------
(***************************************************************************)
(* What every workload of the suite promises, whatever it is built from:   *)
(* the program has a fixed set of units of work (a chunk to hash, a value  *)
(* to move through a channel, a task to run), each unit is accounted for   *)
(* exactly once in the checksum the program prints, and the report is made *)
(* only after all of them have been.  The runner relies on this promise:   *)
(* it recomputes the checksum from the parameters and marks the run        *)
(* invalid when they differ (runner/run.py, verify).                       *)
(*                                                                         *)
(* The units are what the parameters of the run make them, and stay the    *)
(* same while it lasts.  The models of the workloads instantiate this      *)
(* module, each with a refinement mapping.                                 *)
(***************************************************************************)

VARIABLES units,      \* the units of work the run is made of
          accounted,  \* the units whose contribution has been added
          reported    \* whether the report has been made

vars == <<units, accounted, reported>>

TypeOK ==
    /\ accounted \subseteq units
    /\ reported \in BOOLEAN

Init ==
    /\ accounted = {}
    /\ reported = FALSE

\* One unit is added to the checksum, once.
Account(u) ==
    /\ ~reported
    /\ u \in units \ accounted
    /\ accounted' = accounted \cup {u}
    /\ UNCHANGED <<units, reported>>

\* The program prints its report.
Report ==
    /\ ~reported
    /\ accounted = units
    /\ reported' = TRUE
    /\ UNCHANGED <<units, accounted>>

Next ==
    \/ \E u \in units : Account(u)
    \/ Report

Spec == Init /\ [][Next]_vars

FairSpec == Spec /\ WF_vars(Next)
=============================================================================
