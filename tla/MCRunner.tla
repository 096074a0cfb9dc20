------------------------------ MODULE MCRunner ------------------------------
(***************************************************************************)
(* Runner for TLC: two implementations measured in two configurations,     *)
(* where the checksum is known and memory may be too small; three in one,  *)
(* where the majority has to settle the checksum; two in one, of any       *)
(* speed, for the report to choose from; and one that is run ten times,    *)
(* enough for an interval that leaves out the fastest and the slowest run. *)
(***************************************************************************)
EXTENDS Runner

CONSTANTS i1, i2, i3

MCPlans ==
    {[impls |-> {i1, i2}, configs |-> 2, warmup |-> 1, reps |-> 1,
      verifiable |-> TRUE, speeds |-> {1}, skips |-> TRUE],
     [impls |-> {i1, i2, i3}, configs |-> 1, warmup |-> 0, reps |-> 2,
      verifiable |-> FALSE, speeds |-> {1}, skips |-> FALSE],
     [impls |-> {i1, i2}, configs |-> 1, warmup |-> 0, reps |-> 2,
      verifiable |-> TRUE, speeds |-> 1 .. 4, skips |-> FALSE],
     [impls |-> {i1}, configs |-> 1, warmup |-> 0, reps |-> 10,
      verifiable |-> TRUE, speeds |-> {1}, skips |-> FALSE]}
=============================================================================
