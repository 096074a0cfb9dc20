------------------------------ MODULE Command -------------------------------
(***************************************************************************)
(* From what is asked of the suite to the row it is judged by: the runner  *)
(* (run.py) makes a command line of an implementation, "tokio+batch", and  *)
(* a test case, "mpmc-cap1"; the program started parses it, checks its     *)
(* variants with a table of its own and runs a workload; and run_one and   *)
(* verify compare what came out with what was asked.  With --no-build the  *)
(* program may be another build than this source's, with one thing         *)
(* different: an argument, or what it makes of --variant.  It is taken at  *)
(* its word, as run_one takes it: what it prints is what it ran, though it *)
(* may not print it all.  A program may also be started by hand, with any  *)
(* --variant.                                                              *)
(*                                                                         *)
(* Variants are a set; the order in which they are named decides only      *)
(* which complaint comes first, and is left open.  No name here is one of  *)
(* Runner's, so that one module can extend both.                           *)
(***************************************************************************)
EXTENDS Harness, FiniteSets

CONSTANTS MaxVariants,      \* how many variants are combined
          Sizes,            \* values of --size, a u64
          Threads,          \* --threads
          MAX_OS_THREADS,   \* crossbeam's cap, 20,000 in the code
          CpuTasks,         \* --tasks and --rounds of cpu, 256 and 32 in the
          CpuRounds,        \* runner's table and in the programs' defaults
          CpuBlock          \* items in a block of cpu_checksum (2^20)

ASSUME CommandAssumption ==
  /\ MaxVariants \in Nat /\ Sizes \subseteq 0 .. Word - 1 /\ MAX_OS_THREADS \in Nat
  /\ Threads \in Nat \ {0} /\ CpuBlock \in Nat \ {0}
  /\ CpuTasks \in Nat \ {0} /\ CpuRounds \in Nat

Workloads == {"spsc", "mpsc", "mpmc", "pingpong", "spawn", "cpu", "select", "mutex", "idle"}

-----------------------------------------------------------------------------
(* The tables of the runner.                                               *)

\* None, "every workload", is the set of them all.
TOKIO_VARIANTS ==
  [ mimalloc      |-> Workloads,
    batch         |-> {"spsc", "mpsc", "mpmc", "select"},
    unconstrained |-> {"spsc", "select", "pingpong", "mutex"},
    kanal         |-> {"spsc", "mpsc", "mpmc", "pingpong"},
    flume         |-> {"spsc", "mpsc", "mpmc", "pingpong"},
    join          |-> {"spsc", "pingpong"},
    nohandles     |-> {"spawn"},
    biased        |-> {"select"},
    stdmutex      |-> {"mutex"},
    parkinglot    |-> {"mutex"} ]

WORKLOAD_PARAMS ==
  [ spsc      |-> [capacity |-> 1024],
    spsc_cap1 |-> [capacity |-> 1],
    mpsc      |-> [capacity |-> 1024, producers |-> 4],
    mpsc_cap1 |-> [capacity |-> 1, producers |-> 4],
    mpmc      |-> [capacity |-> 1024, producers |-> 4, consumers |-> 4],
    mpmc_cap1 |-> [capacity |-> 1, producers |-> 4, consumers |-> 4],
    pingpong  |-> [sample_every |-> 17],
    spawn     |-> <<>>,
    cpu       |-> [tasks |-> CpuTasks, rounds |-> CpuRounds],
    select    |-> [capacity |-> 1024],
    select_cap1 |-> [capacity |-> 1],
    mutex     |-> [workers |-> 8],
    idle      |-> [settle_ms |-> 200] ]

CASE_WORKLOAD == [spsc_cap1 |-> "spsc", mpsc_cap1 |-> "mpsc", mpmc_cap1 |-> "mpmc",
                  select_cap1 |-> "select"]

program_workload(case) == IF case \in DOMAIN CASE_WORKLOAD THEN CASE_WORKLOAD[case] ELSE case

-----------------------------------------------------------------------------
(* The tables of the programs.                                             *)

Defaults == [capacity |-> 1024, producers |-> 4, consumers |-> 4, workers |-> 8,
             tasks |-> CpuTasks, rounds |-> CpuRounds, sample_every |-> 17, settle_ms |-> 200]

\* A mistake (NameSaysWhatRuns): the program's table falls behind.
VariantsBehind == [v \in DOMAIN TOKIO_VARIANTS \ {"mimalloc"} |->
                     TOKIO_VARIANTS[v] \ (IF v = "unconstrained" THEN {"mutex"} ELSE {})]

\* The allocator is not in it: it is another binary.
VARIANTS ==
  [ batch         |-> {"spsc", "mpsc", "mpmc", "select"},
    unconstrained |-> {"spsc", "select", "pingpong", "mutex"},
    kanal         |-> {"spsc", "mpsc", "mpmc", "pingpong"},
    flume         |-> {"spsc", "mpsc", "mpmc", "pingpong"},
    join          |-> {"spsc", "pingpong"},
    nohandles     |-> {"spawn"},
    biased        |-> {"select"},
    stdmutex      |-> {"mutex"},
    parkinglot    |-> {"mutex"} ]

CONFLICTS == {{"kanal", "flume"}, {"stdmutex", "parkinglot"}}

VariantPrograms == {"variants", "variants-mimalloc"}
Programs == {"tokio", "crossbeam", "go", "tuned", "tuned-tokio"} \cup VariantPrograms

VARIABLES
  startedBy,  \* "runner" or "hand"
  ours,       \* whether the program is built from this source
  asked,      \* what the runner is asked for: implementation, case and size
  command,    \* the program, its --variant list, and its other flags
  step,       \* "asked", "started", "parsed", "checked", "ended"
  args,       \* the Args the program runs with, but for
  variants,   \* its Args.variants
  report,     \* how the program ended, and what it printed
  row         \* what the runner made of it

commandVars == <<startedBy, ours, asked, command, step, args, variants, report, row>>

None == [none |-> TRUE]

\* What f says, and what g says where f says nothing.
Overlay(f, g) == [x \in DOMAIN f \cup DOMAIN g |-> IF x \in DOMAIN f THEN f[x] ELSE g[x]]

SmallSubsets(S) == {s \in SUBSET S : Cardinality(s) <= MaxVariants}

\* pick_impls: only tokio has variants, and a variant must be in the table.
Implementations ==
  [base : {"tokio", "crossbeam", "go", "tuned", "tuned-tokio"}, variants : {{}}]
  \cup [base : {"tokio"}, variants : SmallSubsets(DOMAIN TOKIO_VARIANTS)]

\* By hand one flag may be 0, and a variant misspelt.
HandFlags(w) ==
  LET given == [workload |-> w, size |-> CHOOSE n \in Sizes : n > 0, threads |-> Threads]
  IN  {given} \cup {Overlay([x \in {k} |-> 0], given) :
                      k \in {"threads", "capacity", "producers", "consumers", "workers",
                             "tasks", "sample_every"}}

\* What the runner is asked for, and how a program is started by hand.
Requests == [impl : Implementations, case : DOMAIN WORKLOAD_PARAMS, size : Sizes]
ByHand   == [program : Programs, variants : SmallSubsets(DOMAIN VARIANTS \cup {"misspelt"}),
             flags : UNION {HandFlags(w) : w \in Workloads \cup {"", "misspelt"}}]

CommandInit ==
  /\ args = None /\ variants = {} /\ report = None /\ row = None
  /\ \/ /\ startedBy = "runner" /\ step = "asked" /\ command = None
        /\ ours \in BOOLEAN
        /\ asked \in Requests
     \/ /\ startedBy = "hand" /\ step = "started" /\ asked = None
        /\ ours = TRUE
        /\ command \in ByHand

-----------------------------------------------------------------------------
Goto(s) == step' = s /\ UNCHANGED <<startedBy, ours, asked>>

Ends(how) == report' = [status |-> how] /\ Goto("ended") /\ UNCHANGED <<command, args, variants, row>>

(* The runner: resolve_impl and bench_command.                             *)

\* resolve_impl gives None when a variant is not for this workload.
Applicable ==
  \A v \in asked.impl.variants : program_workload(asked.case) \in TOKIO_VARIANTS[v]

resolve_impl ==
  CASE asked.impl.variants = {} -> asked.impl.base
    [] "mimalloc" \in asked.impl.variants -> "variants-mimalloc"
    [] OTHER -> "variants"

NotApplicable == step = "asked" /\ ~Applicable /\ Ends("not applicable")

bench_command ==
  /\ step = "asked" /\ Applicable
  /\ command' = [program  |-> resolve_impl,
                 variants |-> asked.impl.variants \ {"mimalloc"},
                 flags    |-> Overlay(WORKLOAD_PARAMS[asked.case],
                                      [workload |-> program_workload(asked.case),
                                       size |-> asked.size, threads |-> Threads])]
  /\ Goto("started") /\ UNCHANGED <<args, variants, report, row>>

-----------------------------------------------------------------------------
(* The program: Args::parse, and check_variants where there are any.       *)

Flags == [Overlay(command.flags, Defaults) EXCEPT !.sample_every = IF @ = 0 THEN 1 ELSE @]

\* Go has no --variant.
BadFlags ==
  \/ command.program = "go" /\ command.variants # {}
  \/ Flags.workload = ""
  \/ \E k \in {"threads", "producers", "consumers", "workers", "tasks"} : Flags[k] = 0

ParseFails == step = "started" /\ BadFlags /\ Ends("failed")

Parse ==
  /\ step = "started" /\ ~BadFlags
  /\ args' = Flags /\ variants' = command.variants
  /\ Goto("parsed") /\ UNCHANGED <<command, report, row>>

\* What another build may run instead: other work, or --variant is ignored,
\* or taken for variants that were not asked for or that it does not know.
OneThingElse == {[Flags EXCEPT ![k] = @ + 1] : k \in DOMAIN Flags \ {"workload"}}
                \cup {[Flags EXCEPT !.workload = w] : w \in Workloads}

OtherVariants == SmallSubsets(DOMAIN VARIANTS \cup {"misspelt"})

ParseElse ==
  /\ step = "started" /\ ~BadFlags /\ ~ours
  /\ \/ args' \in OneThingElse /\ variants' = command.variants
     \/ args' = Flags /\ command.variants # {} /\ variants' \in OtherVariants
  /\ Goto("parsed") /\ UNCHANGED <<command, report, row>>

\* The variants that are looked at; the other programs have none.
Switches == IF command.program \in VariantPrograms THEN variants ELSE {}

EachApplies == \A v \in Switches : v \in DOMAIN VARIANTS /\ args.workload \in VARIANTS[v]
Conflicting == \E pair \in CONFLICTS : pair \subseteq Switches

UnknownVariant ==
  /\ step = "parsed" /\ ~(Switches \subseteq DOMAIN VARIANTS)
  /\ Ends("failed")

CheckedOk ==
  /\ step = "parsed" /\ EachApplies /\ ~Conflicting
  /\ Goto("checked") /\ UNCHANGED <<command, args, variants, report, row>>

-----------------------------------------------------------------------------
(* The workload.                                                           *)

\* The parameters a workload reads, and those it divides by.
Reads(w) ==
  CASE w \in {"spsc", "select"} -> {"capacity"}
    [] w = "mpsc" -> {"capacity", "producers"}
    [] w = "mpmc" -> {"capacity", "producers", "consumers"}
    [] w = "pingpong" -> {"sample_every"}
    [] w = "cpu" -> {"tasks", "rounds"}
    [] w = "mutex" -> {"workers"}
    [] w = "idle" -> {"settle_ms"}
    [] OTHER -> {}

Divides(w) == Reads(w) \cap {"producers", "sample_every", "tasks", "workers"}

\* The channel asked for, or the workload's own, and those with_channel! has an arm for.
chan(w) ==
  CASE "kanal" \in Switches -> "kanal"
    [] Switches \cap {"kanal", "flume"} = {"flume"} -> "flume"
    [] command.program \in {"crossbeam", "go"} -> command.program
    [] command.program = "tuned" /\ w # "select" -> "kanal"
    [] OTHER -> IF w = "mpmc" THEN "async-channel" ELSE "tokio"

Kinds(w) == {"kanal", "flume"} \cup IF w = "mpmc" THEN {"async-channel"} ELSE {"tokio"}

\* The switches each workload looks at: has("batch"), spawn_on, pair, chan.
LooksAt(w) ==
  CASE w = "spsc" -> {"batch", "unconstrained", "join", chan(w)}
    [] w \in {"mpsc", "mpmc"} -> {"batch", "unconstrained", chan(w)}
    [] w = "pingpong" -> {"unconstrained", "join", chan(w)}
    [] w = "spawn" -> {"nohandles"}
    [] w = "select" -> {"batch", "biased", "unconstrained"}
    [] w = "mutex" -> {"unconstrained", IF "stdmutex" \in Switches THEN "stdmutex" ELSE "parkinglot"}
    [] OTHER -> {}

TooManyThreads ==
  /\ command.program = "crossbeam" /\ args.workload \in {"spawn", "idle"}
  /\ args.size > MAX_OS_THREADS

\* A division by zero, unreachable!, or a channel that cannot have a capacity of 0.
Panics ==
  LET w == args.workload IN
    \/ \E p \in Divides(w) : args[p] = 0
    \/ command.program \in VariantPrograms /\ w \in {"spsc", "mpsc", "mpmc", "pingpong"}
       /\ chan(w) \notin Kinds(w)
    \/ "capacity" \in Reads(w) /\ args.capacity = 0 /\ chan(w) \in {"tokio", "async-channel"}

\* What the workload adds up.
checksum ==
  LET n == args.size
      Values(lo, hi) == SumFunction([v \in lo .. hi - 1 |-> v])
      Sent(k) == SumFunction([p \in 0 .. k - 1 |-> Values(p * (n \div k), (p + 1) * (n \div k))])
  IN  (CASE args.workload \in {"spsc", "spawn"} -> Values(0, n)
         [] args.workload \in {"mpsc", "mpmc"} -> Sent(args.producers)
         [] args.workload = "pingpong" -> 2 * n
         [] args.workload = "select" -> Sent(2)
         [] args.workload = "mutex" -> SumFunction([w \in 0 .. args.workers - 1 |-> n \div args.workers])
         [] args.workload = "idle" -> n
         [] args.workload = "cpu" ->
              SumFunction([c \in 0 .. args.tasks - 1 |->
                             cpu_range(chunk_bounds(n, args.tasks, c), args.rounds)]))
      % Word

\* The parameters as they are printed; another build may leave out one that it
\* reads, or all of them.
Echoes ==
  {[p \in DOMAIN Defaults \ gone |-> args[p]] :
     gone \in {{}} \cup IF ours THEN {}
                       ELSE {DOMAIN Defaults} \cup {{p} : p \in Reads(args.workload)}}

\* The report, with the variants in its name and those that changed what ran.
Prints(status, sum) ==
  LET allocator == IF command.program = "variants-mimalloc" THEN {"mimalloc"} ELSE {}
  IN  /\ report' \in [status : {status}, checksum : {sum},
                      echoed : Echoes,
                      label  : {Switches \cup allocator},
                      acting : {(Switches \cap LooksAt(args.workload)) \cup allocator}]
      /\ Goto("ended") /\ UNCHANGED <<command, args, variants, row>>

WrongWorkload ==
  /\ step = "parsed"
  /\ \E v \in Switches \cap DOMAIN VARIANTS : args.workload \notin VARIANTS[v]
  /\ Prints("skipped", 0)

Conflict == step = "parsed" /\ EachApplies /\ Conflicting /\ Prints("skipped", 0)

UnknownWorkload == step = "checked" /\ args.workload \notin Workloads /\ Ends("failed")

Capped == step = "checked" /\ TooManyThreads /\ Prints("skipped", 0)

Panic == step = "checked" /\ Panics /\ Ends("panicked")

Run ==
  /\ step = "checked" /\ args.workload \in Workloads /\ ~TooManyThreads /\ ~Panics
  /\ Prints("ok", checksum)

-----------------------------------------------------------------------------
(* The runner again: run_one and verify.                                   *)

cpu_checksum(size, rounds) ==
  SumFunction([lo \in {b \in 0 .. size - 1 : b % CpuBlock = 0} |->
                 cpu_range(lo .. Lesser(size, lo + CpuBlock) - 1, rounds)]) % Word

expected_checksum(w, size, params) ==
  LET triangle(k) == ((k * (k - 1)) \div 2) % Word
  IN  CASE w \in {"spsc", "spawn"} -> triangle(size)
        [] w \in {"mpsc", "mpmc"} -> triangle((size \div params.producers) * params.producers)
        [] w = "pingpong" -> (2 * size) % Word
        [] w = "select" -> triangle((size \div 2) * 2)
        [] w = "mutex" -> (size \div params.workers) * params.workers
        [] w = "idle" -> size
        [] w = "cpu" -> cpu_checksum(size, params.rounds)

\* A mistake (AcceptedRanAsAsked): the parameters are not compared.
SameWork ==
  /\ args.workload = program_workload(asked.case)
  /\ args.size = asked.size /\ args.threads = Threads

\* What was printed is what was asked for.
AsAsked ==
  LET wanted == WORKLOAD_PARAMS[asked.case] IN
    /\ args.workload = program_workload(asked.case)
    /\ args.size = asked.size /\ args.threads = Threads
    /\ \A p \in DOMAIN wanted : p \in DOMAIN report.echoed /\ report.echoed[p] = wanted[p]

\* The checksum of a cpu run cannot be told without numpy.
verify ==
  LET w == program_workload(asked.case)
      expected == expected_checksum(w, asked.size, WORKLOAD_PARAMS[asked.case])
  IN  {IF report.checksum = expected THEN "valid" ELSE "wrong"}
      \cup IF w = "cpu" THEN {"unverified"} ELSE {}

run_one ==
  /\ step = "ended" /\ startedBy = "runner" /\ row = None
  /\ report.status # "not applicable"
  /\ row' \in IF report.status \in {"failed", "panicked"} \/ ~AsAsked
              THEN {[status |-> "error", valid |-> "unverified"]}
              ELSE [status : {report.status},
                    valid  : IF report.status = "ok" THEN verify ELSE {"unverified"}]
  /\ UNCHANGED <<startedBy, ours, asked, command, step, args, variants, report>>

CommandDone ==
  /\ step = "ended"
  /\ startedBy = "hand" \/ row # None \/ report.status = "not applicable"
  /\ UNCHANGED commandVars

CommandNext ==
  \/ NotApplicable \/ bench_command
  \/ ParseFails \/ Parse \/ ParseElse
  \/ UnknownVariant \/ WrongWorkload \/ Conflict \/ CheckedOk
  \/ UnknownWorkload \/ Capped \/ Panic \/ Run
  \/ run_one \/ CommandDone

CommandSpec == CommandInit /\ [][CommandNext]_commandVars

-----------------------------------------------------------------------------
(* The two tables of variants and the branches of nine workloads agree     *)
(* (run.py:42, "must match VARIANTS in its lib.rs").  What the runner      *)
(* starts never fails, and is skipped only for a conflict or for the cap   *)
(* on threads; no flags make a program divide by zero or ask for a channel *)
(* it has not, but for --capacity 0 by hand; and what runs, whoever        *)
(* started it, runs every variant that its report names: one that is       *)
(* ignored would be charted as a tweak that makes no difference.  All this *)
(* is about programs of this source.                                       *)
NameSaysWhatRuns ==
  step = "ended" /\ ours =>
    /\ startedBy = "runner" =>
         \/ report.status \in {"ok", "not applicable"}
         \/ report.status = "skipped" /\ (Conflicting \/ TooManyThreads)
    /\ report.status = "panicked" => startedBy = "hand" /\ args.capacity = 0
    /\ report.status = "ok" => report.acting = report.label

(* A row that is accepted is of a run of the workload, the size, the       *)
(* threads and every parameter that the workload reads that were asked     *)
(* for, also where the program is another build with defaults of its own,  *)
(* which may print less than this one.  So all implementations of a case   *)
(* are compared on the same work.  Of this source, the variants that ran   *)
(* are those that were asked for, too.                                     *)
AcceptedRanAsAsked ==
  row # None /\ row.status = "ok" =>
    /\ args.workload = program_workload(asked.case)
    /\ args.size = asked.size /\ args.threads = Threads
    /\ ours => report.acting = asked.impl.variants
    /\ \A p \in Reads(args.workload) :
         /\ p \in DOMAIN WORKLOAD_PARAMS[asked.case]
         /\ args[p] = WORKLOAD_PARAMS[asked.case][p]

(* run_one accepts no row before it has made "sure the binary ran what was *)
(* asked" (run.py:435), the variants included.  It does not make sure of   *)
(* those: another build that ignores --variant, or takes it for another    *)
(* one, and says so in its name, is recorded under the name asked for.     *)
VariantsRanAsAsked ==
  row # None /\ row.status = "ok" => report.acting = asked.impl.variants

(* The closed forms of the runner are what the programs add up: no correct *)
(* run is marked wrong, whether or not the producers, the workers and the  *)
(* chunks divide the size, when the sum wraps and when there is nothing.   *)
ChecksumAsExpected == row # None => row.valid # "wrong"

=============================================================================
