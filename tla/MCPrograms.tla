----------------------------- MODULE MCPrograms -----------------------------
(***************************************************************************)
(* Three models for TLC that share no state: the two sides of PingPong,    *)
(* the tasks of ForkJoin, and what Command does to start a program and to  *)
(* judge its row.  They run one after another, each from all its initial   *)
(* states while the others have only one, so that every state of each is   *)
(* reached but no product of two of them.                                  *)
(***************************************************************************)
EXTENDS ForkJoin, PingPong, Command

allVars == <<pingPongVars, vars, commandVars>>

\* No round; nothing to add up; and a program called without a workload.
NoRounds  == trips = 0 /\ every = 1 /\ owned
NoItems   == pattern = "handles" /\ size = 0 /\ ~twice
NoCommand ==
    /\ startedBy = "hand" /\ command.program = "go" /\ command.variants = {}
    /\ command.flags.workload = "" /\ command.flags.threads = 0

MCInit ==
    /\ PingPongInit /\ Init
    /\ NoRounds \/ NoItems
    /\ CommandInit /\ NoCommand

\* Which of the three is at work.
InPingPong == UNCHANGED <<vars, commandVars>>
InForkJoin == Joined /\ UNCHANGED <<pingPongVars, commandVars>>
InCommand  == Joined /\ main = "reported" /\ UNCHANGED <<pingPongVars, vars>>

\* Another initial state of Command, of which there are too many to let each
\* wait for the interleavings of ForkJoin's tasks.
AnyCommand ==
    /\ NoRounds /\ NoItems /\ NoCommand /\ step = "started"
    /\ \/ /\ startedBy' = "runner" /\ step' = "asked" /\ command' = None
          /\ ours' \in BOOLEAN
          /\ asked' \in Requests
       \/ /\ command' \in ByHand
          /\ UNCHANGED <<startedBy, ours, asked, step>>
    /\ UNCHANGED <<args, variants, report, row>>

MCNext ==
    \/ PingPongNext /\ InPingPong
    \/ Next /\ InForkJoin
    \/ (AnyCommand \/ CommandNext) /\ InCommand

(* The fairness of PingPong and of ForkJoin; Command checks safety only.   *)
MCSpec ==
    /\ MCInit /\ [][MCNext]_allVars
    /\ WF_allVars(Ping /\ InPingPong)
    /\ WF_allVars(Pong /\ InPingPong)
    /\ WF_allVars(Main /\ InForkJoin)
    /\ \A t \in Tasks : WF_allVars(Task(t) /\ InForkJoin)
=============================================================================
