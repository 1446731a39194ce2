---------------------------- MODULE RunContract ----------------------------
(***************************************************************************)
(* What a run promises its operator, with no nodes, ledgers or groups: the *)
(* shard has at most one committed result, a final one is never replaced,  *)
(* and whoever waits for the run is told, once, the result that stands at  *)
(* that moment, or that there is none.                                     *)
(***************************************************************************)
CONSTANTS
    Outcomes,     \* how one execution of the job can end
    Final         \* the outcomes after which the work must not be repeated

None == "none"
NoResult == "no result"      \* there is none and none will come
Abandoned == "abandoned"     \* the wait ran out of time

VARIABLES
    committed,    \* the committed result, or None
    told          \* what the waiting operator was told; None while waiting

vars == <<committed, told>>

TypeOK ==
    /\ committed \in Outcomes \cup {None}
    /\ told \in Outcomes \cup {None, NoResult, Abandoned}

Init ==
    /\ committed = None
    /\ told = None

\* An execution ends and its result is committed.
Commit ==
    /\ committed \notin Final
    /\ committed' \in Outcomes
    /\ UNCHANGED told

\* The operator is told the result that is committed.
Report ==
    /\ told = None
    /\ committed # None
    /\ told' = committed
    /\ UNCHANGED committed

\* The operator is told that the run left no result, and at that moment it is so.
ReportNone ==
    /\ told = None
    /\ committed = None
    /\ told' = NoResult
    /\ UNCHANGED committed

\* The operator's patience is spent.
Abandon ==
    /\ told = None
    /\ told' = Abandoned
    /\ UNCHANGED committed

\* The operator waits again (attach).
WaitAgain ==
    /\ told' = None
    /\ UNCHANGED committed

\* The stored result of a run that is over is removed (gc).
Purge ==
    /\ committed' = None
    /\ UNCHANGED told

Next == Commit \/ Report \/ ReportNone \/ Abandon \/ WaitAgain \/ Purge

Spec == Init /\ [][Next]_vars
=============================================================================
