----------------------------- MODULE RunSystem -----------------------------
(***************************************************************************)
(* A batch run of one shard end to end: the shard's group and agent        *)
(* (RunShard) and everything on the operator's side that watches it and    *)
(* tears it down, all of it through the control plane, the bucket and one  *)
(* local state file (saladfingers-cli):                                    *)
(*                                                                         *)
(*   cli     `run`, in the foreground or detached, and a later `attach`    *)
(*   reaper  the detached process `run --detach` leaves behind             *)
(*   cancel  `cancel`, at any moment                                       *)
(*   gc      `gc`, the backstop for groups nobody tears down any more      *)
(*                                                                         *)
(* The group relaunches its container, and bills, until it is deleted.     *)
(* One step is one request, or one update of the state file.               *)
(***************************************************************************)
EXTENDS RunShard

CONSTANTS
    MaxAttempts,    \* spec.max_attempts
    Tolerance,      \* MISSING_GROUP_TOLERANCE
    Lag,            \* polls for which a new group may still answer 404
    MaxAttach,      \* bound: attaches
    MaxApiFaults    \* bound: requests that fail for good

ASSUME SystemAssumption ==
    /\ MaxAttempts \in Nat \ {0}
    /\ Tolerance \in Nat \ {0}
    /\ Lag \in 0 .. Tolerance - 1
    /\ MaxAttach \in Nat
    /\ MaxApiFaults \in Nat

\* What the operator was told: an envelope's status, or why there is none.
Verdict == JobStatus \cup {"none", "failed group", "vanished", "timed out"}

\* `run` and `attach`: the locals of await_shard and where await_and_collect is.
CliPc == {"create", "save", "detached", "fetch", "look", "missing", "grace", "sleep",
          "abort", "collect", "interrupt", "finish", "exited", "crashed"}
Cli == [pc : CliPc, verdict : Verdict, seen : BOOLEAN, polls : 0 .. Tolerance, late : BOOLEAN]

NewCli == [pc |-> "create", verdict |-> "none", seen |-> FALSE, polls |-> 0, late |-> FALSE]

Terminal == {"succeeded", "failed", "cancelled", "reaped"}      \* admin.rs is_terminal
-----------------------------------------------------------------------------
VARIABLES
    cli,
    status,         \* RunState.status in the local file; "none" while there is no file
    reaper, cancel, gc,     \* where those three processes are
    hidden,         \* polls for which the control plane does not show the group yet
    overdue,        \* wait_hard_cap has passed since the group was created
    attaches, apiFaults     \* counted for the bounds

operator == <<cli, status, reaper, cancel, gc>>
systemVars == <<shardVars, operator, hidden, overdue, attaches, apiFaults>>

TypeOK ==
    /\ ShardTypeOK
    /\ cli \in Cli
    /\ status \in {"none", "running"} \cup Terminal
    /\ reaper \in {"none", "wait", "clean", "mark", "gone"}
    /\ cancel \in {"idle", "mark", "done"}
    /\ gc \in {"idle", "delete", "purge", "mark", "done"}
    /\ hidden \in 0 .. Lag
    /\ overdue \in BOOLEAN
    /\ attaches \in Nat /\ apiFaults \in Nat
-----------------------------------------------------------------------------
agentVars == <<result, busy, tries>>

CliGo(p) == cli' = [cli EXCEPT !.pc = p]

\* The process ends; what it told the operator stays.
CliEnds(p) == cli' = [NewCli EXCEPT !.pc = p, !.verdict = cli.verdict]

ApiFault ==
    /\ apiFaults < MaxApiFaults
    /\ apiFaults' = apiFaults + 1

\* delete_group; a 404 counts as deleted.
DeleteAcked == GroupDeleted /\ UNCHANGED apiFaults
DeleteFails == ApiFault /\ (GroupDeleted \/ UNCHANGED group)
DeleteIgnoringErrors == DeleteAcked \/ DeleteFails
-----------------------------------------------------------------------------
(***************************************************************************)
(* run: create the group, claim the run in the local state, maybe detach.  *)
(***************************************************************************)
CreateGroup ==
    /\ cli.pc = "create"
    /\ group' = "live"
    /\ hidden' \in 0 .. Lag
    /\ CliGo("save")
    /\ UNCHANGED <<agentVars, status, reaper, cancel, gc, overdue, attaches,
                   apiFaults>>

\* The error is returned as it is; the request may have been served all the same.
CreateFails ==
    /\ cli.pc = "create"
    /\ ApiFault
    /\ group' \in {"absent", "live"}
    /\ CliEnds("exited")
    /\ UNCHANGED <<agentVars, status, reaper, cancel, gc, hidden, overdue, attaches>>

\* save_state, whose failure is ignored; then await the shard, or spawn_reaper and
\* exit.  The reaper may fail to start, and does so without a state file.
SaveState ==
    /\ cli.pc = "save"
    /\ status' \in {"none", "running"}
    /\ \/ CliGo("fetch") /\ UNCHANGED reaper
       \/ /\ CliGo("detached")
          /\ reaper' \in {"none", "wait"}
          /\ reaper' = "wait" => status' = "running"
    /\ UNCHANGED <<shardVars, cancel, gc, hidden, overdue, attaches, apiFaults>>

Attach ==
    /\ cli.pc \in {"detached", "exited", "crashed"}
    /\ status # "none"
    /\ attaches < MaxAttach
    /\ attaches' = attaches + 1
    /\ cli' = [NewCli EXCEPT !.pc = "fetch"]
    /\ UNCHANGED <<shardVars, status, reaper, cancel, gc, hidden, overdue, apiFaults>>
-----------------------------------------------------------------------------
(***************************************************************************)
(* await_shard: the poll loop.                                             *)
(***************************************************************************)
\* The envelope is there: that is the result, whatever its status.
Found ==
    /\ result # "none"
    /\ cli' = [NewCli EXCEPT !.verdict = result, !.pc = "collect"]
    /\ UNCHANGED apiFaults

\* No envelope, or its GET failed: go to p with verdict v.
NotFoundUnchecked(v, p) ==                      \* mutant: no second look at the bucket
    /\ cli' = [cli EXCEPT !.verdict = v, !.pc = p]
    /\ UNCHANGED apiFaults
NotFound(v, p) ==
    /\ cli' = [cli EXCEPT !.verdict = v, !.pc = p]
    /\ \/ result = "none" /\ UNCHANGED apiFaults
       \/ result # "none" /\ ApiFault

FetchEnvelope ==
    /\ cli.pc = "fetch"
    /\ Found \/ NotFound("none", "look")
    /\ UNCHANGED <<shardVars, status, reaper, cancel, gc, hidden, overdue, attaches>>

Present == group \in {"live", "failed"} /\ hidden = 0

\* get_container_group.
Look ==
    /\ cli.pc = "look"
    /\ \/ /\ Present
          /\ cli' = [cli EXCEPT !.seen = TRUE,
                                !.pc = IF group = "failed" THEN "grace" ELSE "sleep"]
          /\ UNCHANGED <<hidden, apiFaults>>
       \/ /\ ~Present
          /\ cli' = [cli EXCEPT !.polls = IF @ < Tolerance THEN @ + 1 ELSE @, !.pc = "missing"]
          /\ hidden' = IF hidden > 0 THEN hidden - 1 ELSE 0
          /\ UNCHANGED apiFaults
       \/ /\ ApiFault
          /\ CliGo("sleep")
          /\ UNCHANGED hidden
    /\ UNCHANGED <<shardVars, status, reaper, cancel, gc, overdue, attaches>>

GroupIsGoneAtOnce == TRUE                       \* mutant: the first 404 is believed
GroupIsGone == cli.seen \/ cli.polls >= Tolerance

\* ENVELOPE_GRACE after a 404: the job may have finished and been reaped since.
MissingGrace ==
    /\ cli.pc = "missing"
    /\ \/ Found
       \/ GroupIsGone /\ NotFound("vanished", "finish")
       \/ ~GroupIsGone /\ NotFound("none", "sleep")
    /\ UNCHANGED <<shardVars, status, reaper, cancel, gc, hidden, overdue, attaches>>

\* ENVELOPE_GRACE after a failed group, which is kept for forensics.
FailedGrace ==
    /\ cli.pc = "grace"
    /\ Found \/ NotFound("failed group", "finish")
    /\ UNCHANGED <<shardVars, status, reaper, cancel, gc, hidden, overdue, attaches>>

\* The end of an iteration: past the hard cap it bails out.
Sleep ==
    /\ cli.pc = "sleep"
    /\ \/ cli.late /\ cli' = [cli EXCEPT !.verdict = "timed out", !.pc = "abort"]
       \/ ~cli.late /\ CliGo("fetch")
    /\ UNCHANGED <<shardVars, status, reaper, cancel, gc, hidden, overdue, attaches,
                   apiFaults>>
-----------------------------------------------------------------------------
(***************************************************************************)
(* await_and_collect and what follows it.                                  *)
(***************************************************************************)
\* Delete first, then download: the artifacts are in the bucket.
Collect ==
    /\ cli.pc = "collect"
    /\ DeleteIgnoringErrors
    /\ CliEnds("finish")
    /\ UNCHANGED <<agentVars, status, reaper, cancel, gc, hidden, overdue, attaches>>

\* cleanup after an error.
AbortUndeleted ==                               \* mutant: the error is just returned
    /\ cli.pc = "abort"
    /\ CliEnds("finish")
    /\ UNCHANGED <<shardVars, apiFaults, status, reaper, cancel, gc, hidden, overdue, attaches>>
Abort ==
    /\ cli.pc = "abort"
    /\ DeleteIgnoringErrors
    /\ CliEnds("finish")
    /\ UNCHANGED <<agentVars, status, reaper, cancel, gc, hidden, overdue, attaches>>

\* finalize_run, or mark_run_failed after an error.
FinishRaw ==                                    \* mutant: the verdict itself is stored
    /\ cli.pc = "finish"
    /\ status' = IF status = "none" THEN "none" ELSE cli.verdict
    /\ CliEnds("exited")
    /\ UNCHANGED <<shardVars, reaper, cancel, gc, hidden, overdue, attaches, apiFaults>>
Finish ==
    /\ cli.pc = "finish"
    /\ status' = IF status = "none" THEN "none"
                 ELSE IF cli.verdict = "Succeeded" THEN "succeeded" ELSE "failed"
    /\ CliEnds("exited")
    /\ UNCHANGED <<shardVars, reaper, cancel, gc, hidden, overdue, attaches, apiFaults>>

Waiting == {"fetch", "look", "missing", "grace", "sleep"}

\* Ctrl-C while waiting: cleanup, exit 130, and the state file is left alone.
CtrlC ==
    /\ cli.pc \in Waiting
    /\ CliEnds("interrupt")
    /\ UNCHANGED <<shardVars, status, reaper, cancel, gc, hidden, overdue, attaches,
                   apiFaults>>

CleanupInterrupted ==
    /\ cli.pc = "interrupt"
    /\ DeleteIgnoringErrors
    /\ CliEnds("exited")
    /\ UNCHANGED <<agentVars, status, reaper, cancel, gc, hidden, overdue, attaches>>

CliCrash ==
    /\ cli.pc \notin {"create", "detached", "exited", "crashed"}
    /\ CliEnds("crashed")
    /\ UNCHANGED <<shardVars, status, reaper, cancel, gc, hidden, overdue, attaches,
                   apiFaults>>
-----------------------------------------------------------------------------
(***************************************************************************)
(* The detached reaper.                                                    *)
(***************************************************************************)
ReaperPoll ==
    /\ reaper = "wait"
    /\ result # "none" \/ overdue
    /\ reaper' = "clean"
    /\ UNCHANGED <<shardVars, cli, status, cancel, gc, hidden, overdue, attaches, apiFaults>>

ReaperClean ==
    /\ reaper = "clean"
    /\ DeleteIgnoringErrors
    /\ reaper' = "mark"
    /\ UNCHANGED <<agentVars, cli, status, cancel, gc, hidden, overdue, attaches>>

ReaperMark ==
    /\ reaper = "mark"
    /\ status' = IF status = "running" THEN "reaped" ELSE status
    /\ reaper' = "gone"
    /\ UNCHANGED <<shardVars, cli, cancel, gc, hidden, overdue, attaches, apiFaults>>

\* The operator's machine goes down, or the process is killed.
ReaperDies ==
    /\ reaper \in {"wait", "clean", "mark"}
    /\ reaper' = "gone"
    /\ UNCHANGED <<shardVars, cli, status, cancel, gc, hidden, overdue, attaches, apiFaults>>
-----------------------------------------------------------------------------
(***************************************************************************)
(* cancel and gc.                                                          *)
(***************************************************************************)
\* A failed DELETE ends the command loudly and leaves the status as it is.
CancelDelete ==
    /\ cancel = "idle"
    /\ cli.pc # "create"
    /\ \/ DeleteAcked /\ cancel' = "mark"
       \/ DeleteFails /\ cancel' = "done"
    /\ UNCHANGED <<agentVars, cli, status, reaper, gc, hidden, overdue, attaches>>

CancelMark ==
    /\ cancel = "mark"
    /\ status' = IF status = "none" THEN "none" ELSE "cancelled"
    /\ cancel' = "done"
    /\ UNCHANGED <<shardVars, cli, reaper, gc, hidden, overdue, attaches, apiFaults>>

\* Candidates: groups of no tracked or of a terminal run, and of an active run past
\* its hard cap; a group whose state is about to be saved is younger than older_than.
GcCandidate ==
    /\ group \in {"live", "failed"}
    /\ status \in Terminal \cup {"none"} \/ overdue
    /\ cli.pc # "save"

\* The list is shown, and confirmed by hand some time later.
GcScan ==
    /\ gc = "idle"
    /\ GcCandidate
    /\ gc' = "delete"
    /\ UNCHANGED <<shardVars, cli, status, reaper, cancel, hidden, overdue, attaches, apiFaults>>

GcDelete ==
    /\ gc = "delete"
    /\ \/ DeleteAcked /\ gc' = "purge"
       \/ DeleteFails /\ gc' = "done"
    /\ UNCHANGED <<agentVars, cli, status, reaper, cancel, hidden, overdue, attaches>>

\* Remove everything under runs/<run_id>/; what cannot be removed stays.
GcPurge ==
    /\ gc = "purge"
    /\ result' \in {"none", result}
    /\ gc' = "mark"
    /\ UNCHANGED <<group, busy, tries, cli, status, reaper,
                   cancel, hidden, overdue, attaches, apiFaults>>

GcMark ==
    /\ gc = "mark"
    /\ status' = IF status \in Terminal \cup {"none"} THEN status ELSE "reaped"
    /\ gc' = "done"
    /\ UNCHANGED <<shardVars, cli, reaper, cancel, hidden, overdue, attaches, apiFaults>>
-----------------------------------------------------------------------------
(***************************************************************************)
(* Time.                                                                   *)
(***************************************************************************)
HardCapPasses ==
    /\ group # "absent" /\ ~overdue
    /\ overdue' = TRUE
    /\ UNCHANGED <<shardVars, operator, hidden, attaches, apiFaults>>

\* The wait itself began later than the group.
WaitPastHardCap ==
    /\ cli.pc \in Waiting /\ overdue /\ ~cli.late
    /\ cli' = [cli EXCEPT !.late = TRUE]
    /\ UNCHANGED <<shardVars, status, reaper, cancel, gc, hidden, overdue, attaches,
                   apiFaults>>
-----------------------------------------------------------------------------
Init ==
    /\ ShardInit
    /\ group = "absent"
    /\ cli = NewCli
    /\ status = "none"
    /\ reaper = "none" /\ cancel = "idle" /\ gc = "idle"
    /\ hidden = 0
    /\ overdue = FALSE
    /\ attaches = 0 /\ apiFaults = 0

CliStep ==
    \/ CreateGroup \/ SaveState \/ FetchEnvelope \/ Look \/ MissingGrace \/ FailedGrace \/ Sleep
    \/ Collect \/ Abort \/ Finish \/ CleanupInterrupted
ReaperStep == ReaperPoll \/ ReaperClean \/ ReaperMark
ShardRuns == ShardStep /\ UNCHANGED <<operator, hidden, overdue, attaches, apiFaults>>

Next ==
    \/ CliStep \/ CreateFails \/ Attach \/ CtrlC \/ CliCrash
    \/ ReaperStep \/ ReaperDies
    \/ CancelDelete \/ CancelMark \/ GcScan \/ GcDelete \/ GcPurge \/ GcMark
    \/ HardCapPasses \/ WaitPastHardCap
    \/ ShardRuns

Spec == Init /\ [][Next]_systemVars

\* A process that has not been killed goes on, and time passes.  Nothing is assumed
\* of the shard, of the operator (attach, cancel, gc, Ctrl-C) or of failures.
FairSpec ==
    /\ Spec
    /\ WF_systemVars(CliStep) /\ WF_systemVars(ReaperStep)
    /\ WF_systemVars(HardCapPasses) /\ WF_systemVars(WaitPastHardCap)
-----------------------------------------------------------------------------
\* Once the local state calls a run over, so that nothing watches it any more, its
\* group no longer bills, unless a DELETE really failed: whichever of run, attach,
\* reaper, cancel and gc got there first (cli runner.rs mark_run_failed: "flip a run's
\* local status to a terminal state after its group has been torn down").
OverMeansTornDown == (status \in Terminal /\ group = "live") => apiFaults > 0

\* The verdict is what RunContract allows: the result that stands, never one that is
\* not there, "no result" only when there is none, and a final result is never replaced.
\* The one step let off is a wait that ends on a GET of the envelope that failed.
Told ==
    CASE cli.verdict \in {"failed group", "vanished"} -> "no result"
      [] cli.verdict = "timed out" -> "abandoned"
      [] OTHER -> cli.verdict
Contract == INSTANCE RunContract WITH
                Outcomes <- JobStatus, Final <- TerminalForResume,
                committed <- result, told <- Told
Misread == Told' = "no result" /\ apiFaults' > apiFaults
ImplementsContract == Contract!Init /\ [][Contract!Next \/ Misread]_(Contract!vars)

\* Whoever is told that a run wrote no result can rely on it ("no envelope ever
\* appeared", cli runner.rs ShardOutcome::Vanished).
NoResultIsTrue == [][Told' = "no result" /\ Told # "no result" => result = "none"]_systemVars

\* Nobody is left to tear the group down: the foreground process was killed, or a
\* detached run has no reaper.
Unattended ==
    /\ cli.pc \in {"detached", "crashed"}
    /\ reaper \in {"none", "gone"}

\* A billing group is torn down in the end even if its agent never reports, as long as
\* a process watches it and DELETE works ("so its group is torn down instead of billing
\* forever", cli runner.rs wait_hard_cap).
BillingEnds == (group = "live") ~> (group # "live" \/ apiFaults > 0 \/ Unattended)

\* A node that was interrupted, or an agent that failed, costs a relaunch: the run ends
\* on it only when its attempts are spent ("Interrupted envelopes are exempt: retrying
\* them IS the reallocation / checkpoint-resume story" and "Failing costs one relaunch
\* cycle, bounded by the attempt cap above", agent run.rs).
UnfinishedIsRetried == cli.verdict \in {"Interrupted", "AgentError"} => tries >= MaxAttempts
=============================================================================
