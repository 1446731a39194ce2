---------------------------- MODULE SessionLife ----------------------------
(***************************************************************************)
(* An interactive session from `session create` to its deletion: the       *)
(* container group on the platform, which relaunches its container at      *)
(* every exit and bills until it is stopped or deleted, and the processes  *)
(* of the CLI that share it and one state file (session.rs, runner.rs):    *)
(*   create  `session create`                                              *)
(*   reaper  the detached `reap` it leaves behind, session branch          *)
(*   stop    `session stop`, rm `session rm`, each at any moment           *)
(* One step is one request, or one load or save of the state file.         *)
(***************************************************************************)
EXTENDS Naturals

CONSTANTS
    MaxBoots,         \* bound: containers the platform starts
    MaxSessionFaults  \* bound: requests that fail for good
ASSUME SessionAssumption == MaxBoots \in Nat /\ MaxSessionFaults \in Nat

VARIABLES
    box,          \* the group; only a live one has a container, and bills
    boot,         \* boot_id of the serving agent: boots are counted
    serving,      \* the agent answers through the gateway
    create,       \* where `session create` is
    reaper,       \* the reaper: its place, the first boot_id it saw, what it loaded
    stop, removal,     \* where those commands are
    status,       \* RunState.status in the state file; "none" while there is none
    expired,      \* the hard cap has passed for the reaper
    sessionFaults \* requests that failed for good, counted for the bound

platform == <<box, boot, serving>>
sessionVars == <<platform, create, reaper, stop, removal, status, expired, sessionFaults>>

SessionTypeOK ==
    /\ box \in {"absent", "live", "failed", "stopped", "deleted"}
    /\ boot \in 0 .. MaxBoots /\ serving \in BOOLEAN
    /\ create \in {"post", "save", "ready", "connect", "health", "undo", "observe", "spawn",
                   "up", "failed", "crashed"}
    /\ reaper \in [pc: {"none", "look", "probe", "sleep", "clean", "load", "mark", "gone", "killed"},
                   first: 0 .. MaxBoots, loaded: {"none", "creating", "running", "stopped",
                                                  "failed", "reaped"}]
    /\ stop \in {"idle", "load", "done"} /\ removal \in {"idle", "forget", "done"}
    /\ status \in {"none", "creating", "running", "stopped", "failed", "reaped"}
    /\ expired \in BOOLEAN
    /\ sessionFaults \in 0 .. MaxSessionFaults

SessionInit ==
    /\ box = "absent" /\ boot = 0 /\ serving = FALSE
    /\ create = "post"
    /\ reaper = [pc |-> "none", first |-> 0, loaded |-> "none"]
    /\ stop = "idle" /\ removal = "idle"
    /\ status = "none" /\ expired = FALSE /\ sessionFaults = 0
-----------------------------------------------------------------------------
SessionFault ==
    /\ sessionFaults < MaxSessionFaults
    /\ sessionFaults' = sessionFaults + 1

BoxEnds(how) == box' = how /\ serving' = FALSE /\ UNCHANGED boot

\* A request that works, or fails for good; it may have been served all the same.
Deleted == BoxEnds("deleted") /\ UNCHANGED sessionFaults
DeleteFailed == SessionFault /\ (BoxEnds("deleted") \/ UNCHANGED platform)
BoxDeleteIgnored == Deleted \/ DeleteFailed
-----------------------------------------------------------------------------
(***************************************************************************)
(* The platform.                                                           *)
(***************************************************************************)
Boot ==
    /\ box = "live" /\ ~serving /\ boot < MaxBoots
    /\ boot' = boot + 1 /\ serving' = TRUE
    /\ UNCHANGED <<box, create, reaper, stop, removal, status, expired, sessionFaults>>

\* Deadman, max duration, crash or node loss: the next boot has nothing of the session.
AgentExits ==
    /\ serving
    /\ serving' = FALSE
    /\ UNCHANGED <<box, boot, create, reaper, stop, removal, status, expired, sessionFaults>>

BoxFails ==
    /\ box = "live"
    /\ BoxEnds("failed")
    /\ UNCHANGED <<create, reaper, stop, removal, status, expired, sessionFaults>>

\* max_duration + 15 min since the reaper started.
CapPasses ==
    /\ reaper.pc # "none" /\ ~expired
    /\ expired' = TRUE
    /\ UNCHANGED <<platform, create, reaper, stop, removal, status, sessionFaults>>
-----------------------------------------------------------------------------
(***************************************************************************)
(* session create.                                                         *)
(***************************************************************************)
PostGroup ==
    /\ create = "post"
    /\ \/ box' = "live" /\ create' = "save" /\ UNCHANGED sessionFaults
       \/ box' \in {"absent", "live"} /\ create' = "crashed" /\ SessionFault
    /\ UNCHANGED <<boot, serving, reaper, stop, removal, status, expired>>

SaveCreating ==
    /\ create = "save"
    /\ status' = "creating"
    /\ create' = "ready"
    /\ UNCHANGED <<platform, reaper, stop, removal, expired, sessionFaults>>

\* Each of the three waits ends with an answer or with giving up, which any error of the
\* control plane is enough for. A group that failed or was stopped is "running" enough.
GroupAnswers == box \in {"live", "failed", "stopped"}
WaitStep(from, to, answered) ==
    /\ create = from
    /\ create' \in {"undo"} \cup {pc \in {to} : answered}
    /\ UNCHANGED <<platform, reaper, stop, removal, status, expired, sessionFaults>>

PollRunning == WaitStep("ready", "connect", GroupAnswers)
Connect == WaitStep("connect", "health", GroupAnswers)
WaitHealthy == WaitStep("health", "observe", serving)

Undo ==
    /\ create = "undo"
    /\ BoxDeleteIgnored
    /\ status' = "failed"
    /\ create' = "failed"
    /\ UNCHANGED <<reaper, stop, removal, expired>>

\* observe_gpu, then the state is saved as it was remembered, whatever others made of it.
SaveRunning ==
    /\ create = "observe"
    /\ status' = "running"
    /\ create' = "spawn"
    /\ UNCHANGED <<platform, reaper, stop, removal, expired, sessionFaults>>

\* A reaper that does not start is a warning. It loads the state file first.
SpawnReaper ==
    /\ create = "spawn"
    /\ create' = "up"
    /\ reaper' \in {reaper, [reaper EXCEPT !.pc = "look"]}
    /\ reaper'.pc = "look" => status # "none"
    /\ UNCHANGED <<platform, stop, removal, status, expired, sessionFaults>>

CreateCrashes ==
    /\ create \in {"save", "ready", "connect", "health", "undo", "observe", "spawn"}
    /\ create' = "crashed"
    /\ UNCHANGED <<platform, reaper, stop, removal, status, expired, sessionFaults>>
-----------------------------------------------------------------------------
(***************************************************************************)
(* The reaper: session_over every 30 s, then cleanup and the state.        *)
(***************************************************************************)
ReaperGo(pc) == reaper' = [reaper EXCEPT !.pc = pc]

\* Both answers of the look end the wait when the hard cap has passed: see ReaperSleep.
LookAtBox ==
    /\ reaper.pc = "look"
    /\ \/ box \in {"absent", "deleted"} /\ ReaperGo("clean") /\ UNCHANGED sessionFaults
       \/ box \notin {"absent", "deleted"} /\ ReaperGo("probe") /\ UNCHANGED sessionFaults
       \/ SessionFault /\ ReaperGo("sleep")
    /\ UNCHANGED <<platform, create, stop, removal, status, expired>>

UnreachableIsOver == ReaperGo("clean")          \* mutant: no answer is taken for the end
Unreachable == ReaperGo("sleep")

\* probe_boot_id: the boot_id that healthz reports, or 0 for any reason it is not answered.
ProbeBootId == {0} \cup {b \in {boot} : serving}

\* No answer says nothing, however long it lasts.
ProbeBoot ==
    /\ reaper.pc = "probe"
    /\ \E seen \in ProbeBootId :
          \/ seen = 0 /\ Unreachable
          \/ seen > 0 /\ reaper.first = 0 /\ reaper' = [reaper EXCEPT !.first = seen, !.pc = "sleep"]
          \/ seen > 0 /\ reaper.first = seen /\ ReaperGo("sleep")
          \/ seen > 0 /\ reaper.first \notin {0, seen} /\ ReaperGo("clean")
    /\ UNCHANGED <<platform, create, stop, removal, status, expired, sessionFaults>>

SleepOrCap == reaper.pc = "sleep" /\ ReaperGo(IF expired THEN "clean" ELSE "look")
ReaperSleep ==
    /\ SleepOrCap
    /\ UNCHANGED <<platform, create, stop, removal, status, expired, sessionFaults>>

ReaperClean ==
    /\ reaper.pc = "clean"
    /\ BoxDeleteIgnored
    /\ ReaperGo("load")
    /\ UNCHANGED <<create, stop, removal, status, expired>>

\* load_run; the file may be gone.
ReaperLoad ==
    /\ reaper.pc = "load"
    /\ reaper' = [reaper EXCEPT !.loaded = status,
                                !.pc = IF status = "none" THEN "gone" ELSE "mark"]
    /\ UNCHANGED <<platform, create, stop, removal, status, expired, sessionFaults>>

\* save_run of what was loaded, whatever has been saved since.
ReaperMark ==
    /\ reaper.pc = "mark"
    /\ status' = IF reaper.loaded = "running" THEN "reaped" ELSE reaper.loaded
    /\ ReaperGo("gone")
    /\ UNCHANGED <<platform, create, stop, removal, expired, sessionFaults>>

ReaperDies ==
    /\ reaper.pc \notin {"none", "gone", "killed"}
    /\ ReaperGo("killed")
    /\ UNCHANGED <<platform, create, stop, removal, status, expired, sessionFaults>>
-----------------------------------------------------------------------------
(***************************************************************************)
(* session stop and session rm.                                            *)
(***************************************************************************)
StopBox ==
    /\ stop = "idle" /\ create # "post"
    /\ \/ /\ box \in {"live", "failed", "stopped"} /\ BoxEnds("stopped")
          /\ stop' = "load" /\ UNCHANGED sessionFaults
       \/ box \in {"absent", "deleted"} /\ stop' = "done" /\ UNCHANGED <<platform, sessionFaults>>
       \/ SessionFault /\ stop' = "done" /\ UNCHANGED platform
    /\ UNCHANGED <<create, reaper, removal, status, expired>>

StopMark ==
    /\ stop = "load"
    /\ status' = IF status = "none" THEN "none" ELSE "stopped"
    /\ stop' = "done"
    /\ UNCHANGED <<platform, create, reaper, removal, expired, sessionFaults>>

RmDelete ==
    /\ removal = "idle" /\ create # "post"
    /\ \/ Deleted /\ removal' = "forget"
       \/ DeleteFailed /\ removal' = "done"
    /\ UNCHANGED <<create, reaper, stop, status, expired>>

RmForget ==
    /\ removal = "forget"
    /\ status' = "none"
    /\ removal' = "done"
    /\ UNCHANGED <<platform, create, reaper, stop, expired, sessionFaults>>
-----------------------------------------------------------------------------
CreateStep ==
    PostGroup \/ SaveCreating \/ PollRunning \/ Connect \/ WaitHealthy \/ Undo \/ SaveRunning \/ SpawnReaper
ReaperStep ==
    LookAtBox \/ ProbeBoot \/ ReaperSleep \/ ReaperClean \/ ReaperLoad \/ ReaperMark
CommandStep == StopMark \/ RmForget

SessionNext ==
    \/ Boot \/ AgentExits \/ BoxFails \/ CapPasses
    \/ CreateStep \/ CreateCrashes
    \/ ReaperStep \/ ReaperDies
    \/ StopBox \/ RmDelete \/ CommandStep

SessionSpec == SessionInit /\ [][SessionNext]_sessionVars
\* Processes go on while they are not killed, and time passes. Nothing is assumed of the
\* platform, of the operator or of requests.
SessionFairness ==
    /\ WF_sessionVars(CreateStep) /\ WF_sessionVars(ReaperStep)
    /\ WF_sessionVars(CommandStep) /\ WF_sessionVars(CapPasses)
SessionFairSpec == SessionSpec /\ SessionFairness
-----------------------------------------------------------------------------
\* The reaper never takes a session that a user may still be working in: before the cap it
\* deletes only what is gone already, or a box that a later boot has taken over.
ReaperSparesSession ==
    reaper.pc = "clean" /\ ~expired =>
        box \in {"absent", "deleted"} \/ reaper.first \in 1 .. boot - 1

\* "an abandoned box keeps billing until deleted": with a reaper at work the billing ends,
\* whatever the agent does, unless a request failed for good.
SessionBillingEnds ==
    reaper.pc = "look" ~> (box # "live" \/ sessionFaults > 0 \/ reaper.pc = "killed")

\* A failed create leaves nothing that bills behind ("Any failure here must not leak the
\* group").
FailedCreateIsGone == create = "failed" /\ sessionFaults = 0 => box \notin {"live", "failed"}

\* The reaper did not start, or its creator died before.
Unwatched == reaper.pc = "none" /\ create \in {"up", "crashed"}

\* The state file does not call a session running for ever when its group has gone: what
\* create saved over a stop or rm that came in between is put right by the reaper.
StatusCatchesUp ==
    (status = "running" /\ box \in {"failed", "stopped", "deleted"}) ~>
        (status # "running" \/ reaper.pc = "killed" \/ Unwatched)
\* The group of a session is neither taken too early nor left behind (session.rs create,
\* runner.rs reap).
SessionIsKept == ReaperSparesSession /\ FailedCreateIsGone

\* And it ends, on the bill and in the state file.
SessionEnds == SessionBillingEnds /\ StatusCatchesUp
=============================================================================
