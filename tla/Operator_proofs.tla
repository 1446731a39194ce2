--------------------------- MODULE Operator_proofs ----------------------------
(***************************************************************************)
(* The operator's commands: sessions, services that stop themselves, the   *)
(* launch of a run, the time it is billed for and the storage prefix that  *)
(* runs share, each for every value of the constants.                      *)
(***************************************************************************)
EXTENDS SessionLife, Autostop, RunLaunch, Billing, SharedPrefix, Integers, TLAPS
-----------------------------------------------------------------------------
(***************************************************************************)
(* SessionLife keeps its session. The argument: there is no reaper before  *)
(* the group has been created, a group that is gone does not come back,    *)
(* and boots only grow, so what the reaper has seen still holds when it    *)
(* deletes.                                                                *)
(***************************************************************************)

\* The order of the life: the group, then the state, then the reaper.
CreatedInOrder ==
    /\ create = "post" => box = "absent"
    /\ reaper.pc # "none" => create = "up"

SeenBoot == reaper.first \in 0 .. boot

SessionInv == SessionTypeOK /\ CreatedInOrder /\ SeenBoot /\ ReaperSparesSession /\ FailedCreateIsGone
-----------------------------------------------------------------------------
LEMMA InitSessionInv == SessionInit => SessionInv
<1> SUFFICES ASSUME SessionInit PROVE SessionInv
    OBVIOUS
<1>0. 0 \in 0 .. MaxBoots /\ 0 \in 0 .. MaxSessionFaults
    BY SessionAssumption
<1>1. SessionTypeOK
    BY <1>0 DEF SessionInit, SessionTypeOK
<1>2. CreatedInOrder /\ SeenBoot /\ ReaperSparesSession /\ FailedCreateIsGone
    BY DEF SessionInit, CreatedInOrder, SeenBoot, ReaperSparesSession, FailedCreateIsGone
<1> QED BY <1>1, <1>2 DEF SessionInv

\* What a delete whose error is ignored does to the group.
LEMMA DeleteIgnoredDoes ==
    ASSUME SessionTypeOK, BoxDeleteIgnored
    PROVE  /\ UNCHANGED boot
           /\ box' \in {box, "deleted"} /\ serving' \in BOOLEAN
           /\ sessionFaults' \in 0 .. MaxSessionFaults
           /\ sessionFaults' = 0 => sessionFaults = 0 /\ box' = "deleted"
<1>1. CASE Deleted
    BY <1>1 DEF Deleted, BoxEnds, SessionTypeOK
<1>2. CASE DeleteFailed
    <2>1. sessionFaults' = sessionFaults + 1 /\ sessionFaults' \in 0 .. MaxSessionFaults
        BY <1>2, SessionAssumption DEF DeleteFailed, SessionFault, SessionTypeOK
    <2>2. UNCHANGED boot /\ box' \in {box, "deleted"} /\ serving' \in BOOLEAN
        BY <1>2 DEF DeleteFailed, BoxEnds, platform, SessionTypeOK
    <2> QED BY <2>1, <2>2 DEF SessionTypeOK
<1> QED BY <1>1, <1>2 DEF BoxDeleteIgnored

LEMMA SessionInvStep == SessionInv /\ [SessionNext]_sessionVars => SessionInv'
<1> SUFFICES ASSUME SessionInv, [SessionNext]_sessionVars PROVE SessionInv'
    OBVIOUS
<1> USE SessionAssumption
<1>0. SessionTypeOK /\ CreatedInOrder /\ SeenBoot /\ ReaperSparesSession /\ FailedCreateIsGone
    BY DEF SessionInv
<1> USE <1>0
<1> USE DEF CreatedInOrder, SeenBoot, ReaperSparesSession, FailedCreateIsGone, platform
<1>1. CASE Boot
    BY <1>1 DEF Boot, SessionInv, SessionTypeOK
<1>2. CASE AgentExits \/ BoxFails \/ CapPasses
    <2>1. CASE AgentExits
        <3>1. SessionTypeOK'
            <4>1. serving' \in BOOLEAN
                BY <2>1 DEF AgentExits
            <4>2. UNCHANGED <<box, boot, create, reaper, stop, removal, status, expired, sessionFaults>>
                BY <2>1 DEF AgentExits
            <4> QED BY <4>1, <4>2 DEF SessionTypeOK
        <3>2. CreatedInOrder' /\ SeenBoot' /\ ReaperSparesSession' /\ FailedCreateIsGone'
            BY <2>1 DEF AgentExits
        <3> QED BY <3>1, <3>2 DEF SessionInv
    <2>2. CASE BoxFails
        <3>1. SessionTypeOK'
            <4>1. serving' \in BOOLEAN /\ box' = "failed"
                BY <2>2 DEF BoxFails, BoxEnds
            <4>2. UNCHANGED <<boot, create, reaper, stop, removal, status, expired, sessionFaults>>
                BY <2>2 DEF BoxFails, BoxEnds
            <4> QED BY <4>1, <4>2 DEF SessionTypeOK
        <3>2. /\ box = "live" /\ box' = "failed"
              /\ UNCHANGED <<boot, create, reaper, expired, sessionFaults>>
            BY <2>2 DEF BoxFails, BoxEnds
        <3>3. CreatedInOrder' /\ SeenBoot'
            BY <3>2
        <3>4. ReaperSparesSession' /\ FailedCreateIsGone'
            BY <3>2
        <3> QED BY <3>1, <3>3, <3>4 DEF SessionInv
    <2>3. CASE CapPasses
        BY <2>3 DEF CapPasses, SessionInv, SessionTypeOK
    <2> QED BY <1>2, <2>1, <2>2, <2>3
<1>3. CASE PostGroup
    BY <1>3 DEF PostGroup, SessionFault, SessionInv, SessionTypeOK
<1>4. CASE SaveCreating \/ SaveRunning \/ CreateCrashes
    <2>1. CASE SaveCreating
        BY <2>1 DEF SaveCreating, SessionInv, SessionTypeOK
    <2>2. CASE SaveRunning
        BY <2>2 DEF SaveRunning, SessionInv, SessionTypeOK
    <2>3. CASE CreateCrashes
        BY <2>3 DEF CreateCrashes, SessionInv, SessionTypeOK
    <2> QED BY <1>4, <2>1, <2>2, <2>3
<1>5. CASE PollRunning \/ Connect \/ WaitHealthy
    <2>1. /\ create \in {"ready", "connect", "health"}
          /\ create' \in {"undo", "connect", "health", "observe"}
          /\ UNCHANGED <<platform, reaper, stop, removal, status, expired, sessionFaults>>
        BY <1>5 DEF PollRunning, Connect, WaitHealthy, WaitStep
    <2> QED BY <2>1 DEF SessionInv, SessionTypeOK
<1>6. CASE Undo
    <2>1. /\ create = "undo" /\ create' = "failed" /\ status' = "failed"
          /\ UNCHANGED <<reaper, stop, removal, expired>>
        BY <1>6 DEF Undo
    <2>2. SessionTypeOK'
        BY <1>6, <2>1, DeleteIgnoredDoes DEF Undo, SessionTypeOK
    <2>3. CreatedInOrder' /\ SeenBoot' /\ ReaperSparesSession' /\ FailedCreateIsGone'
        BY <1>6, <2>1, DeleteIgnoredDoes DEF Undo, SessionTypeOK
    <2> QED BY <2>2, <2>3 DEF SessionInv
<1>7. CASE SpawnReaper
    BY <1>7 DEF SpawnReaper, SessionInv, SessionTypeOK
<1>8. CASE LookAtBox
    BY <1>8 DEF LookAtBox, ReaperGo, SessionFault, SessionInv, SessionTypeOK
<1>9. CASE ProbeBoot
    <2>1. /\ reaper.pc = "probe"
          /\ UNCHANGED <<platform, create, stop, removal, status, expired, sessionFaults>>
        BY <1>9 DEF ProbeBoot
    <2>2. PICK seen \in ProbeBootId :
              \/ seen = 0 /\ Unreachable
              \/ seen > 0 /\ reaper.first = 0 /\ reaper' = [reaper EXCEPT !.first = seen, !.pc = "sleep"]
              \/ seen > 0 /\ reaper.first = seen /\ ReaperGo("sleep")
              \/ seen > 0 /\ reaper.first \notin {0, seen} /\ ReaperGo("clean")
        BY <1>9 DEF ProbeBoot
    <2>3. seen \in 0 .. boot /\ boot \in 0 .. MaxBoots /\ (seen > 0 => seen = boot)
        BY <2>2 DEF ProbeBootId, SessionTypeOK
    <2>4. CASE reaper' = [reaper EXCEPT !.pc = "sleep"]
        BY <2>1, <2>4 DEF SessionInv, SessionTypeOK
    <2>5. CASE seen > 0 /\ reaper' = [reaper EXCEPT !.first = seen, !.pc = "sleep"]
        <3>1. SessionTypeOK'
            BY <2>1, <2>3, <2>5 DEF SessionTypeOK
        <3>2. CreatedInOrder' /\ SeenBoot' /\ ReaperSparesSession' /\ FailedCreateIsGone'
            BY <2>1, <2>3, <2>5 DEF SessionTypeOK
        <3> QED BY <3>1, <3>2 DEF SessionInv
    <2>6. CASE /\ seen > 0 /\ reaper.first \notin {0, seen}
               /\ reaper' = [reaper EXCEPT !.pc = "clean"]
        <3>1. SessionTypeOK'
            BY <2>1, <2>6 DEF SessionTypeOK
        <3>2. reaper.first \in 1 .. boot - 1
            BY <2>3, <2>6 DEF SessionTypeOK
        <3>3. CreatedInOrder' /\ SeenBoot' /\ ReaperSparesSession' /\ FailedCreateIsGone'
            BY <2>1, <2>6, <3>2 DEF SessionTypeOK
        <3> QED BY <3>1, <3>3 DEF SessionInv
    <2> QED BY <2>2, <2>4, <2>5, <2>6 DEF Unreachable, ReaperGo
<1>10. CASE ReaperSleep
    BY <1>10 DEF ReaperSleep, SleepOrCap, ReaperGo, SessionInv, SessionTypeOK
<1>11. CASE ReaperClean
    <2>1. /\ reaper.pc = "clean" /\ reaper' = [reaper EXCEPT !.pc = "load"]
          /\ UNCHANGED <<create, stop, removal, status, expired>>
        BY <1>11 DEF ReaperClean, ReaperGo
    <2>2. SessionTypeOK'
        BY <1>11, <2>1, DeleteIgnoredDoes DEF ReaperClean, SessionTypeOK
    <2>3. CreatedInOrder' /\ SeenBoot' /\ ReaperSparesSession' /\ FailedCreateIsGone'
        BY <1>11, <2>1, DeleteIgnoredDoes DEF ReaperClean, SessionTypeOK
    <2> QED BY <2>2, <2>3 DEF SessionInv
<1>12. CASE ReaperLoad
    BY <1>12, ZenonT(30) DEF ReaperLoad, SessionInv, SessionTypeOK
<1>13. CASE ReaperMark
    BY <1>13 DEF ReaperMark, ReaperGo, SessionInv, SessionTypeOK
<1>14. CASE ReaperDies
    BY <1>14 DEF ReaperDies, ReaperGo, SessionInv, SessionTypeOK
<1>15. CASE StopBox
    <2>1. /\ create # "post" /\ stop' \in {"load", "done"}
          /\ UNCHANGED <<boot, create, reaper, removal, status, expired>>
        BY <1>15 DEF StopBox, BoxEnds, SessionFault
    <2>2. \/ /\ box' = "stopped" /\ box \notin {"absent", "deleted"}
             /\ serving' = FALSE /\ UNCHANGED sessionFaults
          \/ UNCHANGED <<platform, sessionFaults>>
          \/ /\ UNCHANGED platform /\ sessionFaults' \in 1 .. MaxSessionFaults
        BY <1>15 DEF StopBox, BoxEnds, SessionFault, SessionTypeOK
    <2>3. serving' \in BOOLEAN
        BY <2>2, Zenon DEF SessionTypeOK
    <2>4. sessionFaults' \in 0 .. MaxSessionFaults
        BY <2>2 DEF SessionTypeOK
    <2>5. SessionTypeOK'
        BY <2>1, <2>2, <2>3, <2>4 DEF SessionTypeOK
    <2>6. CreatedInOrder' /\ SeenBoot'
        BY <2>1, <2>2
    <2>7. ReaperSparesSession' /\ FailedCreateIsGone'
        BY <2>1, <2>2
    <2> QED BY <2>5, <2>6, <2>7 DEF SessionInv
<1>16. CASE StopMark \/ RmForget
    <2>1. CASE StopMark
        BY <2>1 DEF StopMark, SessionInv, SessionTypeOK
    <2>2. CASE RmForget
        BY <2>2 DEF RmForget, SessionInv, SessionTypeOK
    <2> QED BY <1>16, <2>1, <2>2
<1>17. CASE RmDelete
    <2>1. /\ create # "post" /\ removal' \in {"forget", "done"}
          /\ UNCHANGED <<create, reaper, stop, status, expired>> /\ BoxDeleteIgnored
        BY <1>17 DEF RmDelete, BoxDeleteIgnored
    <2>2. SessionTypeOK'
        BY <2>1, DeleteIgnoredDoes DEF SessionTypeOK
    <2>3. CreatedInOrder' /\ SeenBoot' /\ ReaperSparesSession' /\ FailedCreateIsGone'
        BY <2>1, DeleteIgnoredDoes DEF SessionTypeOK
    <2> QED BY <2>2, <2>3 DEF SessionInv
<1>18. CASE UNCHANGED sessionVars
    BY <1>18 DEF sessionVars, SessionInv, SessionTypeOK
<1> QED
    BY <1>1, <1>2, <1>3, <1>4, <1>5, <1>6, <1>7, <1>8, <1>9, <1>10, <1>11, <1>12, <1>13, <1>14,
       <1>15, <1>16, <1>17, <1>18
       DEF SessionNext, CreateStep, ReaperStep, CommandStep

\* session.rs create and runner.rs reap, for any number of boots and failed requests: the reaper
\* takes no session that a user may still be working in before its cap, and a create that
\* failed without a failed request has left nothing that bills.
THEOREM SessionKept == SessionSpec => []SessionIsKept
<1>1. SessionInv => SessionIsKept
    BY DEF SessionInv, SessionIsKept
<1> QED BY InitSessionInv, SessionInvStep, <1>1, PTL DEF SessionSpec

\* Every reachable state of a session is within its types.
LEMMA SessionTyped == SessionSpec => []SessionTypeOK
<1>1. SessionInv => SessionTypeOK
    BY DEF SessionInv
<1> QED BY InitSessionInv, SessionInvStep, <1>1, PTL DEF SessionSpec
-----------------------------------------------------------------------------
(***************************************************************************)
(* The watchdog stops what is idle. The argument: the time of the last     *)
(* request that the proxy keeps is never older than the last traffic,      *)
(* unless that traffic came after the watchdog had asked.                  *)
(***************************************************************************)

\* last_proxied is never older than the last traffic, and what the watchdog is about to stop
\* has been still, or there was traffic since it asked.
AutostopInv ==
    /\ AutostopTypeOK
    /\ aged => still
    /\ StopsOnlyIdle

\* Nothing is deployed at first.
LEMMA InitAutostopInv == AutostopInit => AutostopInv
<1> SUFFICES ASSUME AutostopInit PROVE AutostopInv
    OBVIOUS
<1>1. AutostopTypeOK
    <2>1. /\ up \in [pc: {"create", "save", "poll", "undo", "fail", "ready", "mark", "done"},
                   says: {"creating", "running", "starting"}]
          /\ service = "absent" /\ command = "none" /\ app = "dead" /\ proxy = "exited"
          /\ client = "none" /\ watch = "off" /\ mark = "none"
        BY DEF AutostopInit
    <2>2. permit \in BOOLEAN /\ still \in BOOLEAN /\ aged \in BOOLEAN /\ passed \in BOOLEAN
        BY Zenon DEF AutostopInit
    <2>3. serveFaults \in 0 .. MaxServeFaults
        BY AutostopAssumption DEF AutostopInit
    <2> QED BY <2>1, <2>2, <2>3 DEF AutostopTypeOK
<1>2. (aged => still) /\ StopsOnlyIdle
    BY DEF AutostopInit, StopsOnlyIdle
<1> QED BY <1>1, <1>2 DEF AutostopInv

\* A request of the watchdog that fails is counted.
LEMMA FaultTyped ==
    ASSUME AutostopTypeOK, ServeFault
    PROVE  serveFaults' \in 0 .. MaxServeFaults
BY AutostopAssumption DEF AutostopTypeOK, ServeFault

\* Every variable keeps its type: the container with its proxy, and the commands.
LEMMA BoxTyped ==
    ASSUME AutostopTypeOK,
           \/ Request \/ StreamChunk \/ RequestEnds \/ IdleTimeoutPasses \/ AppDies
           \/ ProxyMaxDuration \/ AllocateNode \/ Relaunch \/ LoseNode \/ ServeProxy \/ Forward
           \/ ProxyExits
    PROVE  AutostopTypeOK'
<1> USE DEF theBox, theClock, theCommands
<1>1. /\ service' \in {"absent", "pending", "live", "stopped", "gone"}
      /\ app' \in {"up", "dead"} /\ proxy' \in {"starting", "serving", "draining", "exited"}
      /\ client' \in {"none", "body", "upstream", "stream"}
      /\ UNCHANGED <<theCommands, serveFaults>>
    BY DEF AutostopTypeOK, Request, StreamChunk, RequestEnds, IdleTimeoutPasses, AppDies,
           ProxyMaxDuration, AllocateNode, Relaunch, BootContainer, LoseNode, ServeProxy, Forward,
           ProxyExits, ProxyNotify, BoxIsLost
<1>2. permit' \in BOOLEAN
    BY Zenon DEF AutostopTypeOK, Request, StreamChunk, RequestEnds, IdleTimeoutPasses, AppDies,
           ProxyMaxDuration, AllocateNode, Relaunch, BootContainer, LoseNode, ServeProxy, Forward,
           ProxyExits, ProxyNotify, BoxIsLost
<1>3. still' \in BOOLEAN /\ aged' \in BOOLEAN /\ passed' \in BOOLEAN
    BY Zenon DEF AutostopTypeOK, Request, StreamChunk, RequestEnds, IdleTimeoutPasses, AppDies,
           ProxyMaxDuration, AllocateNode, Relaunch, BootContainer, LoseNode, ServeProxy, Forward,
           ProxyExits, Traffic, Touch, TouchChunk
<1> QED BY <1>1, <1>2, <1>3 DEF AutostopTypeOK

\* The commands and the watchdog keep the types.
LEMMA CommandsTyped ==
    ASSUME AutostopTypeOK,
           \/ UpCreate \/ UpSave \/ UpFail \/ UpPoll \/ UpUndo \/ UpReady \/ UpMark
           \/ Down \/ Rm \/ Resume \/ UpdateStatus \/ StartWatch \/ PollTimesOut \/ MarkStopped
           \/ GatewayOf \/ AskIdle \/ StopService
    PROVE  AutostopTypeOK'
<1> USE DEF theBox, theClock
<1>1. up' \in [pc: {"create", "save", "poll", "undo", "fail", "ready", "mark", "done"},
               says: {"creating", "running", "starting"}]
    BY DEF AutostopTypeOK, UpCreate, UpSave, UpFail, UpPoll, UpUndo, UpReady, UpMark, Down, Rm,
           Resume, UpdateStatus, StartWatch, PollTimesOut, MarkStopped, GatewayOf, AskIdle,
           StopService, UpGo
<1>2. /\ service' \in {"absent", "pending", "live", "stopped", "gone"}
      /\ command' \in {"none", "downMark", "resumeMark", "rmForget"}
      /\ watch' \in {"off", "gateway", "ask", "stalled", "stop", "mark", "done"}
      /\ mark' \in {"none", "creating", "running", "starting", "failed", "stopped"}
    BY DEF AutostopTypeOK, UpCreate, UpSave, UpFail, UpPoll, UpUndo, UpReady, UpMark, Down, Rm,
           Resume, UpdateStatus, StartWatch, PollTimesOut, MarkStopped, GatewayOf, AskIdle,
           StopService, Ended, WatchGo, RequestTimeout
<1>3. UNCHANGED theBox \/ BoxIsLost
    BY Zenon DEF UpCreate, UpSave, UpFail, UpPoll, UpUndo, UpReady, UpMark, Down, Rm,
           Resume, UpdateStatus, StartWatch, PollTimesOut, MarkStopped, GatewayOf, AskIdle,
           StopService, Ended, BoxIsLost
<1>4. /\ app' \in {"up", "dead"} /\ proxy' \in {"starting", "serving", "draining", "exited"}
      /\ permit' \in BOOLEAN /\ client' \in {"none", "body", "upstream", "stream"}
    BY <1>3, Zenon DEF AutostopTypeOK, BoxIsLost
<1>5. UNCHANGED <<still, aged>> /\ (passed' = FALSE \/ passed' = passed)
    BY Zenon DEF UpCreate, UpSave, UpFail, UpPoll, UpUndo, UpReady, UpMark, Down, Rm,
           Resume, UpdateStatus, StartWatch, PollTimesOut, MarkStopped, GatewayOf, AskIdle,
           StopService
<1>6. still' \in BOOLEAN /\ aged' \in BOOLEAN /\ passed' \in BOOLEAN
    BY <1>5, Zenon DEF AutostopTypeOK
<1>7. serveFaults' = serveFaults \/ ServeFault
    BY Zenon DEF UpCreate, UpSave, UpFail, UpPoll, UpUndo, UpReady, UpMark, Down, Rm,
           Resume, UpdateStatus, StartWatch, PollTimesOut, MarkStopped, GatewayOf, AskIdle,
           StopService, ServeFault
<1>8. serveFaults' \in 0 .. MaxServeFaults
    BY <1>7, FaultTyped DEF AutostopTypeOK
<1> QED BY <1>1, <1>2, <1>4, <1>6, <1>8 DEF AutostopTypeOK

\* Only an answer of the proxy makes the watchdog stop the service, and what ages last_proxied
\* is a time in which nothing passed.
LEMMA ClockKept ==
    ASSUME aged => still, StopsOnlyIdle, [AutostopNext]_serveVars
    PROVE  (aged => still)' /\ StopsOnlyIdle'
<1> USE DEF StopsOnlyIdle, theBox, theClock, theCommands
<1>1. CASE Request \/ StreamChunk \/ AllocateNode \/ Relaunch
    BY <1>1, Zenon DEF Request, StreamChunk, AllocateNode, Relaunch, BootContainer, Traffic, Touch,
                       TouchChunk
<1>2. CASE IdleTimeoutPasses
    BY <1>2, Zenon DEF IdleTimeoutPasses
<1>3. CASE AskIdle
    <2>1. UNCHANGED <<still, aged>>
          /\ (watch' = (IF aged THEN "stop" ELSE "gateway") \/ watch' \in {"gateway", "stalled"})
        BY <1>3, Zenon DEF AskIdle, WatchGo, IdleReport
    <2>2. watch' = "stop" => aged
        BY <2>1
    <2> QED BY <2>1, <2>2, Zenon
<1>4. CASE GatewayOf \/ StartWatch \/ PollTimesOut \/ StopService \/ MarkStopped
    <2>1. UNCHANGED theClock /\ watch' # "stop"
        BY <1>4 DEF GatewayOf, StartWatch, PollTimesOut, RequestTimeout, StopService, MarkStopped,
               WatchGo
    <2> QED BY <2>1, Zenon
<1>5. CASE \/ RequestEnds \/ AppDies \/ ProxyMaxDuration \/ LoseNode \/ ServeProxy \/ Forward
           \/ ProxyExits \/ UpCreate \/ UpSave \/ UpFail \/ UpPoll \/ UpUndo \/ UpReady \/ UpMark
           \/ Down \/ Rm \/ Resume \/ UpdateStatus \/ UNCHANGED serveVars
    <2>1. UNCHANGED theClock /\ UNCHANGED watch
        BY <1>5, Zenon
           DEF RequestEnds, AppDies, ProxyMaxDuration, LoseNode, ServeProxy, Forward, ProxyExits,
               UpCreate, UpSave, UpFail, UpPoll, UpUndo, UpReady, UpMark, Down, Rm, Resume,
               UpdateStatus, serveVars
    <2> QED BY <2>1, Zenon
<1> QED BY <1>1, <1>2, <1>3, <1>4, <1>5, Zenon DEF AutostopNext, ProxyStep, WatchStep

\* The proxy, the watchdog and the commands keep the invariant.
LEMMA AutostopInvStep == AutostopInv /\ [AutostopNext]_serveVars => AutostopInv'
<1> SUFFICES ASSUME AutostopInv, [AutostopNext]_serveVars PROVE AutostopInv'
    OBVIOUS
<1>1. AutostopTypeOK'
    <2>1. CASE UNCHANGED serveVars
        BY <2>1 DEF AutostopInv, AutostopTypeOK, serveVars, theBox, theClock
    <2>2. CASE AutostopNext
        BY <2>2, BoxTyped, CommandsTyped DEF AutostopInv, AutostopNext, ProxyStep, WatchStep
    <2> QED BY <2>1, <2>2
<1> QED BY <1>1, ClockKept DEF AutostopInv

\* Every reachable state satisfies AutostopInv.
LEMMA AutostopInvariant == AutostopSpec => []AutostopInv
<1> QED BY InitAutostopInv, AutostopInvStep, PTL DEF AutostopSpec

\* Every reachable state of a service is within its types.
LEMMA AutostopTyped == AutostopSpec => []AutostopTypeOK
<1>1. AutostopInv => AutostopTypeOK
    BY DEF AutostopInv
<1> QED BY AutostopInvariant, <1>1, PTL

\* cli serve.rs autostop, proxy.rs touch: however requests, long streams, lost nodes and the
\* other commands interleave, what the watchdog stops had been still for the idle timeout
\* when it was asked, or has had traffic only since.
THEOREM IdleAloneIsStopped == AutostopSpec => []StopsOnlyIdle
<1>1. AutostopInv => StopsOnlyIdle
    BY DEF AutostopInv
<1> QED BY <1>1, AutostopInvariant, PTL
-----------------------------------------------------------------------------
(***************************************************************************)
(* RunLaunch accounts for its groups. The argument: up to its create the   *)
(* group of a shard does not exist, so a create that fails in the loop     *)
(* leaves only the shards before it to undo; the undo, the wait and the    *)
(* cleanup each go through the shards in their order, and no group that    *)
(* one of them has passed comes back.                                      *)
(***************************************************************************)

\* The group of s does not bill, or nobody can say.
Dealt(s) == s \in unsure \/ shardGroup[s] # "live"

Looping == {"spec", "create"}
WaitSettled == {"mark", "collected", "aborted", "interrupted"}

\* Where the loop counters are.
LaunchPlaces ==
    /\ launch.pc \in Preparing => launch.shard = 0
    /\ launch.pc \in Looping \cup {"undo", "await", "fetch"} => launch.shard < ShardCount
    /\ launch.pc \in Preparing \cup Looping => launch.undone = 0

\* What has not been created yet.
NotYetCreated ==
    launch.pc \in Preparing \cup Looping =>
        \A s \in Shards : s >= launch.shard => shardGroup[s] = "absent"

\* What the undo, the wait and the cleanup have passed.
DealtBefore ==
    /\ launch.pc \in {"undo", "createFailed"} =>
          \A s \in Shards : s >= launch.shard \/ s < launch.undone => Dealt(s)
    /\ LaunchAt("createFailed") => launch.undone >= launch.shard
    /\ launch.pc \in {"await", "abort", "interrupt"} =>
          \A s \in Shards : s < launch.shard => Dealt(s)
    /\ LaunchAt("fetch") => \A s \in Shards : s <= launch.shard => Dealt(s)
    /\ launch.pc \in WaitSettled => \A s \in Shards : Dealt(s)

\* Nothing is created that the check of the credential did not let through.
Checked ==
    /\ launch.pc \notin {"resolve", "refused", "crashed"} => CheckRegistryAuth
    /\ (\E s \in Shards : shardGroup[s] # "absent") => CheckRegistryAuth

LaunchInv == LaunchTypeOK /\ LaunchPlaces /\ NotYetCreated /\ DealtBefore /\ Checked
-----------------------------------------------------------------------------
Pcs == Preparing \cup LaunchEnded \cup
           {"spec", "create", "undo", "gateways", "save", "spawn", "await", "fetch", "abort", "interrupt",
            "mark"}

\* The process moves to another of its places, with the undo where it was.
LEMMA Moves ==
    ASSUME LaunchTypeOK, NEW pc \in Pcs, NEW s \in 0 .. ShardCount, LaunchGo(pc, s)
    PROVE  /\ launch' \in [pc: Pcs, shard: 0 .. ShardCount, undone: 0 .. ShardCount]
           /\ launch'.pc = pc /\ launch'.shard = s /\ launch'.undone = launch.undone
<1>1. launch \in [pc: Pcs, shard: 0 .. ShardCount, undone: 0 .. ShardCount]
    BY DEF LaunchTypeOK, Pcs
<1> QED BY <1>1 DEF LaunchGo

\* A delete whose error is ignored deals with its group, and brings none back.
LEMMA DeleteDeals ==
    ASSUME LaunchTypeOK, NEW s \in Shards, DeleteIgnored(s)
    PROVE  /\ shardGroup' \in [Shards -> {"absent", "live", "failed", "deleted"}]
           /\ unsure' \subseteq Shards /\ launchFaults' \in 0 .. MaxLaunchFaults
           /\ Dealt(s)'
           /\ \A t \in Shards : Dealt(t) => Dealt(t)'
<1>1. CASE Answered(s, "deleted")
    BY <1>1 DEF Answered, LaunchTypeOK, Dealt
<1>2. CASE Unanswered(s, "deleted")
    BY <1>2, LaunchAssumption DEF Unanswered, LaunchFault, LaunchTypeOK, Dealt
<1> QED BY <1>1, <1>2 DEF DeleteIgnored

\* A step before the loop only moves the process on, or refuses.
LEMMA PreparedKeepsInv ==
    ASSUME LaunchInv, NEW pc \in Preparing, NEW next \in Preparing \cup {"spec"},
           pc = "resolve" => CheckRegistryAuth \/ LaunchGo("refused", 0),
           LaunchAt(pc), LaunchGo(next, 0) \/ LaunchGo("refused", 0),
           UNCHANGED <<order, Rented, bucket, runFile>>
    PROVE  LaunchInv'
<1>1. /\ launch' \in [pc: Pcs, shard: 0 .. ShardCount, undone: 0 .. ShardCount]
      /\ launch'.pc \in {next, "refused"} /\ launch'.shard = 0 /\ launch'.undone = launch.undone
    <2>1. next \in Pcs /\ "refused" \in Pcs /\ 0 \in 0 .. ShardCount
        BY LaunchAssumption DEF Pcs, Preparing, LaunchEnded
    <2> QED BY <2>1, Moves DEF LaunchInv
<1>2. UNCHANGED <<order, shardGroup, unsure, launchFaults, jobs, finished, runFile>>
    BY DEF Rented, bucket
<1>3. LaunchTypeOK'
    BY <1>1, <1>2 DEF LaunchInv, LaunchTypeOK, Pcs
<1>4. LaunchPlaces' /\ NotYetCreated' /\ DealtBefore'
    BY <1>1, <1>2, LaunchAssumption
       DEF LaunchInv, LaunchTypeOK, LaunchPlaces, NotYetCreated, DealtBefore, Preparing, Looping,
                      WaitSettled, LaunchAt
<1>5. Checked'
    <2>1. CheckRegistryAuth \/ launch'.pc = "refused"
        <3>1. "refused" \in Pcs /\ 0 \in 0 .. ShardCount
            BY LaunchAssumption DEF Pcs, LaunchEnded
        <3> QED BY <3>1, Moves DEF LaunchInv, Checked, Preparing, LaunchAt
    <2> QED BY <1>2, <2>1 DEF LaunchInv, Checked, CheckRegistryAuth, ImageIsFromRegistry
<1> QED BY <1>3, <1>4, <1>5 DEF LaunchInv

LEMMA InitLaunchInv == LaunchInit => LaunchInv
BY LaunchAssumption
   DEF LaunchInit, LaunchInv, LaunchTypeOK, LaunchPlaces, NotYetCreated, DealtBefore, Checked, Dealt,
       Preparing, Looping, WaitSettled, LaunchEnded, LaunchAt, Shards, Images, Credential,
       CheckRegistryAuth, ImageIsFromRegistry

\* What has been checked stays checked.
LEMMA StaysChecked ==
    ASSUME LaunchInv, launch.pc \notin {"resolve", "refused", "crashed"}, UNCHANGED order
    PROVE  Checked'
BY DEF LaunchInv, Checked, CheckRegistryAuth, ImageIsFromRegistry

\* The passage of the undo, the wait or the cleanup over the shard it is at.
LEMMA PassesShard ==
    ASSUME LaunchTypeOK, NEW s \in Shards,
           DeleteIgnored(s) \/ (shardGroup[s] # "live" /\ UNCHANGED Rented)
    PROVE  /\ shardGroup' \in [Shards -> {"absent", "live", "failed", "deleted"}]
           /\ unsure' \subseteq Shards /\ launchFaults' \in 0 .. MaxLaunchFaults
           /\ \A t \in Shards : t = s \/ Dealt(t) => Dealt(t)'
<1>1. CASE DeleteIgnored(s)
    <2>1. \A t \in Shards : t = s => Dealt(t)'
        BY <1>1, DeleteDeals DEF Dealt
    <2> QED BY <1>1, <2>1, DeleteDeals
<1>2. CASE shardGroup[s] # "live" /\ UNCHANGED Rented
    BY <1>2 DEF LaunchTypeOK, Rented, Dealt
<1> QED BY <1>1, <1>2

LEMMA LaunchInvStep == LaunchInv /\ [LaunchNext]_launchVars => LaunchInv'
<1> SUFFICES ASSUME LaunchInv, [LaunchNext]_launchVars PROVE LaunchInv'
    OBVIOUS
<1> DEFINE Rec == [pc: Pcs, shard: 0 .. ShardCount, undone: 0 .. ShardCount]
<1>0. LaunchTypeOK /\ LaunchPlaces /\ NotYetCreated /\ DealtBefore /\ Checked
    BY DEF LaunchInv
<1>t. /\ launch \in Rec /\ launch.shard \in 0 .. ShardCount /\ ShardCount \in Nat \ {0}
      /\ launch.undone \in 0 .. ShardCount
      /\ {"spec", "create", "undo", "gateways", "save", "spawn", "await", "fetch", "abort",
          "interrupt", "mark"} \cup LaunchEnded \subseteq Pcs
    BY <1>0, LaunchAssumption DEF LaunchTypeOK, Pcs
\* From one shard to the next.
<1>n. ASSUME NextShard, launch.pc \in {"await", "fetch"}, launch.shard \in Shards,
             UNCHANGED <<order, shardGroup, unsure, launchFaults, jobs, finished, runFile>>,
             \A s \in Shards : s <= launch.shard => Dealt(s)
      PROVE  LaunchInv'
    <2>1. /\ launch' \in Rec /\ launch'.shard = launch.shard + 1
          /\ launch'.pc = IF launch.shard + 1 < ShardCount THEN "await" ELSE "mark"
        <3>1. CASE launch.shard + 1 < ShardCount
            BY <1>0, <1>n, <1>t, <3>1, Moves DEF NextShard
        <3>2. CASE ~(launch.shard + 1 < ShardCount)
            <4>1. launch.shard + 1 \in 0 .. ShardCount
                BY <1>n, <1>t DEF Shards
            <4> QED BY <1>0, <1>n, <1>t, <3>2, <4>1, Moves DEF NextShard
        <3> QED BY <3>1, <3>2
    <2>2. LaunchTypeOK'
        BY <1>0, <1>n, <2>1 DEF LaunchTypeOK, Pcs
    <2>3. \A s \in Shards : s < launch.shard + 1 => Dealt(s)'
        BY <1>n, <1>t DEF Dealt, Shards
    <2>4. LaunchPlaces' /\ NotYetCreated' /\ DealtBefore'
        BY <1>n, <1>t, <2>1, <2>3
           DEF LaunchPlaces, NotYetCreated, DealtBefore, Preparing, Looping, WaitSettled, LaunchAt,
               Shards
    <2> QED BY <1>n, <2>2, <2>4, StaysChecked DEF LaunchInv
<1>1. CASE ResolveParams \/ CheckQuota \/ UploadInputs \/ ResolveGpuUuids \/ ParsePriority
    <2>1. CASE ResolveParams
        BY <2>1, PreparedKeepsInv DEF ResolveParams, Preparing
    <2>2. CASE CheckQuota
        BY <2>2, PreparedKeepsInv DEF CheckQuota, Prepared, Preparing
    <2>3. CASE UploadInputs
        BY <2>3, PreparedKeepsInv DEF UploadInputs, Prepared, Preparing
    <2>4. CASE ResolveGpuUuids
        BY <2>4, PreparedKeepsInv DEF ResolveGpuUuids, Prepared, Preparing
    <2>5. CASE ParsePriority
        BY <2>5, PreparedKeepsInv DEF ParsePriority, Prepared, Preparing
    <2> QED BY <1>1, <2>1, <2>2, <2>3, <2>4, <2>5
<1>3. CASE PutSpec
    <2>1. /\ launch' \in Rec /\ launch.pc = "spec" /\ launch'.pc \in {"create", "left"}
          /\ launch'.shard = launch.shard /\ launch'.undone = launch.undone
        BY <1>0, <1>3, <1>t, Moves DEF PutSpec, LaunchAt, LaunchEnded
    <2>0. launch.shard \in Shards
        BY <1>0, <1>t, <2>1 DEF LaunchPlaces, Shards, Looping
    <2>2. jobs \cup {launch.shard} \subseteq Shards /\ launchFaults' \in 0 .. MaxLaunchFaults
        BY <1>0, <1>3, <2>0, LaunchAssumption DEF PutSpec, LaunchFault, LaunchTypeOK
    <2>3. LaunchTypeOK'
        BY <1>0, <1>3, <2>1, <2>2 DEF PutSpec, LaunchTypeOK, Pcs
    <2>4. LaunchPlaces' /\ NotYetCreated' /\ DealtBefore'
        BY <1>0, <1>3, <2>1
           DEF PutSpec, LaunchPlaces, NotYetCreated, DealtBefore, Preparing, Looping, WaitSettled, LaunchAt
    <2> QED BY <1>3, <2>1, <2>3, <2>4, StaysChecked DEF PutSpec, LaunchInv
<1>4. CASE CreateGroup
    <2>0. /\ launch.shard \in Shards /\ launch.pc = "create"
          /\ UNCHANGED <<order, jobs, finished, runFile>>
        BY <1>0, <1>4, <1>t DEF CreateGroup, LaunchAt, LaunchPlaces, Shards, Looping, bucket
    <2>1. CASE /\ Answered(launch.shard, "live")
               /\ launch.shard + 1 < ShardCount /\ LaunchGo("spec", launch.shard + 1)
        <3>0. launch.undone = 0
            BY <1>0, <2>0 DEF LaunchPlaces, Looping
        <3>1. /\ launch' \in Rec /\ launch'.pc = "spec" /\ launch'.shard = launch.shard + 1
              /\ launch'.undone = launch.undone
            BY <1>0, <1>t, <2>1, Moves
        <3>2. LaunchTypeOK'
            BY <1>0, <2>0, <2>1, <3>1 DEF Answered, LaunchTypeOK, Pcs
        <3>3. \A s \in Shards : s >= launch.shard + 1 => shardGroup'[s] = "absent"
            BY <1>0, <2>0, <2>1 DEF Answered, LaunchTypeOK, NotYetCreated, Looping, Shards
        <3>4. LaunchPlaces' /\ NotYetCreated' /\ DealtBefore'
            BY <2>1, <3>0, <3>1, <3>3
               DEF LaunchPlaces, NotYetCreated, DealtBefore, Preparing, Looping, WaitSettled, LaunchAt
        <3> QED BY <2>0, <3>2, <3>4, StaysChecked DEF LaunchInv
    <2>2. CASE Answered(launch.shard, "live") /\ LaunchGo("gateways", 0)
        <3>1. launch' \in Rec /\ launch'.pc = "gateways"
            BY <1>0, <1>t, <2>2, Moves
        <3>2. LaunchTypeOK'
            BY <1>0, <2>0, <2>2, <3>1 DEF Answered, LaunchTypeOK, Pcs
        <3>3. LaunchPlaces' /\ NotYetCreated' /\ DealtBefore'
            BY <3>1 DEF LaunchPlaces, NotYetCreated, DealtBefore, Preparing, Looping, WaitSettled, LaunchAt
        <3> QED BY <2>0, <3>2, <3>3, StaysChecked DEF LaunchInv
    <2>3. CASE Unanswered(launch.shard, "live") /\ LaunchGo("undo", launch.shard)
        <3>1. /\ launch' \in Rec /\ launch'.pc = "undo" /\ launch'.shard = launch.shard
              /\ launch'.undone = launch.undone
            BY <1>0, <1>t, <2>3, Moves
        <3>2. LaunchTypeOK'
            BY <1>0, <2>0, <2>3, <3>1, LaunchAssumption DEF Unanswered, LaunchFault, LaunchTypeOK, Pcs
        <3>3. \A s \in Shards : s >= launch.shard => Dealt(s)'
            BY <1>0, <2>0, <2>3
               DEF Unanswered, LaunchTypeOK, NotYetCreated, Dealt, Looping, Shards
        <3>4. launch.undone = 0
            BY <1>0, <2>0 DEF LaunchPlaces, Looping
        <3>5. LaunchPlaces' /\ NotYetCreated' /\ DealtBefore'
            BY <1>t, <2>0, <3>1, <3>3, <3>4
               DEF LaunchPlaces, NotYetCreated, DealtBefore, Preparing, Looping, WaitSettled, LaunchAt, Shards
        <3> QED BY <2>0, <3>2, <3>5, StaysChecked DEF LaunchInv
    <2> QED BY <1>4, <2>1, <2>2, <2>3 DEF CreateGroup
<1>5. CASE UndoCreated
    <2>0. launch.pc = "undo" /\ UNCHANGED <<order, jobs, finished, runFile>>
        BY <1>5 DEF UndoCreated, LaunchAt, bucket
    <2>1. CASE launch.undone < launch.shard
        <3>1. /\ launch' \in Rec /\ launch'.pc = "undo" /\ launch'.shard = launch.shard
              /\ launch'.undone = launch.undone + 1 /\ launch.undone \in Shards
            BY <1>0, <1>5, <1>t, <2>0, <2>1 DEF UndoCreated, LaunchPlaces, Shards
        <3>2. /\ shardGroup' \in [Shards -> {"absent", "live", "failed", "deleted"}]
              /\ unsure' \subseteq Shards /\ launchFaults' \in 0 .. MaxLaunchFaults
              /\ \A t \in Shards : t = launch.undone \/ Dealt(t) => Dealt(t)'
            BY <1>0, <1>5, <2>1, <3>1, PassesShard DEF UndoCreated
        <3>3. LaunchTypeOK'
            BY <1>0, <2>0, <3>1, <3>2 DEF LaunchTypeOK, Pcs
        <3>4. LaunchPlaces' /\ NotYetCreated'
            BY <1>0, <2>0, <3>1 DEF LaunchPlaces, NotYetCreated, Preparing, Looping
        <3>5. DealtBefore'
            <4>1. \A s \in Shards : s >= launch.shard \/ s < launch.undone => Dealt(s)
                BY <1>0, <2>0 DEF DealtBefore
            <4>2. \A s \in Shards : s >= launch.shard \/ s < launch.undone + 1 => Dealt(s)'
                BY <1>t, <3>2, <4>1 DEF Shards
            <4> QED BY <3>1, <4>2 DEF DealtBefore, WaitSettled, LaunchAt
        <3> QED BY <2>0, <3>3, <3>4, <3>5, StaysChecked DEF LaunchInv
    <2>2. CASE ~(launch.undone < launch.shard)
        <3>1. /\ launch' \in Rec /\ launch'.pc = "createFailed" /\ launch'.shard = launch.shard
              /\ launch'.undone = launch.undone /\ UNCHANGED <<shardGroup, unsure, launchFaults>>
            BY <1>0, <1>5, <1>t, <2>2, Moves DEF UndoCreated, Rented, LaunchEnded
        <3>2. LaunchTypeOK'
            BY <1>0, <2>0, <3>1 DEF LaunchTypeOK, Pcs
        <3>3. LaunchPlaces' /\ NotYetCreated' /\ DealtBefore'
            BY <1>0, <1>t, <2>0, <2>2, <3>1
               DEF LaunchPlaces, NotYetCreated, DealtBefore, Dealt, Preparing, Looping, WaitSettled, LaunchAt
        <3> QED BY <2>0, <3>2, <3>3, StaysChecked DEF LaunchInv
    <2> QED BY <2>1, <2>2
<1>6. CASE ReportGateways \/ SaveState \/ SpawnRunReaper
    <2>1. /\ launch.pc \in {"gateways", "save", "spawn"}
          /\ launch' \in Rec /\ launch'.pc \in {"save", "spawn", "await", "detached"}
          /\ launch'.shard = 0
        BY <1>0, <1>6, <1>t, Moves DEF ReportGateways, SaveState, SpawnRunReaper, LaunchAt, LaunchEnded
    <2>2. /\ UNCHANGED <<order, shardGroup, unsure, launchFaults, jobs, finished>>
          /\ runFile' \in {"none", "running", runFile}
        BY <1>6 DEF ReportGateways, SaveState, SpawnRunReaper, Rented, bucket
    <2>3. LaunchTypeOK'
        BY <1>0, <2>1, <2>2 DEF LaunchTypeOK, Pcs
    <2>4. LaunchPlaces' /\ NotYetCreated' /\ DealtBefore'
        BY <1>t, <2>1 DEF LaunchPlaces, NotYetCreated, DealtBefore, Preparing, Looping, WaitSettled, LaunchAt, Shards
    <2> QED BY <2>1, <2>2, <2>3, <2>4, StaysChecked DEF LaunchInv
\* The shard at hand is dealt with when its result is there, and the next one follows.
<1>7. CASE AwaitShard
    <2>0. /\ launch.pc = "await" /\ launch.shard \in Shards
          /\ UNCHANGED <<order, jobs, finished, runFile>>
        BY <1>0, <1>7, <1>t DEF AwaitShard, LaunchAt, LaunchPlaces, Shards, bucket
    <2>1. CASE DeleteIgnored(launch.shard) /\ LaunchGo("fetch", launch.shard)
        <3>1. launch' \in Rec /\ launch'.shard = launch.shard /\ launch'.pc = "fetch"
            BY <1>0, <1>t, <2>1, Moves
        <3>2. /\ shardGroup' \in [Shards -> {"absent", "live", "failed", "deleted"}]
              /\ unsure' \subseteq Shards /\ launchFaults' \in 0 .. MaxLaunchFaults
              /\ \A t \in Shards : t = launch.shard \/ Dealt(t) => Dealt(t)'
            BY <1>0, <2>0, <2>1, PassesShard
        <3>3. LaunchTypeOK'
            BY <1>0, <2>0, <3>1, <3>2 DEF LaunchTypeOK, Pcs
        <3>4. \A s \in Shards : s <= launch.shard => Dealt(s)'
            BY <1>0, <1>t, <2>0, <3>2 DEF DealtBefore, Shards
        <3>5. LaunchPlaces' /\ NotYetCreated' /\ DealtBefore'
            BY <1>t, <2>0, <3>1, <3>4
               DEF LaunchPlaces, NotYetCreated, DealtBefore, Preparing, Looping, WaitSettled,
                   LaunchAt, Shards
        <3> QED BY <2>0, <3>3, <3>5, StaysChecked DEF LaunchInv
    <2>2. CASE /\ shardGroup[launch.shard] \in {"failed", "deleted"}
               /\ NextShard /\ UNCHANGED Rented
        <3>1. \A s \in Shards : s <= launch.shard => Dealt(s)
            BY <1>0, <1>t, <2>0, <2>2 DEF DealtBefore, Dealt, Shards
        <3> QED BY <1>n, <2>0, <2>2, <3>1 DEF Rented
    <2> QED BY <1>7, <2>1, <2>2 DEF AwaitShard
<1>11. CASE DownloadOutputs
    <2>1. /\ launch.pc = "fetch" /\ launch.shard \in Shards /\ NextShard
          /\ UNCHANGED <<order, shardGroup, unsure, launchFaults, jobs, finished, runFile>>
        BY <1>0, <1>11, <1>t DEF DownloadOutputs, LaunchAt, LaunchPlaces, Shards, bucket, Rented
    <2>2. \A s \in Shards : s <= launch.shard => Dealt(s)
        BY <1>0, <2>1 DEF DealtBefore, LaunchAt
    <2> QED BY <1>n, <2>1, <2>2
<1>8. CASE AwaitFails \/ CtrlC \/ LaunchCrashes
    <2>1. /\ launch' \in Rec /\ launch'.pc \in {"abort", "interrupt", "crashed"}
          /\ launch'.shard = 0
          /\ launch.pc \in {"resolve", "refused", "crashed"} => launch'.pc = "crashed"
        BY <1>0, <1>8, <1>t, Moves DEF AwaitFails, CtrlC, LaunchCrashes, LaunchAt, LaunchEnded
    <2>2. UNCHANGED <<order, shardGroup, unsure, launchFaults, jobs, finished, runFile>>
        BY <1>8 DEF AwaitFails, CtrlC, LaunchCrashes, Rented, bucket
    <2>3. LaunchTypeOK'
        BY <1>0, <2>1, <2>2 DEF LaunchTypeOK, Pcs
    <2>4. LaunchPlaces' /\ NotYetCreated' /\ DealtBefore'
        BY <1>t, <2>1 DEF LaunchPlaces, NotYetCreated, DealtBefore, Preparing, Looping, WaitSettled, LaunchAt, Shards
    <2>5. Checked'
        BY <1>0, <2>1, <2>2 DEF Checked, CheckRegistryAuth, ImageIsFromRegistry
    <2> QED BY <2>3, <2>4, <2>5 DEF LaunchInv
<1>9. CASE Cleanup
    <2>0. launch.pc \in {"abort", "interrupt"} /\ UNCHANGED <<order, jobs, finished, runFile>>
        BY <1>9 DEF Cleanup, bucket
    <2>1. CASE launch.shard < ShardCount
        <3>1. /\ launch' \in Rec /\ launch'.pc = launch.pc /\ launch'.shard = launch.shard + 1
              /\ launch.shard \in Shards
            BY <1>0, <1>9, <1>t, <2>0, <2>1, Moves DEF Cleanup, Shards
        <3>2. /\ shardGroup' \in [Shards -> {"absent", "live", "failed", "deleted"}]
              /\ unsure' \subseteq Shards /\ launchFaults' \in 0 .. MaxLaunchFaults
              /\ \A t \in Shards : t = launch.shard \/ Dealt(t) => Dealt(t)'
            BY <1>0, <1>9, <2>1, <3>1, PassesShard DEF Cleanup
        <3>3. LaunchTypeOK'
            BY <1>0, <2>0, <3>1, <3>2 DEF LaunchTypeOK, Pcs
        <3>4. \A s \in Shards : s < launch.shard + 1 => Dealt(s)'
            BY <1>0, <1>t, <2>0, <3>2 DEF DealtBefore, Shards
        <3>5. LaunchPlaces' /\ NotYetCreated' /\ DealtBefore'
            BY <2>0, <3>1, <3>4 DEF LaunchPlaces, NotYetCreated, DealtBefore, Preparing, Looping, WaitSettled, LaunchAt
        <3> QED BY <2>0, <3>3, <3>5, StaysChecked DEF LaunchInv
    <2>2. CASE ~(launch.shard < ShardCount)
        <3>1. /\ launch' \in Rec /\ launch'.pc \in {"mark", "interrupted"}
              /\ UNCHANGED <<shardGroup, unsure, launchFaults>>
            BY <1>0, <1>9, <1>t, <2>2, Moves DEF Cleanup, Rented, LaunchEnded
        <3>2. LaunchTypeOK'
            BY <1>0, <2>0, <3>1 DEF LaunchTypeOK, Pcs
        <3>3. \A s \in Shards : Dealt(s)'
            BY <1>0, <1>t, <2>0, <2>2, <3>1 DEF DealtBefore, Dealt, Shards
        <3>4. LaunchPlaces' /\ NotYetCreated' /\ DealtBefore'
            BY <3>1, <3>3 DEF LaunchPlaces, NotYetCreated, DealtBefore, Preparing, Looping, WaitSettled, LaunchAt
        <3> QED BY <2>0, <3>2, <3>4, StaysChecked DEF LaunchInv
    <2> QED BY <2>1, <2>2
<1>10. CASE MarkRun
    <2>1. /\ launch' \in Rec /\ launch.pc = "mark" /\ launch'.pc \in {"aborted", "collected"}
        BY <1>0, <1>10, <1>t, Moves DEF MarkRun, LaunchAt, LaunchEnded
    <2>2. /\ UNCHANGED <<order, shardGroup, unsure, launchFaults, jobs, finished>>
          /\ runFile' \in {"none", "succeeded", "failed"}
        BY <1>0, <1>10 DEF MarkRun, Rented, bucket, LaunchTypeOK
    <2>3. LaunchTypeOK'
        BY <1>0, <2>1, <2>2 DEF LaunchTypeOK, Pcs
    <2>4. LaunchPlaces' /\ NotYetCreated' /\ DealtBefore'
        BY <1>0, <2>1, <2>2
           DEF LaunchPlaces, NotYetCreated, DealtBefore, Dealt, Preparing, Looping, WaitSettled, LaunchAt
    <2> QED BY <2>1, <2>2, <2>3, <2>4, StaysChecked DEF LaunchInv
<1>12. ASSUME NEW s \in Shards, ShardFinishes(s) \/ ShardFails(s) PROVE LaunchInv'
    <2>0. /\ UNCHANGED <<launch, order, unsure, launchFaults, jobs, runFile>>
          /\ finished' \subseteq jobs
          /\ shardGroup' = shardGroup \/ shardGroup' = [shardGroup EXCEPT ![s] = "failed"]
          /\ shardGroup[s] = "live"
        BY <1>0, <1>12 DEF ShardFinishes, ShardFails, Rented, bucket, LaunchTypeOK
    <2>1. LaunchTypeOK'
        BY <1>0, <2>0 DEF LaunchTypeOK
    <2>2. LaunchPlaces' /\ NotYetCreated'
        BY <1>0, <2>0 DEF LaunchTypeOK, LaunchPlaces, NotYetCreated
    <2>3. \A t \in Shards : Dealt(t) => Dealt(t)'
        BY <1>0, <2>0 DEF LaunchTypeOK, Dealt
    <2>4. DealtBefore'
        BY <1>0, <2>0, <2>3 DEF DealtBefore, LaunchAt
    <2>5. Checked'
        BY <1>0, <2>0 DEF LaunchTypeOK, Checked, CheckRegistryAuth, ImageIsFromRegistry
    <2> QED BY <2>1, <2>2, <2>4, <2>5 DEF LaunchInv
<1>13. CASE UNCHANGED launchVars
    BY <1>0, <1>13
       DEF launchVars, LaunchInv, LaunchTypeOK, LaunchPlaces, NotYetCreated, DealtBefore, Dealt, Checked,
           CheckRegistryAuth, ImageIsFromRegistry, LaunchAt
<1> QED
    BY <1>1, <1>3, <1>4, <1>5, <1>6, <1>7, <1>8, <1>9, <1>10, <1>11, <1>12, <1>13
       DEF LaunchNext, LoopStep, AwaitStep

\* runner.rs run, await_and_collect and cleanup, for any number of shards: the image of a group
\* can be pulled, a create that fails takes the earlier groups with it, and whatever ends
\* the wait has dealt with every group.
THEOREM LaunchAccounts == LaunchSpec => []LaunchAccountsForGroups
<1>1. LaunchInv => LaunchAccountsForGroups
    <2> SUFFICES ASSUME LaunchInv PROVE LaunchAccountsForGroups
        OBVIOUS
    <2>1. GroupsCanPull
        BY DEF LaunchInv, Checked, GroupsCanPull, CheckRegistryAuth, PullsWithCredential
    <2>2. CreateFailureCleansUp /\ EveryShardIsDealtWith
        BY LaunchAssumption
           DEF LaunchInv, LaunchTypeOK, DealtBefore, Dealt, WaitSettled, LeftLive, LaunchAt, Shards,
               CreateFailureCleansUp, EveryShardIsDealtWith
    <2> QED BY <2>1, <2>2 DEF LaunchAccountsForGroups
<1> QED BY InitLaunchInv, LaunchInvStep, <1>1, PTL DEF LaunchSpec

\* Every reachable state of a launch is within its types.
LEMMA LaunchTyped == LaunchSpec => []LaunchTypeOK
<1>1. LaunchInv => LaunchTypeOK
    BY DEF LaunchInv
<1> QED BY InitLaunchInv, LaunchInvStep, <1>1, PTL DEF LaunchSpec
-----------------------------------------------------------------------------
(***************************************************************************)
(* The spans of a run are times at which its machines ran. The argument: a *)
(* span is open only at the end of the list, from the first sighting of    *)
(* its machine to the last; one machine runs at a time, so between two     *)
(* sightings of it nobody else did; and the collection closes it at the    *)
(* end that the envelope of that same machine gives, or where it was last  *)
(* seen.                                                                   *)
(***************************************************************************)

\* The nodes: one at a time, nobody after now, and the running one since it was allocated.
NodeRan ==
    /\ \A t \in Time : t > now => ran[t] = Nobody
    /\ node.machine # Nobody =>
          node.since <= now /\ \A t \in node.since .. now : ran[t] = node.machine

\* The envelope is of the last node: what it says lies in that node's time, and no other ran
\* after it began.
EnvelopeRan ==
    resultEnvelope.machine # Nobody =>
        /\ ran[resultEnvelope.start] # Nobody
        /\ resultEnvelope.machine \in {ran[resultEnvelope.start], "unknown"}
        /\ ran[resultEnvelope.end] = ran[resultEnvelope.start]
        /\ resultEnvelope.start <= resultEnvelope.end /\ resultEnvelope.end <= now
        /\ node.machine \in {ran[resultEnvelope.start], Nobody}
        /\ \A t \in Time : t >= resultEnvelope.start => ran[t] \in {ran[resultEnvelope.start], Nobody}

\* A tracker has one open span, the last, from its first sighting to the collection.
Tracks ==
    /\ ~collector.on => collector.spans = <<>> /\ collector.last = Never
    /\ \A i \in 1 .. Len(collector.spans) :
          collector.spans[i].end = Never <=> i = Len(collector.spans) /\ collector.last # Never
    /\ collector.last # Never => collector.spans # <<>>
    /\ collections = 0 => savedSpans = <<>> /\ (collector.last = Never => collector.spans = <<>>)

\* Its spans are times at which their machines ran, unless they come from a collection by an
\* envelope that does not name its machine.
RanDuring(s, history, t) ==
    /\ s.start <= s.end /\ s.end <= t
    /\ s.machine = history[s.start] /\ s.machine = history[s.end] /\ s.machine # Nobody
ClosedRan(s) == RanDuring(s, ran, now)
TrackedRan ==
    collections = 0 \/ resultEnvelope.machine # "unknown" =>
        /\ \A i \in 1 .. Len(collector.spans) :
              collector.spans[i].end # Never => ClosedRan(collector.spans[i])
        /\ collector.last # Never =>
              ClosedRan([collector.spans[Len(collector.spans)] EXCEPT !.end = collector.last])
SavedRan ==
    resultEnvelope.machine # "unknown" => \A i \in 1 .. Len(savedSpans) : ClosedRan(savedSpans[i])

\* Until the first collection they follow one another, and no machine follows itself.
TrackedInOrder ==
    collections = 0 =>
        /\ \A i, j \in 1 .. Len(collector.spans) :
              i < j => collector.spans[i].end <= collector.spans[j].start
        /\ \A i \in 1 .. Len(collector.spans) - 1 :
              collector.spans[i].machine # collector.spans[i + 1].machine

CollectorType == [on: BOOLEAN, spans: Seq(Span), last: Time \cup {Never}]
BillingInv ==
    /\ BillingTypeOK /\ collector \in CollectorType
    /\ NodeRan /\ EnvelopeRan /\ Tracks /\ TrackedRan /\ SavedRan /\ TrackedInOrder
    /\ SavedIsSettled

\* The constants, spelled out.
LEMMA Times == /\ MaxTime \in Nat /\ Time = 0 .. MaxTime /\ Never = MaxTime + 1 /\ Never \notin Time
               /\ \A t \in Time : t \in Nat /\ t # Never
               /\ Nobody \notin Machines /\ "unknown" \notin Machines /\ "unknown" # Nobody
BY BillingAssumption DEF Time, Never, Nobody

\* A span, and a span that is closed.
LEMMA SpanTyped ==
    ASSUME NEW s \in Span
    PROVE  /\ s.machine \in Machines \cup {"unknown"} /\ s.machine # Nobody
           /\ s.start \in Time /\ s.end \in Time \cup {Never} /\ (s.end # Never => s.end \in Time)
           /\ \A t \in Time : /\ [s EXCEPT !.end = t] \in Span
                              /\ [s EXCEPT !.end = t].machine = s.machine
                              /\ [s EXCEPT !.end = t].start = s.start
                              /\ [s EXCEPT !.end = t].end = t
BY Times DEF Span

\* What a span says stays true: nobody runs in the past.
LEMMA RanStays ==
    ASSUME NEW s \in Span, s.end # Never, ClosedRan(s), now \in Time, now' \in Time, now <= now',
           \A t \in Time : t <= now /\ ran[t] # Nobody => ran'[t] = ran[t]
    PROVE  ClosedRan(s)'
<1>1. s.start \in Time /\ s.end \in Time /\ s.start <= now /\ s.end <= now /\ s.end <= now'
    BY SpanTyped, Times DEF ClosedRan, RanDuring
<1>2. ran'[s.start] = ran[s.start] /\ ran'[s.end] = ran[s.end]
    BY <1>1 DEF ClosedRan, RanDuring
<1> QED BY <1>1, <1>2 DEF ClosedRan, RanDuring

\* SpanTracker::close: only an open last span changes, and only in its end.
LEMMA CloseLastIs ==
    ASSUME NEW spans \in Seq(Span), NEW t \in Time
    PROVE  /\ CloseLast(spans, t) \in Seq(Span) /\ Len(CloseLast(spans, t)) = Len(spans)
           /\ \A i \in 1 .. Len(spans) :
                 ~(IsOpen(spans) /\ i = Len(spans)) => CloseLast(spans, t)[i] = spans[i]
           /\ ~IsOpen(spans) => CloseLast(spans, t) = spans
           /\ IsOpen(spans) =>
                 /\ Len(spans) \in 1 .. Len(spans)
                 /\ CloseLast(spans, t)[Len(spans)]
                      = [spans[Len(spans)] EXCEPT !.end = Later(t, spans[Len(spans)].start)]
                 /\ Later(t, spans[Len(spans)].start) \in Time
<1>1. CASE ~IsOpen(spans)
    BY <1>1 DEF CloseLast
<1>2. CASE IsOpen(spans)
    <2> DEFINE n == Len(spans)
               e == Later(t, spans[n].start)
    <2>1. n \in Nat /\ n \in 1 .. n /\ spans[n] \in Span
        BY <1>2 DEF IsOpen
    <2>2. e \in Time
        BY <2>1, SpanTyped DEF Later
    <2>3. [spans[n] EXCEPT !.end = e] \in Span
        BY <2>1, <2>2, SpanTyped
    <2>4. CloseLast(spans, t) = [spans EXCEPT ![n] = [spans[n] EXCEPT !.end = e]]
        BY <1>2 DEF CloseLast
    <2> HIDE DEF n, e
    <2>5. /\ CloseLast(spans, t) \in Seq(Span) /\ Len(CloseLast(spans, t)) = Len(spans)
          /\ \A i \in 1 .. Len(spans) : i # n => CloseLast(spans, t)[i] = spans[i]
          /\ CloseLast(spans, t)[n] = [spans[n] EXCEPT !.end = e]
        BY <2>1, <2>3, <2>4 DEF n
    <2> QED BY <1>2, <2>1, <2>2, <2>5 DEF n, e
<1> QED BY <1>1, <1>2

\* A tracker's last span is open exactly while it has seen its machine run.
LEMMA OpenWhenSeen ==
    ASSUME BillingInv
    PROVE  /\ collector.spans \in Seq(Span) /\ collector.last \in Time \cup {Never}
           /\ IsOpen(collector.spans) <=> collector.last # Never
<1>1. collector.spans \in Seq(Span) /\ collector.last \in Time \cup {Never}
    BY DEF BillingInv, CollectorType
<1>2. Len(collector.spans) \in Nat /\ (collector.spans # <<>> => Len(collector.spans) \in 1 .. Len(collector.spans))
    BY <1>1
<1> QED BY <1>1, <1>2 DEF BillingInv, Tracks, IsOpen

\* The machine of every collection so far is known.
Known == collections = 0 \/ resultEnvelope.machine # "unknown"

\* What the tracker has once its last span is closed.
LEMMA ClosedSpans ==
    ASSUME BillingInv, NEW t \in Time, NEW c, c = CloseLast(collector.spans, Boundary(t))
    PROVE  /\ c \in Seq(Span) /\ Len(c) = Len(collector.spans)
           /\ \A i \in 1 .. Len(c) : /\ c[i].end # Never /\ c[i].start = collector.spans[i].start
                                     /\ c[i].machine = collector.spans[i].machine
                                     /\ i < Len(c) => c[i] = collector.spans[i]
           /\ Known => \A i \in 1 .. Len(c) : ClosedRan(c[i])
           /\ Known /\ collector.last # Never =>
                 Len(c) \in 1 .. Len(c) /\ c[Len(c)].end = collector.last
           /\ collector.last = Never => c = collector.spans
<1> DEFINE spans == collector.spans
           n == Len(spans)
<1>1. /\ spans \in Seq(Span) /\ n \in Nat /\ collector.last \in Time \cup {Never}
      /\ IsOpen(spans) <=> collector.last # Never
    BY OpenWhenSeen
<1>2. Boundary(t) \in Time /\ (collector.last # Never => Boundary(t) = collector.last)
    BY <1>1 DEF Boundary
<1>3. \A i \in 1 .. n : spans[i] \in Span /\ (spans[i].end = Never <=> i = n /\ IsOpen(spans))
    BY <1>1 DEF BillingInv, Tracks
<1>4. CASE ~IsOpen(spans)
    <2>1. c = spans
        BY <1>1, <1>2, <1>4, CloseLastIs
    <2>2. collector.last = Never
        BY <1>1, <1>4
    <2>3. Known => \A i \in 1 .. n : ClosedRan(spans[i])
        BY <1>3, <1>4 DEF BillingInv, TrackedRan, Known
    <2> QED BY <1>1, <1>3, <1>4, <2>1, <2>2, <2>3
<1>5. CASE IsOpen(spans)
    <2> DEFINE last == spans[n]
               e == Later(Boundary(t), last.start)
    <2>1. /\ n \in 1 .. n /\ c \in Seq(Span) /\ Len(c) = n
          /\ \A i \in 1 .. n : i # n => c[i] = spans[i]
          /\ c[n] = [last EXCEPT !.end = e] /\ e \in Time
        BY <1>1, <1>2, <1>5, CloseLastIs
    <2>2. last \in Span /\ last.start \in Time
        BY <1>3, <2>1, SpanTyped
    <2>3. c[n].end = e /\ c[n].start = last.start /\ c[n].machine = last.machine /\ e # Never
        BY <2>1, <2>2, SpanTyped, Times
    <2>4. \A i \in 1 .. n : i < n => c[i] = spans[i] /\ c[i].end # Never
        BY <1>3, <2>1
    <2>5. ASSUME Known PROVE e = collector.last /\ \A i \in 1 .. n : ClosedRan(c[i])
        <3>1. collector.last \in Time /\ Boundary(t) = collector.last
            BY <1>1, <1>2, <1>5
        <3>2. ClosedRan([last EXCEPT !.end = collector.last])
            BY <1>1, <1>5, <2>5 DEF BillingInv, TrackedRan, Known
        <3>3. last.start <= collector.last
            BY <3>1, <3>2, <2>2, SpanTyped DEF ClosedRan, RanDuring
        <3>4. e = collector.last
            BY <3>1, <3>3, <2>2, Times DEF Later
        <3>5. \A i \in 1 .. n : i # n => ClosedRan(c[i])
            BY <1>3, <2>1, <2>5 DEF BillingInv, TrackedRan, Known
        <3> QED BY <3>2, <3>4, <3>5, <2>1
    <2> HIDE DEF last, e
    <2>6. \A i \in 1 .. n : c[i].start = spans[i].start /\ c[i].machine = spans[i].machine
                            /\ c[i].end # Never
        <3>1. ASSUME NEW i \in 1 .. n, i # n
              PROVE  c[i].start = spans[i].start /\ c[i].machine = spans[i].machine
                     /\ c[i].end # Never
            BY <3>1, <2>1, <1>3
        <3>2. c[n].start = spans[n].start /\ c[n].machine = spans[n].machine /\ c[n].end # Never
            BY <2>3 DEF last
        <3> HIDE DEF spans, n
        <3> QED BY <3>1, <3>2
    <2> HIDE DEF spans, n
    <2> QED BY <1>1, <1>5, <2>1, <2>3, <2>4, <2>5, <2>6 DEF spans, n
<1> QED BY <1>4, <1>5

\* The next sighting: the tracker's spans after it, whether the old one goes on or not.
LEMMA PollKeeps ==
    ASSUME BillingInv, PollShard
    PROVE  /\ collector' \in CollectorType /\ Tracks'
           /\ TrackedRan' /\ TrackedInOrder'
<1> DEFINE spans == collector.spans
           n == Len(spans)
           m == node.machine
           new == [machine |-> m, start |-> now, end |-> Never]
           c == CloseLast(spans, HandOver(now))
<1>0. /\ collector \in CollectorType /\ collector.on /\ now \in Time /\ m \in Machines
      /\ spans \in Seq(Span) /\ n \in Nat /\ collector.last \in Time \cup {Never}
      /\ IsOpen(spans) <=> collector.last # Never
      /\ ran[now] = m /\ m # Nobody
      /\ UNCHANGED <<now, ran, resultEnvelope, collections, savedSpans>>
    <2>1. m \in Machines /\ m # Nobody /\ now \in Time /\ node.since \in Time
        BY Times DEF PollShard, BillingInv, BillingTypeOK
    <2>2. ran[now] = m
        BY <2>1, Times DEF BillingInv, NodeRan
    <2> QED BY <2>1, <2>2, OpenWhenSeen DEF PollShard, BillingInv
<1>1. CASE IsOpen(spans) /\ LastMachine(spans) = m
    <2>1. collector' = [collector EXCEPT !.last = now]
        BY <1>1 DEF PollShard, Observe
    <2>2. collector' \in CollectorType /\ collector'.spans = spans /\ collector'.last = now /\ collector'.on
        BY <1>0, <2>1 DEF CollectorType
    <2>3. Tracks'
        BY <1>0, <1>1, <2>2, Times DEF BillingInv, Tracks
    <2>4. TrackedInOrder'
        BY <1>0, <2>2 DEF BillingInv, TrackedInOrder
    <2>5. TrackedRan'
        <3> SUFFICES ASSUME Known
                     PROVE  /\ \A i \in 1 .. n : spans[i].end # Never => ClosedRan(spans[i])
                            /\ ClosedRan([spans[n] EXCEPT !.end = now])
            BY <1>0, <2>2 DEF TrackedRan, Known, ClosedRan
        <3>1. \A i \in 1 .. n : spans[i].end # Never => ClosedRan(spans[i])
            BY DEF BillingInv, TrackedRan, Known
        <3>2. spans[n] \in Span /\ spans[n].machine = m
            BY <1>0, <1>1 DEF IsOpen, LastMachine
        <3>3. ClosedRan([spans[n] EXCEPT !.end = collector.last])
            BY <1>0, <1>1 DEF BillingInv, TrackedRan, Known
        <3>4. collector.last \in Time
            BY <1>0, <1>1
        <3>5. spans[n].start <= now /\ spans[n].machine = ran[spans[n].start]
            BY <1>0, <3>2, <3>3, <3>4, SpanTyped, Times DEF ClosedRan, RanDuring
        <3> HIDE DEF spans, n, m
        <3> QED BY <1>0, <3>1, <3>2, <3>5, SpanTyped, Times DEF ClosedRan, RanDuring
    <2> QED BY <2>2, <2>3, <2>4, <2>5
<1>2. CASE ~(IsOpen(spans) /\ LastMachine(spans) = m)
    <2>1. /\ c \in Seq(Span) /\ Len(c) = n
          /\ \A i \in 1 .. n : /\ c[i].end # Never /\ c[i].start = spans[i].start
                               /\ c[i].machine = spans[i].machine
                               /\ i < n => c[i] = spans[i]
          /\ Known => \A i \in 1 .. n : ClosedRan(c[i])
        BY <1>0, ClosedSpans DEF HandOver
    <2>2. new \in Span /\ new.machine = m /\ new.start = now /\ new.end = Never
          /\ [new EXCEPT !.end = now] = [machine |-> m, start |-> now, end |-> now]
        BY <1>0, Times DEF Span
    <2>3. collector' = [collector EXCEPT !.spans = Append(c, new), !.last = now]
        BY <1>2 DEF PollShard, Observe
    <2> DEFINE after == Append(c, new)
    <2> HIDE DEF c, new
    <2>4. /\ after \in Seq(Span) /\ Len(after) = n + 1 /\ after[n + 1] = new
          /\ \A i \in 1 .. n : after[i] = c[i]
        BY <1>0, <2>1, <2>2
    <2>5. collector' \in CollectorType /\ collector'.spans = after /\ collector'.last = now /\ collector'.on
        BY <1>0, <2>3, <2>4 DEF CollectorType
    <2> HIDE DEF after
    <2>6. \A i \in 1 .. n + 1 : i \in 1 .. n \/ i = n + 1
        BY <1>0
    <2>7. \A i \in 1 .. n : i # n + 1
        BY <1>0
    <2>8. Tracks'
        <3>1. \A i \in 1 .. n + 1 : after[i].end = Never <=> i = n + 1
            BY <2>1, <2>2, <2>4, <2>6, <2>7
        <3>2. now # Never /\ after # <<>>
            BY <1>0, <2>4, Times
        <3>3. collections = 0 => savedSpans = <<>>
            BY DEF BillingInv, Tracks
        <3> HIDE DEF spans, n
        <3> QED BY <1>0, <2>4, <2>5, <3>1, <3>2, <3>3 DEF Tracks
    <2>9. TrackedRan'
        <3> SUFFICES ASSUME Known
                     PROVE  /\ \A i \in 1 .. n + 1 : after[i].end # Never => ClosedRan(after[i])
                            /\ ClosedRan([new EXCEPT !.end = now])
            BY <1>0, <2>4, <2>5 DEF TrackedRan, Known, ClosedRan
        <3>1. \A i \in 1 .. n : ClosedRan(after[i])
            BY <2>1, <2>4
        <3>2. \A i \in 1 .. n + 1 : after[i].end # Never => ClosedRan(after[i])
            BY <2>2, <2>4, <2>6, <3>1
        <3>3. ClosedRan([machine |-> m, start |-> now, end |-> now])
            BY <1>0, Times DEF ClosedRan, RanDuring
        <3> QED BY <2>2, <3>2, <3>3
    <2>10. TrackedInOrder'
        <3> SUFFICES ASSUME collections = 0
                     PROVE  /\ \A i, j \in 1 .. n + 1 : i < j => after[i].end <= after[j].start
                            /\ \A i \in 1 .. n : after[i].machine # after[i + 1].machine
            BY <1>0, <2>4, <2>5 DEF TrackedInOrder
        <3>0. /\ \A i, j \in 1 .. n : i < j => spans[i].end <= spans[j].start
              /\ \A i \in 1 .. n - 1 : spans[i].machine # spans[i + 1].machine
              /\ IsOpen(spans) \/ n = 0
            BY <1>0 DEF BillingInv, TrackedInOrder, Tracks
        <3>1. \A i \in 1 .. n : c[i].end <= now
            BY <2>1 DEF Known, ClosedRan, RanDuring
        <3>2. \A i, j \in 1 .. n : i < j => c[i].end <= c[j].start
            <4> SUFFICES ASSUME NEW i \in 1 .. n, NEW j \in 1 .. n, i < j PROVE c[i].end <= c[j].start
                OBVIOUS
            <4>1. i < n
                BY <1>0
            <4>2. c[i] = spans[i] /\ c[j].start = spans[j].start
                BY <2>1, <4>1
            <4> QED BY <3>0, <4>2
        <3>3. ASSUME NEW i \in 1 .. n + 1, NEW j \in 1 .. n + 1, i < j
              PROVE  after[i].end <= after[j].start
            <4>1. i \in 1 .. n /\ after[i] = c[i]
                BY <1>0, <2>4, <3>3
            <4>2. CASE j = n + 1
                BY <2>2, <2>4, <3>1, <4>1, <4>2
            <4>3. CASE j \in 1 .. n
                BY <2>4, <3>2, <3>3, <4>1, <4>3
            <4> QED BY <2>6, <4>2, <4>3
        <3>4. ASSUME NEW i \in 1 .. n PROVE after[i].machine # after[i + 1].machine
            <4>0. after[i].machine = spans[i].machine
                BY <2>1, <2>4
            <4>1. CASE i = n
                <5>1. LastMachine(spans) # m
                    BY <1>2, <3>0, <4>1, <1>0
                <5> QED BY <2>2, <2>4, <4>0, <4>1, <5>1 DEF LastMachine
            <4>2. CASE i # n
                <5>1. i \in 1 .. n - 1 /\ i + 1 \in 1 .. n
                    BY <1>0, <4>2
                <5>2. after[i + 1].machine = spans[i + 1].machine
                    BY <2>1, <2>4, <5>1
                <5> QED BY <3>0, <4>0, <5>1, <5>2
            <4> QED BY <4>1, <4>2
        <3> QED BY <3>3, <3>4
    <2> QED BY <2>5, <2>8, <2>9, <2>10
<1> QED BY <1>1, <1>2

\* Spans that follow one another.
Ordered(spans) == \A i, j \in 1 .. Len(spans) : i < j => spans[i].end <= spans[j].start
Settled(spans) ==
    /\ spans \in Seq(Span)
    /\ \A i \in 1 .. Len(spans) : spans[i].end # Never
    /\ resultEnvelope.machine # "unknown" => \A i \in 1 .. Len(spans) : ClosedRan(spans[i])
    /\ collections = 0 => Ordered(spans)

\* Nothing was written: close() is CloseLast at the last sighting.
LEMMA CloseSettles ==
    ASSUME BillingInv
    PROVE  Settled(Close)
<1> DEFINE spans == collector.spans
           c == CloseLast(spans, Boundary(now))
<1>0. /\ now \in Time /\ spans \in Seq(Span) /\ Len(spans) \in Nat
      /\ collector.last \in Time \cup {Never}
    BY OpenWhenSeen DEF BillingInv, BillingTypeOK
<1>1. /\ c \in Seq(Span) /\ Len(c) = Len(spans)
      /\ \A i \in 1 .. Len(c) : /\ c[i].end # Never /\ c[i].start = spans[i].start
                                /\ c[i].machine = spans[i].machine
                                /\ i < Len(c) => c[i] = spans[i]
      /\ Known => \A i \in 1 .. Len(c) : ClosedRan(c[i])
      /\ collector.last = Never => c = spans
    BY <1>0, ClosedSpans
<1>2. Close = c
    BY <1>1 DEF Close, Boundary
<1> HIDE DEF c
<1>3. collections = 0 => Ordered(c)
    <2> SUFFICES ASSUME collections = 0, NEW i \in 1 .. Len(c), NEW j \in 1 .. Len(c), i < j
                 PROVE  c[i].end <= c[j].start
        BY DEF Ordered
    <2>1. i < Len(c) /\ i \in 1 .. Len(spans) /\ j \in 1 .. Len(spans)
        BY <1>0, <1>1
    <2>2. c[i] = spans[i] /\ c[j].start = spans[j].start
        BY <1>1, <2>1
    <2> QED BY <2>1, <2>2 DEF BillingInv, TrackedInOrder
<1> QED BY <1>1, <1>2, <1>3 DEF Settled, Known

\* While nothing was collected, what was closed before the last sighting ended before the
\* envelope's node began, unless that node was the one seen last and nobody before it.
LEMMA BeforeEnvelope ==
    ASSUME BillingInv, resultEnvelope.machine # Nobody, NEW s \in Span, ClosedRan(s),
           s.end # Never, s.end >= resultEnvelope.start
    PROVE  s.machine = ran[resultEnvelope.start]
<1>1. s.end \in Time /\ s.machine = ran[s.end] /\ s.machine # Nobody
    BY SpanTyped DEF ClosedRan, RanDuring
<1> QED BY <1>1 DEF BillingInv, EnvelopeRan

\* finalize: the window takes the open span's place, or follows the closed ones.
LEMMA FinalizeSettles ==
    ASSUME BillingInv, resultEnvelope.machine # Nobody
    PROVE  Settled(FinalizeWithEnvelope)
<1> DEFINE spans == collector.spans
           n == Len(spans)
           env == resultEnvelope
           window == [machine |-> env.machine, start |-> env.start, end |-> env.end]
           f == FinalizeWithEnvelope
<1>0. /\ spans \in Seq(Span) /\ n \in Nat /\ collector.last \in Time \cup {Never}
      /\ IsOpen(spans) <=> collector.last # Never
    BY OpenWhenSeen
<1>1. /\ env.start \in Time /\ env.end \in Time /\ env.end # Never
      /\ env.start <= env.end /\ env.end <= now
      /\ ran[env.end] = ran[env.start] /\ ran[env.start] # Nobody
      /\ env.machine \in {ran[env.start], "unknown"}
      /\ window \in Span /\ window.machine = env.machine /\ window.start = env.start
      /\ window.end = env.end
    <2>1. /\ env.machine \in Machines \cup {"unknown"} /\ env.start \in Time /\ env.end \in Time
        BY DEF BillingInv, BillingTypeOK
    <2> QED BY <2>1, Times DEF BillingInv, EnvelopeRan, Span
<1>2. /\ collections = 0 => \A i, j \in 1 .. n : i < j => spans[i].end <= spans[j].start
      /\ collections = 0 => \A i \in 1 .. n - 1 : spans[i].machine # spans[i + 1].machine
      /\ collections = 0 => IsOpen(spans) \/ n = 0
      /\ \A i \in 1 .. n : spans[i] \in Span
      /\ \A i \in 1 .. n : i < n => spans[i].end # Never
      /\ IsOpen(spans) => n \in 1 .. n
    BY <1>0 DEF BillingInv, TrackedInOrder, Tracks, IsOpen
<1>3. ASSUME Known PROVE \A i \in 1 .. n : spans[i].end # Never => ClosedRan(spans[i])
    BY <1>3 DEF BillingInv, TrackedRan, Known
\* The last span, up to its last sighting.
<1>4. ASSUME Known, IsOpen(spans)
      PROVE  /\ spans[n].start <= collector.last /\ spans[n].machine = ran[spans[n].start]
             /\ spans[n].machine = ran[collector.last] /\ spans[n].machine # Nobody
             /\ collector.last \in Time /\ spans[n].start \in Time
    <2>1. ClosedRan([spans[n] EXCEPT !.end = collector.last])
        BY <1>0, <1>4 DEF BillingInv, TrackedRan, Known
    <2>2. spans[n] \in Span /\ collector.last \in Time
        BY <1>0, <1>2, <1>4
    <2> HIDE DEF spans, n
    <2> QED BY <2>1, <2>2, SpanTyped DEF ClosedRan, RanDuring
<1>5. CASE IsOpen(spans) /\ env.machine \in {"unknown", LastMachine(spans)}
    <2> DEFINE s == [spans[n] EXCEPT !.start = env.start, !.end = env.end]
    <2>1. f = [spans EXCEPT ![n] = s]
        BY <1>5 DEF FinalizeWithEnvelope
    <2>2. s \in Span /\ s.machine = spans[n].machine /\ s.start = env.start /\ s.end = env.end
        BY <1>1, <1>2, <1>5 DEF Span
    <2> HIDE DEF s, f
    <2>3. /\ f \in Seq(Span) /\ Len(f) = n /\ f[n] = s
          /\ \A i \in 1 .. n : i # n => f[i] = spans[i]
        BY <1>0, <1>2, <1>5, <2>1, <2>2
    <2>4. \A i \in 1 .. n : i = n \/ i < n
        BY <1>0
    <2>5. \A i \in 1 .. n : f[i].end # Never
        BY <1>1, <1>2, <2>2, <2>3, <2>4
    <2>6. ASSUME env.machine # "unknown" PROVE \A i \in 1 .. n : ClosedRan(f[i])
        <3>1. ClosedRan(s)
            BY <1>1, <1>5, <2>2, <2>6 DEF ClosedRan, RanDuring, LastMachine
        <3>2. Known
            BY <2>6 DEF Known
        <3> QED BY <1>2, <1>3, <2>3, <2>4, <3>1, <3>2
    <2>7. ASSUME collections = 0 PROVE Ordered(f)
        <3>0. Known
            BY <2>7 DEF Known
        \* Nothing before the last span reaches into the window: its machine would be that of
        \* the window, and so would the last one's.
        <3>1. ASSUME NEW i \in 1 .. n, i < n PROVE spans[i].end <= env.start
            <4> SUFFICES ASSUME spans[i].end > env.start PROVE FALSE
                <5>1. spans[i].end \in Time
                    BY <1>2, <3>1, SpanTyped
                <5> QED BY <1>1, <5>1, Times
            <4> DEFINE h == n - 1
            <4>1. h \in 1 .. n /\ h < n /\ (i = h \/ i < h) /\ h + 1 = n
                BY <1>0, <3>1
            <4>2. /\ spans[h] \in Span /\ spans[h].end \in Time /\ spans[i] \in Span
                  /\ spans[h].start \in Time /\ spans[i].end \in Time
                BY <1>2, <3>1, <4>1, SpanTyped
            <4>3. ClosedRan(spans[h]) /\ ClosedRan(spans[i])
                BY <1>2, <1>3, <3>0, <3>1, <4>1
            <4>4. spans[i].end <= spans[h].end
                <5>1. CASE i = h
                    BY <4>2, <5>1, Times
                <5>2. CASE i < h
                    <6>1. spans[i].end <= spans[h].start
                        BY <1>2, <2>7, <4>1, <5>2
                    <6>2. spans[h].start <= spans[h].end
                        BY <4>3 DEF ClosedRan, RanDuring
                    <6> QED BY <4>2, <6>1, <6>2, Times, SMTT(30)
                <5> QED BY <4>1, <5>1, <5>2
            <4>5. spans[h].end >= env.start
                BY <1>1, <4>2, <4>4, Times, SMTT(30)
            <4>6. spans[h].machine = ran[env.start]
                BY <4>2, <4>3, <4>5, BeforeEnvelope, Times
            <4>7. spans[h].end <= spans[n].start
                BY <1>2, <2>7, <4>1, <1>5
            <4>8. spans[n].machine = ran[env.start]
                <5>1. /\ spans[n].start \in Time /\ spans[n].machine = ran[spans[n].start]
                      /\ spans[n].machine # Nobody
                    BY <1>4, <1>5, <3>0
                <5>2. spans[n].start >= env.start
                    BY <1>1, <4>2, <4>5, <4>7, <5>1, Times, SMTT(30)
                <5> QED BY <1>1, <5>1, <5>2 DEF BillingInv, EnvelopeRan
            <4>9. h \in 1 .. n - 1
                BY <1>0, <4>1
            <4> QED BY <1>2, <2>7, <4>1, <4>6, <4>8, <4>9
        <3>2. ASSUME NEW i \in 1 .. n, NEW j \in 1 .. n, i < j PROVE f[i].end <= f[j].start
            <4>1. i < n /\ f[i] = spans[i]
                BY <1>0, <2>3, <3>2
            <4>2. CASE j = n
                BY <2>2, <2>3, <3>1, <4>1, <4>2
            <4>3. CASE j # n
                BY <1>2, <2>3, <2>7, <3>2, <4>1, <4>3
            <4> QED BY <4>2, <4>3
        <3> QED BY <2>3, <3>2 DEF Ordered
    <2> QED BY <2>3, <2>5, <2>6, <2>7 DEF Settled, f
<1>6. CASE ~(IsOpen(spans) /\ env.machine \in {"unknown", LastMachine(spans)})
    <2> DEFINE c == CloseLast(spans, Boundary(env.start))
    <2>1. f = Append(c, window)
        BY <1>6, <1>1 DEF FinalizeWithEnvelope
    <2>2. /\ c \in Seq(Span) /\ Len(c) = n
          /\ \A i \in 1 .. n : /\ c[i].end # Never /\ c[i].start = spans[i].start
                               /\ c[i].machine = spans[i].machine
                               /\ i < n => c[i] = spans[i]
          /\ Known => \A i \in 1 .. n : ClosedRan(c[i])
          /\ Known /\ IsOpen(spans) => c[n].end = collector.last
        BY <1>0, <1>1, ClosedSpans
    <2> HIDE DEF c, f, window
    <2>3. /\ f \in Seq(Span) /\ Len(f) = n + 1 /\ f[n + 1] = window
          /\ \A i \in 1 .. n : f[i] = c[i]
        BY <1>0, <1>1, <2>1, <2>2
    <2>4. \A i \in 1 .. n + 1 : i \in 1 .. n \/ i = n + 1
        BY <1>0
    <2>5. \A i \in 1 .. n + 1 : f[i].end # Never
        BY <1>1, <2>2, <2>3, <2>4
    <2>6. ASSUME env.machine # "unknown" PROVE \A i \in 1 .. n + 1 : ClosedRan(f[i])
        <3>1. ClosedRan(window)
            BY <1>1, <2>6 DEF ClosedRan, RanDuring
        <3>2. Known
            BY <2>6 DEF Known
        <3> QED BY <2>2, <2>3, <2>4, <3>1, <3>2
    <2>7. ASSUME collections = 0 PROVE Ordered(f)
        <3>0. Known
            BY <2>7 DEF Known
        <3>1. ASSUME IsOpen(spans) PROVE collector.last <= env.start
            <4>1. LastMachine(spans) # ran[env.start]
                BY <1>1, <1>6, <3>1
            <4>2. /\ collector.last \in Time /\ spans[n].machine = ran[collector.last]
                  /\ spans[n].machine # Nobody
                BY <1>4, <3>0, <3>1
            <4>3. ~(collector.last >= env.start)
                BY <4>1, <4>2 DEF BillingInv, EnvelopeRan, LastMachine
            <4> QED BY <1>1, <4>2, <4>3, Times
        <3>2. ASSUME NEW i \in 1 .. n PROVE c[i].end <= env.start
            <4>1. IsOpen(spans)
                BY <1>0, <1>2, <2>7, <3>2
            <4>2. CASE i = n
                BY <2>2, <3>0, <3>1, <4>1, <4>2
            <4>3. CASE i # n
                <5>1. i < n /\ n \in 1 .. n
                    BY <1>0, <4>3
                <5>2. c[i] = spans[i] /\ spans[i].end <= spans[n].start
                    BY <1>2, <2>2, <2>7, <5>1
                <5>3. spans[n].start <= collector.last /\ collector.last \in Time
                      /\ spans[n].start \in Time
                    BY <1>4, <3>0, <4>1
                <5>4. spans[i].end \in Time
                    BY <1>2, <5>1, SpanTyped
                <5> QED BY <1>1, <3>1, <4>1, <5>2, <5>3, <5>4, Times, SMTT(30)
            <4> QED BY <4>2, <4>3
        <3>3. ASSUME NEW i \in 1 .. n + 1, NEW j \in 1 .. n + 1, i < j
              PROVE  f[i].end <= f[j].start
            <4>1. i \in 1 .. n /\ f[i] = c[i]
                BY <1>0, <2>3, <3>3
            <4>2. CASE j = n + 1
                BY <1>1, <2>3, <3>2, <4>1, <4>2
            <4>3. CASE j \in 1 .. n
                <5>1. i < n
                    BY <1>0, <3>3, <4>3
                <5>2. c[i] = spans[i] /\ c[j].start = spans[j].start
                    BY <2>2, <4>1, <4>3, <5>1
                <5> QED BY <1>2, <2>3, <2>7, <3>3, <4>1, <4>3, <5>2
            <4> QED BY <2>4, <4>2, <4>3
        <3> QED BY <2>3, <3>3 DEF Ordered
    <2> QED BY <2>3, <2>5, <2>6, <2>7 DEF Settled, f
<1> QED BY <1>5, <1>6

\* Nothing has run at first.
LEMMA InitBillingInv == BillingInit => BillingInv
<1> SUFFICES ASSUME BillingInit PROVE BillingInv
    OBVIOUS
<1>1. 0 \in Time /\ Never \in Time \cup {Never}
    BY Times
<1>2. collector \in CollectorType /\ collector.spans = <<>> /\ collector.last = Never /\ collector.on
    <2>1. NoTracker \in CollectorType /\ NoTracker.spans = <<>> /\ NoTracker.last = Never
        BY <1>1 DEF NoTracker, CollectorType
    <2> HIDE DEF NoTracker
    <2> QED BY <2>1 DEF BillingInit, CollectorType
<1>3. BillingTypeOK
    BY <1>1, <1>2, BillingAssumption DEF BillingInit, BillingTypeOK, CollectorType
<1> QED BY <1>1, <1>2, <1>3
       DEF BillingInit, BillingInv, NodeRan, EnvelopeRan, Tracks, TrackedRan, SavedRan,
           TrackedInOrder, SavedIsSettled

\* The nodes: what ran in the past stays, and so does every span's claim.
LEMMA NodesKeepInv ==
    ASSUME BillingInv, Tick \/ Leaves \/ \E m \in Machines : Allocate(m)
    PROVE  BillingInv'
<1>0. /\ now \in Time /\ ran \in [Time -> Machines \cup {Nobody}]
      /\ node \in [machine: Machines \cup {Nobody}, since: Time]
      /\ UNCHANGED <<resultEnvelope, collector, savedSpans, collections>>
    BY DEF BillingInv, BillingTypeOK, Tick, Leaves, Allocate
<1>1. /\ now' \in Time /\ now <= now' /\ ran' \in [Time -> Machines \cup {Nobody}]
      /\ node' \in [machine: Machines \cup {Nobody}, since: Time]
    BY <1>0, Times DEF Tick, Leaves, Allocate
<1>2. \A t \in Time : t <= now /\ ran[t] # Nobody => ran'[t] = ran[t]
    BY <1>0, Times DEF Tick, Leaves, Allocate
<1>3. NodeRan'
    <2>1. CASE Tick
        <3>1. now' = now + 1 /\ node' = node /\ ran' = [ran EXCEPT ![now + 1] = node.machine]
            BY <2>1 DEF Tick
        <3>2. \A t \in Time : t > now' => ran'[t] = Nobody
            BY <1>0, <1>1, <3>1, Times DEF BillingInv, NodeRan
        <3>3. ASSUME node.machine # Nobody, NEW t \in node.since .. now + 1
              PROVE  ran'[t] = node.machine
            <4>1. t \in Time /\ node.since \in Time
                BY <1>0, <1>1, <3>1, <3>3, Times
            <4>2. t = now + 1 \/ t \in node.since .. now
                BY <1>0, <3>3, <4>1, Times
            <4> QED BY <1>0, <3>1, <3>3, <4>1, <4>2 DEF BillingInv, NodeRan
        <3>4. node.machine # Nobody => node.since <= now'
            BY <1>0, <3>1, Times DEF BillingInv, NodeRan
        <3> QED BY <3>1, <3>2, <3>3, <3>4 DEF NodeRan
    <2>2. CASE Leaves
        BY <1>0, <2>2 DEF Leaves, BillingInv, NodeRan
    <2>3. ASSUME NEW m \in Machines, Allocate(m) PROVE NodeRan'
        <3>1. now' = now /\ node'.since = now /\ node'.machine = m /\ ran' = [ran EXCEPT ![now] = m]
            BY <2>3 DEF Allocate
        <3>2. \A t \in Time : t > now => ran'[t] = Nobody
            BY <1>0, <3>1, Times DEF BillingInv, NodeRan
        <3>3. \A t \in now .. now : t = now
            BY <1>0, Times
        <3> QED BY <1>0, <3>1, <3>2, <3>3, Times DEF NodeRan
    <2> QED BY <2>1, <2>2, <2>3
<1>4. EnvelopeRan'
    <2> DEFINE env == resultEnvelope
    <2> SUFFICES ASSUME env.machine # Nobody
                 PROVE  /\ ran'[env.start] # Nobody
                        /\ env.machine \in {ran'[env.start], "unknown"}
                        /\ ran'[env.end] = ran'[env.start]
                        /\ env.start <= env.end /\ env.end <= now'
                        /\ node'.machine \in {ran'[env.start], Nobody}
                        /\ \A t \in Time : t >= env.start => ran'[t] \in {ran'[env.start], Nobody}
        BY <1>0 DEF EnvelopeRan
    <2>1. /\ ran[env.start] # Nobody /\ env.machine \in {ran[env.start], "unknown"}
          /\ ran[env.end] = ran[env.start] /\ env.start <= env.end /\ env.end <= now
          /\ node.machine \in {ran[env.start], Nobody}
          /\ \A t \in Time : t >= env.start => ran[t] \in {ran[env.start], Nobody}
          /\ env.start \in Time /\ env.end \in Time
        BY DEF BillingInv, EnvelopeRan, BillingTypeOK
    <2>2. ran'[env.start] = ran[env.start] /\ ran'[env.end] = ran[env.end] /\ env.end <= now'
        BY <1>0, <1>1, <1>2, <2>1, Times
    <2>3. (node'.machine = node.machine \/ node'.machine = Nobody)
          /\ \A t \in Time : ran'[t] = ran[t] \/ ran'[t] = node.machine
        BY <1>0 DEF Tick, Leaves, Allocate
    <2> QED BY <2>1, <2>2, <2>3
<1>5. ASSUME NEW s \in Span, s.end # Never, ClosedRan(s) PROVE RanDuring(s, ran', now')
    BY <1>0, <1>1, <1>2, <1>5, RanStays DEF ClosedRan
<1>6. collector \in CollectorType /\ savedSpans \in Seq(Span)
    BY DEF BillingInv, BillingTypeOK
<1>7. TrackedRan'
    <2> DEFINE spans == collector.spans
               s == [spans[Len(spans)] EXCEPT !.end = collector.last]
    <2> SUFFICES ASSUME Known
                 PROVE  /\ \A i \in 1 .. Len(spans) :
                              spans[i].end # Never => RanDuring(spans[i], ran', now')
                        /\ collector.last # Never => RanDuring(s, ran', now')
        BY <1>0 DEF TrackedRan, ClosedRan, Known
    <2>1. /\ \A i \in 1 .. Len(spans) : spans[i].end # Never => ClosedRan(spans[i])
          /\ collector.last # Never => ClosedRan(s)
        BY DEF BillingInv, TrackedRan, Known
    <2>2. \A i \in 1 .. Len(spans) : spans[i] \in Span
        BY <1>6 DEF CollectorType
    <2>3. ASSUME collector.last # Never PROVE s \in Span /\ s.end # Never
        <3>1. spans[Len(spans)] \in Span /\ collector.last \in Time
            BY <1>6, <2>2, <2>3 DEF CollectorType, BillingInv, Tracks
        <3> HIDE DEF spans
        <3> QED BY <3>1, SpanTyped, Times
    <2> HIDE DEF s, spans
    <2> QED BY <1>5, <2>1, <2>2, <2>3
<1>8. SavedRan'
    <2>1. \A i \in 1 .. Len(savedSpans) : savedSpans[i] \in Span /\ savedSpans[i].end # Never
        BY <1>6 DEF BillingInv, SavedIsSettled
    <2> QED BY <1>0, <1>5, <2>1 DEF BillingInv, SavedRan, ClosedRan
<1>9. BillingTypeOK' /\ (collector \in CollectorType)'
    BY <1>0, <1>1, <1>6 DEF BillingInv, BillingTypeOK
<1>10. Tracks' /\ TrackedInOrder' /\ SavedIsSettled'
    BY <1>0 DEF BillingInv, Tracks, TrackedInOrder, SavedIsSettled
<1> QED BY <1>3, <1>4, <1>7, <1>8, <1>9, <1>10 DEF BillingInv

\* The envelope is of the node that runs now.
LEMMA EnvelopeKeepsInv ==
    ASSUME BillingInv, NEW m \in Machines \cup {"unknown"}, EnvelopeWritten(m)
    PROVE  BillingInv'
<1>0. /\ UNCHANGED <<now, node, ran, collector, savedSpans, collections>>
      /\ now \in Time /\ node.since \in Time /\ node.machine # Nobody /\ resultEnvelope.machine = Nobody
      /\ resultEnvelope' = [machine |-> m, start |-> node.since, end |-> now]
      /\ m \in {node.machine, "unknown"}
    BY DEF EnvelopeWritten, BillingInv, BillingTypeOK
<1>1. EnvelopeRan'
    <2>1. /\ node.since <= now /\ (\A t \in node.since .. now : ran[t] = node.machine)
          /\ \A t \in Time : t > now => ran[t] = Nobody
        BY <1>0 DEF BillingInv, NodeRan
    <2>2. ran[node.since] = node.machine /\ ran[now] = node.machine
        BY <1>0, <2>1, Times
    <2>3. \A t \in Time : t >= node.since => ran[t] \in {node.machine, Nobody}
        BY <1>0, <2>1, Times
    <2>4. /\ resultEnvelope'.machine = m /\ resultEnvelope'.start = node.since
          /\ resultEnvelope'.end = now
          /\ now' = now /\ node' = node /\ ran' = ran
        BY <1>0
    <2>5. /\ ran[node.since] # Nobody /\ m \in {ran[node.since], "unknown"}
          /\ ran[now] = ran[node.since] /\ node.since <= now /\ now <= now
          /\ node.machine \in {ran[node.since], Nobody}
          /\ \A t \in Time : t >= node.since => ran[t] \in {ran[node.since], Nobody}
        BY <1>0, <2>1, <2>2, <2>3, Times
    <2> QED BY ONLY <2>4, <2>5 DEF EnvelopeRan
<1>2. TrackedRan' /\ SavedRan'
    BY <1>0, Times DEF BillingInv, TrackedRan, SavedRan, ClosedRan
<1>3. BillingTypeOK' /\ (collector \in CollectorType)'
    BY <1>0 DEF BillingInv, BillingTypeOK
<1> QED BY <1>0, <1>1, <1>2, <1>3
       DEF BillingInv, NodeRan, Tracks, TrackedInOrder, SavedIsSettled

\* A tracker that is not there has no spans.
LEMMA NoTrackerIs ==
    NoTracker \in CollectorType /\ NoTracker.spans = <<>> /\ NoTracker.last = Never
BY DEF NoTracker, CollectorType

\* finalize_run saves what is settled, and the tracker is gone.
LEMMA CollectKeepsBillingInv ==
    ASSUME BillingInv, CollectEnvelope \/ CollectNothing
    PROVE  BillingInv'
<1>1. PICK f : /\ Settled(f) /\ savedSpans' = f /\ collections' = collections + 1
               /\ collector' = NoTracker /\ UNCHANGED <<now, node, ran, resultEnvelope>>
               /\ collections < MaxCollections
    BY FinalizeSettles, CloseSettles DEF CollectEnvelope, CollectNothing, Collected
<1>2. collections \in Nat /\ collections' \in 0 .. MaxCollections /\ collections' # 0
      /\ (collections' <= 1 => collections = 0)
    BY <1>1, BillingAssumption DEF BillingInv, BillingTypeOK
<1>3. BillingTypeOK' /\ (collector \in CollectorType)'
    <2>1. collector'.on \in BOOLEAN /\ collector'.last \in Time \cup {Never} /\ collector'.spans \in Seq(Span)
        BY <1>1, NoTrackerIs DEF CollectorType
    <2> QED BY <1>1, <1>2, <2>1, NoTrackerIs DEF BillingInv, BillingTypeOK, Settled
<1>4. Tracks' /\ TrackedRan' /\ TrackedInOrder'
    BY <1>1, <1>2, NoTrackerIs DEF Tracks, TrackedRan, TrackedInOrder
<1>5. SavedRan'
    BY <1>1 DEF SavedRan, Settled, ClosedRan
<1>6. SavedIsSettled'
    BY <1>1, <1>2 DEF SavedIsSettled, Settled, Ordered
<1>7. NodeRan' /\ EnvelopeRan'
    BY <1>1 DEF BillingInv, NodeRan, EnvelopeRan
<1> QED BY <1>3, <1>4, <1>5, <1>6, <1>7 DEF BillingInv

\* A watcher that ends or attaches: it begins with what is saved, and has seen nothing.
LEMMA WatcherKeepsInv ==
    ASSUME BillingInv, WatcherEnds \/ AttachAgain
    PROVE  BillingInv'
<1>0. UNCHANGED <<now, node, ran, resultEnvelope, savedSpans, collections>>
    BY DEF WatcherEnds, AttachAgain
<1>1. /\ collector' \in CollectorType /\ collector'.last = Never
      /\ \/ collector'.spans = <<>> /\ collections \in Nat
         \/ collector'.spans = savedSpans /\ collector'.on
    <2>1. CASE WatcherEnds
        BY <2>1, NoTrackerIs, BillingAssumption DEF WatcherEnds, BillingInv, BillingTypeOK
    <2>2. CASE AttachAgain
        <3>1. savedSpans \in Seq(Span) /\ Never \in Time \cup {Never}
            BY DEF BillingInv, BillingTypeOK
        <3>2. collector' = [on |-> TRUE, spans |-> savedSpans, last |-> Never]
            BY <2>2 DEF AttachAgain
        <3> QED BY <3>1, <3>2 DEF CollectorType
    <2> QED BY <2>1, <2>2
<1>2. Tracks'
    BY <1>0, <1>1 DEF BillingInv, Tracks, SavedIsSettled
<1>3. collections = 0 => collector'.spans = <<>>
    BY <1>1 DEF BillingInv, Tracks
<1>4. TrackedRan' /\ TrackedInOrder'
    BY <1>0, <1>1, <1>3 DEF BillingInv, SavedRan, TrackedRan, TrackedInOrder, ClosedRan
<1>5. BillingTypeOK'
    BY <1>0, <1>1 DEF BillingInv, BillingTypeOK, CollectorType
<1> QED BY <1>0, <1>1, <1>2, <1>4, <1>5
       DEF BillingInv, NodeRan, EnvelopeRan, SavedRan, SavedIsSettled, ClosedRan

\* The nodes, the polls of a tracker and its collections keep the invariant.
LEMMA BillingInvStep == BillingInv /\ [BillingNext]_billingVars => BillingInv'
<1> SUFFICES ASSUME BillingInv, [BillingNext]_billingVars PROVE BillingInv'
    OBVIOUS
<1>1. CASE UNCHANGED billingVars
    BY <1>1 DEF billingVars, BillingInv, BillingTypeOK, NodeRan, EnvelopeRan, Tracks, TrackedRan,
       SavedRan, TrackedInOrder, SavedIsSettled, ClosedRan
<1>2. CASE PollShard
    <2>1. UNCHANGED <<now, node, ran, resultEnvelope, savedSpans, collections>>
        BY <1>2 DEF PollShard
    <2>2. BillingTypeOK'
        BY <1>2, <2>1, PollKeeps DEF BillingInv, BillingTypeOK, CollectorType
    <2> QED BY <1>2, <2>1, <2>2, PollKeeps
           DEF BillingInv, NodeRan, EnvelopeRan, SavedRan, SavedIsSettled, ClosedRan
<1> QED BY <1>1, <1>2, NodesKeepInv, EnvelopeKeepsInv, CollectKeepsBillingInv, WatcherKeepsInv
       DEF BillingNext

\* Every reachable state satisfies BillingInv.
LEMMA BillingInvariant == BillingSpec => []BillingInv
<1> QED BY InitBillingInv, BillingInvStep, PTL DEF BillingSpec

\* Every reachable state of the span tracker is within its types.
LEMMA BillingTyped == BillingSpec => []BillingTypeOK
<1>1. BillingInv => BillingTypeOK
    BY DEF BillingInv
<1> QED BY BillingInvariant, <1>1, PTL

\* cli runner.rs SpanTracker, finalize_run: however nodes change, watchers come and go and the
\* run is collected again, a saved span begins and ends while its machine ran, none is open,
\* and the first collection bills no time twice.
THEOREM SpansSettled == BillingSpec => []SpansAreSettled
<1>1. BillingInv => SpansAreSettled
    <2> SUFFICES ASSUME BillingInv PROVE SpansAreSettled
        OBVIOUS
    <2>1. SpansWereRunning
        BY DEF BillingInv, SavedRan, SpansWereRunning, ClosedRan, RanDuring
    <2> QED BY <2>1 DEF BillingInv, SpansAreSettled
<1> QED BY <1>1, BillingInvariant, PTL
-----------------------------------------------------------------------------
(***************************************************************************)
(* A checkpoint prefix that runs, fetch and rm share, for any number of    *)
(* runs, commits and faults. The argument: while nobody came through the   *)
(* window of the guard and nothing failed, one writer at most works in the *)
(* ring, in the slot that the commit record does not name; so the slot it  *)
(* names stays whole until the record names the other one, and what a      *)
(* fetch gets under it is of one version. The deletion takes the commit    *)
(* record first and meets no writer unless it is disturbed.                *)
(***************************************************************************)

\* The shared ring, the keys of its objects and what is stored under them.
FooRing == Shared("foo")
MetaKey == <<FooRing, "meta">>
PartKey(s, k) == <<FooRing, s, k>>
FooKeys == {MetaKey} \cup {PartKey(s, k) : s \in Slots, k \in Parts}
Committed == meta[FooRing].version
LiveSlot == meta[FooRing].slot
StoredAs(s, k) == slots[<<FooRing, s, k>>]

\* The types, exactly.
RemovingRecord ==
    [pc: {"idle", "guard", "list", "delete", "removed", "unclean", "refused"},
     keys: Seq(FooKeys), failed: Nat, disturbed: BOOLEAN]

StartedType ==
    started \in [Runs -> [pc: {"new", "window", "created", "up", "over", "refused"},
                          ring: Rings \cup {Nothing}, open: SUBSET Runs]]
StatusType == runStatus \in [Runs -> {"none", "running", "failed"}]
WriterType ==
    ringWriter \in [Runs -> [pc: {"off", "start", "part", "meta", "reclaim"}, part: 0 .. 2,
                             slot: Slots, count: 0 .. MaxCommits]]
BucketType ==
    /\ slots \in [PartKeys -> Versions \cup {Nothing}]
    /\ meta \in [Rings -> [slot: Slots, version: Versions \cup {Nothing}]]
FetchingRecord ==
    [pc: {"idle", "resolve", "get", "verify", "fetched", "failed"}, part: 0 .. 2,
     meta: [slot: Slots, version: Versions \cup {Nothing}],
     got: [Parts -> Versions \cup {Nothing}], disturbed: BOOLEAN]
PrefixTypes ==
    /\ StartedType /\ StatusType /\ WriterType /\ BucketType
    /\ fetching \in FetchingRecord /\ removing \in RemovingRecord
    /\ prefixFaults \in 0 .. MaxPrefixFaults

\* What a run has claimed and how far it is.
RunIs(r) ==
    LET w == ringWriter[r] IN
    /\ started[r].ring \in {Nothing, Own(r), FooRing}
    /\ runStatus[r] = "running" <=> started[r].pc = "up"
    /\ started[r].pc \in {"new", "refused", "window"} => w.pc = "off" /\ w.count = 0
    /\ started[r].pc = "new" => started[r].open = {}
    /\ Writing(r) => started[r].ring = FooRing /\ (started[r].pc \in {"created", "up"} \/ prefixFaults > 0)
    /\ w.pc = "part" => w.part \in Parts
    /\ w.pc = "meta" => w.part = 2
    /\ w.pc \in {"part", "meta", "reclaim"} => w.count > 0

\* Who has passed the guard of the shared ring, and is not over: of two one saw the other.
PastGuard(r) == started[r].pc \in {"window", "created", "up"} /\ started[r].ring = FooRing
PassedTogether ==
    \A r, q \in Runs :
        r # q /\ PastGuard(r) /\ PastGuard(q) =>
            r \in started[q].open \/ q \in started[r].open \/ prefixFaults > 0

\* Nothing has gone wrong that would put two writers, or a writer and the deletion, in one ring.
Quiet == prefixFaults = 0 /\ ~removing.disturbed /\ \A r \in Runs : started[r].open = {}

\* What the commit record names is whole, and a writer never works in the slot it names.
WholeInv == Committed # Nothing => \A k \in Parts : StoredAs(LiveSlot, k) = Committed
WriterInv(r) ==
    LET w == ringWriter[r] IN
    /\ w.pc \in {"part", "meta"} =>
         /\ Committed = Nothing \/ LiveSlot # w.slot
         /\ removing.pc \in {"idle", "guard"} =>
              \A k \in Parts : k < w.part => StoredAs(w.slot, k) = Version(r)
    /\ w.pc \in {"start", "reclaim"} /\ w.count > 0 => Committed = Nothing \/ LiveSlot = w.slot
\* What a fetch that nobody disturbs has got is of the version that is committed.
FetchInv ==
    /\ fetching.pc = "get" =>
         /\ fetching.meta = meta[FooRing] /\ Committed # Nothing
         /\ \A k \in Parts : k < fetching.part => fetching.got[k] = Committed
    /\ fetching.pc = "verify" => \A k \in Parts : fetching.got[k] = fetching.meta.version
    /\ fetching.pc = "failed" => fetching.meta.version = Nothing

\* Where a fetch is.
FetchAt ==
    /\ fetching.pc \in {"idle", "resolve"} => fetching.part = 0
    /\ fetching.pc = "get" => fetching.part \in Parts

\* What rm has yet to delete: whatever is left of the ring, its commit record first.
IsAmong(key, keys) == \E i \in 1 .. Len(keys) : keys[i] = key
RemoveInv ==
    /\ removing.pc = "delete" /\ removing.failed = 0 =>
         /\ Committed # Nothing => IsAmong(MetaKey, removing.keys)
         /\ \A s \in Slots, k \in Parts : StoredAs(s, k) # Nothing => IsAmong(PartKey(s, k), removing.keys)
    /\ removing.pc = "delete" /\ prefixFaults = 0 /\ Committed # Nothing =>
         removing.keys # <<>> /\ Head(removing.keys) = MetaKey
    /\ removing.pc = "removed" =>
         Committed = Nothing /\ \A s \in Slots, k \in Parts : StoredAs(s, k) = Nothing

\* The inductive invariant: while nothing has gone wrong the ring has one writer at most.
PrefixInv ==
    /\ PrefixTypes
    /\ \A r \in Runs : RunIs(r)
    /\ PassedTogether /\ FetchAt
    /\ Quiet => WholeInv /\ \A r \in Runs : WriterInv(r)
    /\ Quiet /\ ~fetching.disturbed => FetchInv
    /\ ~removing.disturbed => RemoveInv
    /\ NeighbourIsKept

-----------------------------------------------------------------------------

\* The constants, spelled out.
LEMMA Constants ==
    /\ Runs # {} /\ MaxCommits \in Nat /\ MaxCommits > 0 /\ MaxPrefixFaults \in Nat
    /\ Parts = {0, 1} /\ Slots = {0, 1}
BY PrefixAssumption DEF Parts, Slots

\* The rings that a prefix may name differ.
LEMMA RingNames ==
    /\ FooRing \in Rings /\ FooRing # Nothing /\ FooRing # Shared("foobar") /\ Shared("foobar") \in Rings
    /\ \A r \in Runs : Own(r) \in Rings /\ Own(r) # FooRing
BY DEF FooRing, Rings, Shared, Own, PrefixNames, Nothing

\* So do the keys of the objects of a ring.
LEMMA KeyNames ==
    /\ MetaKey \in MetaKeys /\ MetaKey \notin PartKeys
    /\ \A s \in Slots, k \in Parts :
          /\ PartKey(s, k) \in PartKeys /\ PartKey(s, k) \notin MetaKeys /\ PartKey(s, k) # MetaKey
          /\ PartKey(s, k)[1] = FooRing
          /\ \A t \in Slots, j \in Parts : PartKey(s, k) = PartKey(t, j) => s = t /\ k = j
    /\ MetaKey[1] = FooRing
    /\ FooKeys \subseteq MetaKeys \cup PartKeys
<1>1. \A t \in MetaKeys : Len(t) = 2
    BY DEF MetaKeys
<1>2. \A t \in PartKeys : Len(t) = 3
    BY DEF PartKeys
<1>3. MetaKey \in MetaKeys /\ MetaKey[1] = FooRing
    BY RingNames DEF MetaKey, MetaKeys
<1>4. \A s \in Slots, k \in Parts : PartKey(s, k) \in PartKeys /\ PartKey(s, k)[1] = FooRing
    BY RingNames DEF PartKey, PartKeys
<1>5. \A s \in Slots, k \in Parts, t \in Slots, j \in Parts :
        PartKey(s, k) = PartKey(t, j) => s = t /\ k = j
    BY DEF PartKey
<1> QED BY <1>1, <1>2, <1>3, <1>4, <1>5 DEF FooKeys

\* The invariant implies the types.
LEMMA PrefixInvIsTyped == PrefixInv => PrefixTypeOK
<1> SUFFICES ASSUME PrefixInv PROVE PrefixTypeOK
    OBVIOUS
<1>1. /\ removing.pc \in {"idle", "guard", "list", "delete", "removed", "unclean", "refused"}
      /\ \A i \in 1 .. Len(removing.keys) : removing.keys[i] \in MetaKeys \cup PartKeys
    <2>1. removing.keys \in Seq(FooKeys)
          /\ removing.pc \in {"idle", "guard", "list", "delete", "removed", "unclean", "refused"}
        BY DEF PrefixInv, PrefixTypes, RemovingRecord
    <2>2. \A i \in 1 .. Len(removing.keys) : removing.keys[i] \in FooKeys
        BY <2>1
    <2> QED BY <2>1, <2>2, KeyNames
<1> QED BY <1>1 DEF PrefixInv, PrefixTypes, StartedType, StatusType, WriterType, BucketType,
                    FetchingRecord, PrefixTypeOK

\* The bucket is empty and no run has claimed anything at first.
LEMMA InitPrefixInv == PrefixInit => PrefixInv
<1> SUFFICES ASSUME PrefixInit PROVE PrefixInv
    OBVIOUS
<1> DEFINE any == CHOOSE r \in Runs : TRUE
<1>1. any \in Runs
    BY Constants
<1>2. <<any, 1>> \in Versions /\ <<any, 1>> # Nothing /\ NoMeta.version = Nothing /\ NoMeta.slot = 0
    BY <1>1, Constants DEF Versions, Nothing, NoMeta
<1> DEFINE first == <<any, 1>>
<1> HIDE DEF any
<1>3. StartedType /\ StatusType
    BY DEF PrefixInit, StartedType, StatusType
<1>4. WriterType
    BY Constants DEF PrefixInit, WriterType
<1>5. slots \in [PartKeys -> Versions \cup {Nothing}]
      /\ \A s \in Slots, k \in Parts : StoredAs(s, k) = Nothing
    BY KeyNames DEF PrefixInit, StoredAs, PartKey
<1>6. meta \in [Rings -> [slot: Slots, version: Versions \cup {Nothing}]]
      /\ Committed = Nothing /\ NeighbourIsKept
    <2>1. NoMeta \in [slot: Slots, version: Versions \cup {Nothing}]
          /\ [slot |-> 0, version |-> first] \in [slot: Slots, version: Versions \cup {Nothing}]
        BY <1>2, Constants DEF NoMeta
    <2>2. meta = [b \in Rings |-> IF b = Shared("foobar") THEN [slot |-> 0, version |-> first] ELSE NoMeta]
        BY DEF PrefixInit, any
    <2> HIDE DEF first
    <2>3. meta[FooRing] = NoMeta /\ meta[Shared("foobar")] = [slot |-> 0, version |-> first]
        BY <2>2, RingNames
    <2>4. Committed = Nothing
        BY <2>3, <1>2 DEF Committed
    <2>5. NeighbourIsKept
        BY <2>3, <1>2 DEF NeighbourIsKept, first
    <2> QED BY <2>1, <2>2, <2>4, <2>5
<1>7. fetching \in FetchingRecord /\ fetching.pc = "idle" /\ fetching.part = 0
    BY <1>2, Constants DEF PrefixInit, NoMeta, FetchingRecord
<1>8. removing \in RemovingRecord /\ removing.pc = "idle" /\ removing.keys = <<>> /\ Len(removing.keys) = 0
    BY DEF PrefixInit, RemovingRecord
<1>9. PrefixTypes
    <2>1. prefixFaults \in 0 .. MaxPrefixFaults
        BY Constants DEF PrefixInit
    <2> QED BY <1>3, <1>4, <1>5, <1>6, <1>7, <1>8, <2>1 DEF PrefixTypes, BucketType
<1>10. \A r \in Runs : RunIs(r)
    <2>1. \A r \in Runs : /\ started[r].pc = "new" /\ started[r].ring = Nothing /\ started[r].open = {}
                          /\ runStatus[r] = "none" /\ ringWriter[r].pc = "off" /\ ringWriter[r].count = 0
        BY DEF PrefixInit
    <2> QED BY <2>1 DEF RunIs, Writing
<1>11. PassedTogether /\ FetchAt
    BY <1>7, RingNames DEF PrefixInit, PassedTogether, PastGuard, FetchAt
<1>12. WholeInv /\ FetchInv /\ RemoveInv
    BY <1>6, <1>7, <1>8 DEF WholeInv, FetchInv, RemoveInv
<1>13. \A r \in Runs : WriterInv(r)
    BY <1>6 DEF PrefixInit, WriterInv
<1> QED BY <1>6, <1>8, <1>9, <1>10, <1>11, <1>12, <1>13 DEF PrefixInv

-----------------------------------------------------------------------------
(***************************************************************************)
(* Steps that leave part of it alone.                                      *)
(***************************************************************************)

\* Whoever leaves the runs and their writers alone leaves their claims alone.
LEMMA RunsStay ==
    ASSUME \A r \in Runs : RunIs(r), PassedTogether,
           UNCHANGED <<started, runStatus, ringWriter>>,
           prefixFaults > 0 => prefixFaults' > 0
    PROVE  (\A r \in Runs : RunIs(r)') /\ PassedTogether'
BY DEF RunIs, Writing, PassedTogether, PastGuard

\* Steps of the fetch: everything but `fetching` is as it was.
LEMMA FetchSteps ==
    ASSUME PrefixInv, UNCHANGED <<started, runStatus, ringWriter, ringVars, removing, prefixFaults>>,
           fetching' \in FetchingRecord, FetchAt',
           Quiet /\ ~fetching'.disturbed => FetchInv'
    PROVE  PrefixInv'
<1>1. PrefixTypes'
    BY DEF PrefixInv, PrefixTypes, StartedType, StatusType, WriterType, BucketType, ringVars
<1>2. (\A r \in Runs : RunIs(r)') /\ PassedTogether'
    BY RunsStay DEF PrefixInv
<1>3. Quiet' => Quiet
    BY DEF Quiet
<1>4. WholeInv => WholeInv'
    BY DEF WholeInv, Committed, LiveSlot, StoredAs, ringVars
<1>5. \A r \in Runs : WriterInv(r) => WriterInv(r)'
    BY DEF WriterInv, Committed, LiveSlot, StoredAs, ringVars, Version
<1>6. ~removing.disturbed' => RemoveInv'
    BY DEF PrefixInv, RemoveInv, Committed, StoredAs, ringVars
<1>7. NeighbourIsKept'
    BY DEF PrefixInv, NeighbourIsKept, ringVars
<1>8. Quiet' => WholeInv' /\ \A r \in Runs : WriterInv(r)'
    BY <1>3, <1>4, <1>5 DEF PrefixInv
<1>9. Quiet' /\ ~fetching'.disturbed => FetchInv'
    BY <1>3
<1> QED BY <1>1, <1>2, <1>6, <1>7, <1>8, <1>9 DEF PrefixInv

\* A fetch reads the commit record.
LEMMA FetchResolveStep == ASSUME PrefixInv, FetchResolve PROVE PrefixInv'
<1> DEFINE m == meta[FooRing]
           pc == IF m.version = Nothing THEN "failed" ELSE "get"
<1>0. /\ UNCHANGED <<started, runStatus, ringWriter, ringVars, removing, prefixFaults>>
      /\ fetching.pc = "resolve"
      /\ fetching' = [fetching EXCEPT !.pc = pc, !.meta = m, !.disturbed = FALSE]
    BY DEF FetchResolve, FooRing
<1>1. /\ m \in [slot: Slots, version: Versions \cup {Nothing}]
      /\ fetching \in FetchingRecord /\ fetching.part = 0
    BY <1>0, RingNames DEF PrefixInv, PrefixTypes, BucketType, FetchAt
<1>2. pc \in {"failed", "get"} /\ (pc = "get" => m.version # Nothing) /\ (pc = "failed" => m.version = Nothing)
    OBVIOUS
<1> HIDE DEF pc, m
<1>3. fetching' \in FetchingRecord /\ fetching'.pc = pc /\ fetching'.meta = m /\ fetching'.part = 0
    BY <1>0, <1>1, <1>2 DEF FetchingRecord
<1>4. FetchAt'
    BY <1>2, <1>3, Constants DEF FetchAt
<1>5. meta' = meta
    BY <1>0 DEF ringVars
<1>6. FetchInv'
    <2>1. \A k \in Parts : ~(k < 0)
        BY Constants
    <2> QED BY <1>2, <1>3, <1>5, <2>1 DEF FetchInv, Committed, m
<1> QED BY <1>0, <1>3, <1>4, <1>6, FetchSteps

\* A fetch gets a part, or finds none.
LEMMA FetchPartStep == ASSUME PrefixInv, FetchPart PROVE PrefixInv'
<1> DEFINE held == slots[<<FooRing, fetching.meta.slot, fetching.part>>]
           at == fetching.part
           pc == IF at = 1 THEN "verify" ELSE "get"
<1>0. /\ UNCHANGED <<started, runStatus, ringWriter, ringVars, removing, prefixFaults>>
      /\ fetching.pc = "get" /\ at \in Parts /\ fetching \in FetchingRecord
    BY DEF FetchPart, PrefixInv, PrefixTypes, FetchAt
<1>1. \/ held = Nothing /\ fetching' = [fetching EXCEPT !.pc = "failed"]
      \/ held # Nothing /\ fetching' = [fetching EXCEPT !.got[at] = held, !.part = at + 1, !.pc = pc]
    BY DEF FetchPart, FooRing
<1>2. held \in Versions \cup {Nothing} /\ fetching.meta.slot \in Slots
    BY <1>0, KeyNames DEF PrefixInv, PrefixTypes, BucketType, FetchingRecord, PartKey
<1>3. Quiet /\ ~fetching.disturbed =>
        /\ fetching.meta = meta[FooRing] /\ Committed # Nothing
        /\ \A k \in Parts : k < at => fetching.got[k] = Committed
        /\ held = Committed
    <2>1. Quiet /\ ~fetching.disturbed => FetchInv /\ WholeInv
        BY DEF PrefixInv
    <2> QED BY <1>0, <2>1 DEF FetchInv, WholeInv, Committed, LiveSlot, StoredAs
<1> HIDE DEF held
<1>4. CASE held = Nothing /\ fetching' = [fetching EXCEPT !.pc = "failed"]
    <2>1. fetching' \in FetchingRecord /\ fetching'.pc = "failed"
          /\ fetching'.disturbed = fetching.disturbed
        BY <1>0, <1>4 DEF FetchingRecord
    <2>2. ~(Quiet /\ ~fetching.disturbed)
        BY <1>3, <1>4
    <2> QED BY <1>0, <2>1, <2>2, FetchSteps DEF FetchAt
<1>5. CASE held # Nothing /\ fetching' = [fetching EXCEPT !.got[at] = held, !.part = at + 1, !.pc = pc]
    <2> DEFINE got == [fetching.got EXCEPT ![at] = held]
               next == at + 1
    <2>1. pc \in {"verify", "get"} /\ next \in 0 .. 2 /\ (pc = "get" => next = 1) /\ (pc = "verify" => next = 2)
        BY <1>0, Constants
    <2>2. got \in [Parts -> Versions \cup {Nothing}] /\ got[at] = held
          /\ \A k \in Parts : k # at => got[k] = fetching.got[k]
        BY <1>0, <1>2 DEF FetchingRecord
    <2>3. fetching' = [fetching EXCEPT !.got = got, !.part = next, !.pc = pc]
        BY <1>5
    <2> HIDE DEF got, next, pc
    <2>4. /\ fetching' \in FetchingRecord /\ fetching'.pc = pc /\ fetching'.got = got
          /\ fetching'.part = next /\ fetching'.meta = fetching.meta
          /\ fetching'.disturbed = fetching.disturbed
        BY <1>0, <2>1, <2>2, <2>3 DEF FetchingRecord
    <2>5. FetchAt'
        BY <2>1, <2>4, Constants DEF FetchAt
    <2>6. ASSUME Quiet, ~fetching'.disturbed PROVE FetchInv'
        <3>0. ~fetching.disturbed
            BY <2>4, <2>6
        <3>1. /\ fetching.meta = meta[FooRing] /\ Committed # Nothing /\ held = Committed
              /\ \A k \in Parts : k < at => fetching.got[k] = Committed
            BY <1>3, <2>6, <3>0
        <3>2. meta' = meta /\ Committed' = Committed
            BY <1>0 DEF ringVars, Committed
        <3>3. \A k \in Parts : k < next => got[k] = Committed
            <4> SUFFICES ASSUME NEW k \in Parts, k < next PROVE got[k] = Committed
                OBVIOUS
            <4>1. k = at \/ k < at
                BY <1>0, Constants DEF next
            <4>2. k < at => k # at
                BY <1>0, Constants
            <4> QED BY <2>2, <3>1, <4>1, <4>2
        <3>4. pc = "verify" => \A k \in Parts : k < next
            BY <2>1, Constants
        <3>5. Committed = fetching.meta.version
            BY <3>1 DEF Committed
        <3> QED BY <2>1, <2>4, <3>1, <3>2, <3>3, <3>4, <3>5 DEF FetchInv
    <2> QED BY <1>0, <2>4, <2>5, <2>6, FetchSteps
<1> QED BY <1>1, <1>4, <1>5

\* A fetch compares the digests.
LEMMA FetchVerifyStep == ASSUME PrefixInv, FetchVerify PROVE PrefixInv'
<1> DEFINE pc == IF DigestMatches THEN "fetched" ELSE "failed"
<1>0. /\ UNCHANGED <<started, runStatus, ringWriter, ringVars, removing, prefixFaults>>
      /\ fetching.pc = "verify" /\ fetching \in FetchingRecord
      /\ fetching' = [fetching EXCEPT !.pc = pc]
    BY DEF FetchVerify, PrefixInv, PrefixTypes
<1>1. pc \in {"fetched", "failed"} /\ (pc = "failed" => ~DigestMatches)
    OBVIOUS
<1> HIDE DEF pc
<1>2. fetching' \in FetchingRecord /\ fetching'.pc = pc /\ fetching'.disturbed = fetching.disturbed
    BY <1>0, <1>1 DEF FetchingRecord
<1>3. FetchAt'
    BY <1>1, <1>2 DEF FetchAt
<1>4. ASSUME Quiet, ~fetching'.disturbed PROVE FetchInv'
    <2>1. ~fetching.disturbed
        BY <1>2, <1>4
    <2>2. DigestMatches
        BY <1>0, <1>4, <2>1 DEF PrefixInv, FetchInv, DigestMatches
    <2> QED BY <1>1, <1>2, <2>2 DEF FetchInv
<1> QED BY <1>0, <1>2, <1>3, <1>4, FetchSteps

-----------------------------------------------------------------------------
\* What is in one of two lists is in the one after the other.
LEMMA AmongJoined ==
    ASSUME NEW S, NEW a \in Seq(S), NEW b \in Seq(S)
    PROVE  /\ a \o b \in Seq(S)
           /\ a \o b = <<>> <=> a = <<>> /\ b = <<>>
           /\ a # <<>> => Head(a \o b) = Head(a)
           /\ \A x : IsAmong(x, a) \/ IsAmong(x, b) => IsAmong(x, a \o b)
<1>1. a \o b \in Seq(S) /\ Len(a \o b) = Len(a) + Len(b) /\ Len(a) \in Nat /\ Len(b) \in Nat
    OBVIOUS
<1>2. a \o b = <<>> <=> a = <<>> /\ b = <<>>
    <2>1. a \o b = <<>> <=> Len(a) + Len(b) = 0
        BY <1>1
    <2>2. Len(a) + Len(b) = 0 <=> Len(a) = 0 /\ Len(b) = 0
        BY <1>1
    <2> QED BY <2>1, <2>2
<1>3. a # <<>> => Head(a \o b) = Head(a)
    <2>1. a # <<>> => 1 \in 1 .. Len(a)
        BY <1>1
    <2>2. a # <<>> => a \o b # <<>> /\ (a \o b)[1] = a[1]
        BY <1>1, <1>2, <2>1
    <2>3. a # <<>> => Head(a) = a[1] /\ Head(a \o b) = (a \o b)[1]
        BY <1>1, <2>2
    <2> QED BY <2>2, <2>3
<1>4. ASSUME NEW x, IsAmong(x, a) PROVE IsAmong(x, a \o b)
    <2>1. PICK i \in 1 .. Len(a) : a[i] = x
        BY <1>4 DEF IsAmong
    <2>2. i \in 1 .. Len(a \o b) /\ (a \o b)[i] = x
        BY <1>1, <2>1
    <2> QED BY <2>2 DEF IsAmong
<1>5. ASSUME NEW x, IsAmong(x, b) PROVE IsAmong(x, a \o b)
    <2>1. PICK i \in 1 .. Len(b) : b[i] = x
        BY <1>5 DEF IsAmong
    <2> DEFINE j == Len(a) + i
    <2>2. j \in 1 .. Len(a \o b) /\ (a \o b)[j] = b[i]
        BY <1>1, <2>1
    <2> QED BY <2>1, <2>2 DEF IsAmong
<1> QED BY <1>1, <1>2, <1>3, <1>4, <1>5

\* The list that `rm` goes by: of this prefix only, all that is stored, the metadata first.
LEMMA ListingIs ==
    /\ Listing \in Seq(FooKeys)
    /\ Committed # Nothing => Listing # <<>> /\ Head(Listing) = MetaKey /\ IsAmong(MetaKey, Listing)
    /\ \A s \in Slots, k \in Parts :
          StoredAs(s, k) # Nothing => Listing # <<>> /\ IsAmong(PartKey(s, k), Listing)
<1> DEFINE Seen(key) == IF StoredObject(key) THEN <<key>> ELSE <<>>
           a == Seen(MetaKey)
           b == Seen(PartKey(0, 0))
           c == Seen(PartKey(0, 1))
           d == Seen(PartKey(1, 0))
           e == Seen(PartKey(1, 1))
           none == <<>>
<1>1. ASSUME NEW key \in FooKeys
      PROVE  /\ Seen(key) \in Seq(FooKeys)
             /\ StoredObject(key) => Seen(key) # <<>> /\ Head(Seen(key)) = key /\ IsAmong(key, Seen(key))
    <2>1. <<key>> \in Seq(FooKeys) /\ <<>> \in Seq(FooKeys) /\ <<key>> # <<>> /\ Head(<<key>>) = key
          /\ Len(<<key>>) = 1 /\ <<key>>[1] = key
        OBVIOUS
    <2>2. IsAmong(key, <<key>>)
        BY <2>1 DEF IsAmong
    <2> QED BY <2>1, <2>2
<1>2. Listing = (((((a \o b) \o c) \o d) \o e) \o none)
    BY RingNames DEF Listing, UnderRoot, MetaKey, PartKey, FooRing
<1>3. /\ MetaKey \in FooKeys /\ (StoredObject(MetaKey) <=> Committed # Nothing)
      /\ \A s \in Slots, k \in Parts :
            PartKey(s, k) \in FooKeys /\ (StoredObject(PartKey(s, k)) <=> StoredAs(s, k) # Nothing)
    BY KeyNames DEF FooKeys, StoredObject, Committed, StoredAs, PartKey
<1>4. PartKey(0, 0) \in FooKeys /\ PartKey(0, 1) \in FooKeys /\ PartKey(1, 0) \in FooKeys /\ PartKey(1, 1) \in FooKeys
    BY <1>3, Constants
<1>5. /\ a \in Seq(FooKeys) /\ b \in Seq(FooKeys) /\ c \in Seq(FooKeys) /\ d \in Seq(FooKeys)
      /\ e \in Seq(FooKeys) /\ none \in Seq(FooKeys)
      /\ Committed # Nothing => a # <<>> /\ Head(a) = MetaKey /\ IsAmong(MetaKey, a)
      /\ StoredAs(0, 0) # Nothing => b # <<>> /\ IsAmong(PartKey(0, 0), b)
      /\ StoredAs(0, 1) # Nothing => c # <<>> /\ IsAmong(PartKey(0, 1), c)
      /\ StoredAs(1, 0) # Nothing => d # <<>> /\ IsAmong(PartKey(1, 0), d)
      /\ StoredAs(1, 1) # Nothing => e # <<>> /\ IsAmong(PartKey(1, 1), e)
    <2>1. none \in Seq(FooKeys)
        OBVIOUS
    <2> HIDE DEF Seen, none
    <2> QED BY <1>1, <1>3, <1>4, <2>1, Constants
<1> HIDE DEF a, b, c, d, e, none
<1> DEFINE ab == a \o b
           abc == ab \o c
           abcd == abc \o d
           abcde == abcd \o e
           all == abcde \o none
<1>6. /\ ab \in Seq(FooKeys) /\ (a # <<>> => ab # <<>> /\ Head(ab) = Head(a)) /\ (b # <<>> => ab # <<>>)
      /\ \A x : IsAmong(x, a) \/ IsAmong(x, b) => IsAmong(x, ab)
    BY <1>5, AmongJoined
<1> HIDE DEF ab
<1>7. /\ abc \in Seq(FooKeys) /\ (ab # <<>> => abc # <<>> /\ Head(abc) = Head(ab)) /\ (c # <<>> => abc # <<>>)
      /\ \A x : IsAmong(x, ab) \/ IsAmong(x, c) => IsAmong(x, abc)
    BY <1>5, <1>6, AmongJoined, SMTT(30)
<1> HIDE DEF abc
<1>8. /\ abcd \in Seq(FooKeys) /\ (abc # <<>> => abcd # <<>> /\ Head(abcd) = Head(abc)) /\ (d # <<>> => abcd # <<>>)
      /\ \A x : IsAmong(x, abc) \/ IsAmong(x, d) => IsAmong(x, abcd)
    BY <1>5, <1>7, AmongJoined
<1> HIDE DEF abcd
<1>9. /\ abcde \in Seq(FooKeys) /\ (abcd # <<>> => abcde # <<>> /\ Head(abcde) = Head(abcd))
      /\ e # <<>> => abcde # <<>>
      /\ \A x : IsAmong(x, abcd) \/ IsAmong(x, e) => IsAmong(x, abcde)
    BY <1>5, <1>8, AmongJoined
<1> HIDE DEF abcde
<1>10. /\ all \in Seq(FooKeys) /\ (abcde # <<>> => all # <<>> /\ Head(all) = Head(abcde))
       /\ \A x : IsAmong(x, abcde) => IsAmong(x, all)
    BY <1>5, <1>9, AmongJoined
<1>11. Listing = all
    BY <1>2 DEF all, abcde, abcd, abc, ab
<1> HIDE DEF all
<1>12. Committed # Nothing => all # <<>> /\ Head(all) = MetaKey /\ IsAmong(MetaKey, all)
    BY <1>5, <1>6, <1>7, <1>8, <1>9, <1>10
<1>13. ASSUME NEW s \in Slots, NEW k \in Parts, StoredAs(s, k) # Nothing
       PROVE  all # <<>> /\ IsAmong(PartKey(s, k), all)
    <2>1. /\ StoredAs(0, 0) # Nothing => all # <<>> /\ IsAmong(PartKey(0, 0), all)
          /\ StoredAs(0, 1) # Nothing => all # <<>> /\ IsAmong(PartKey(0, 1), all)
          /\ StoredAs(1, 0) # Nothing => all # <<>> /\ IsAmong(PartKey(1, 0), all)
          /\ StoredAs(1, 1) # Nothing => all # <<>> /\ IsAmong(PartKey(1, 1), all)
        BY <1>5, <1>6, <1>7, <1>8, <1>9, <1>10
    <2>2. (s = 0 \/ s = 1) /\ (k = 0 \/ k = 1)
        BY Constants
    <2> QED BY <1>13, <2>1, <2>2
<1> QED BY <1>10, <1>11, <1>12, <1>13

-----------------------------------------------------------------------------

\* A fault is counted.
LEMMA FaultIs == ASSUME PrefixFault, prefixFaults \in 0 .. MaxPrefixFaults
                 PROVE  prefixFaults' \in 0 .. MaxPrefixFaults /\ prefixFaults' > 0
BY Constants DEF PrefixFault

\* Steps of the removal that delete nothing.
LEMMA RemoveSteps ==
    ASSUME PrefixInv, UNCHANGED <<started, runStatus, ringWriter, ringVars, fetching>>,
           UNCHANGED prefixFaults \/ PrefixFault,
           removing' \in RemovingRecord, removing'.disturbed = removing.disturbed,
           removing'.pc \in {"idle", "guard"} => removing.pc \in {"idle", "guard"},
           ~removing.disturbed => RemoveInv'
    PROVE  PrefixInv'
<1>1. prefixFaults' \in 0 .. MaxPrefixFaults /\ (prefixFaults > 0 => prefixFaults' > 0)
      /\ (prefixFaults' = 0 => prefixFaults = 0)
    BY FaultIs, Constants DEF PrefixInv, PrefixTypes
<1>2. PrefixTypes'
    BY <1>1 DEF PrefixInv, PrefixTypes, StartedType, StatusType, WriterType, BucketType, ringVars
<1>3. (\A r \in Runs : RunIs(r)') /\ PassedTogether'
    BY <1>1, RunsStay DEF PrefixInv
<1>4. Quiet' => Quiet
    BY <1>1 DEF Quiet
<1>5. WholeInv => WholeInv'
    BY DEF WholeInv, Committed, LiveSlot, StoredAs, ringVars
<1>6. ASSUME NEW r \in Runs, WriterInv(r) PROVE WriterInv(r)'
    BY <1>6 DEF WriterInv, Committed, LiveSlot, StoredAs, ringVars, Version
<1>7. (Quiet /\ ~fetching.disturbed => FetchInv) => (Quiet' /\ ~fetching.disturbed' => FetchInv')
    BY <1>4 DEF FetchInv, Committed, ringVars
<1>8. NeighbourIsKept' /\ FetchAt'
    BY DEF PrefixInv, NeighbourIsKept, ringVars, FetchAt
<1>9. Quiet' => WholeInv' /\ \A r \in Runs : WriterInv(r)'
    BY <1>4, <1>5, <1>6 DEF PrefixInv
<1>10. ~removing.disturbed' => RemoveInv'
    OBVIOUS
<1>11. Quiet' /\ ~fetching.disturbed' => FetchInv'
    BY <1>7 DEF PrefixInv
<1> QED BY <1>2, <1>3, <1>8, <1>9, <1>10, <1>11 DEF PrefixInv

\* A command begins.
LEMMA PrefixCommandStep == ASSUME PrefixInv, Command PROVE PrefixInv'
<1>0. /\ UNCHANGED <<started, runStatus, ringWriter, ringVars, prefixFaults>>
      /\ fetching.pc = "idle" /\ removing.pc = "idle"
      /\ fetching \in FetchingRecord /\ removing \in RemovingRecord
    BY DEF Command, PrefixInv, PrefixTypes
<1>1. CASE fetching' = [fetching EXCEPT !.pc = "resolve"] /\ UNCHANGED removing
    <2>1. fetching' \in FetchingRecord /\ fetching'.pc = "resolve" /\ fetching'.part = fetching.part
        BY <1>0, <1>1 DEF FetchingRecord
    <2>2. FetchAt' /\ FetchInv'
        BY <1>0, <2>1 DEF PrefixInv, FetchAt, FetchInv
    <2> QED BY <1>0, <1>1, <2>1, <2>2, FetchSteps
<1>2. CASE removing' = [removing EXCEPT !.pc = "guard"] /\ UNCHANGED fetching
    <2>1. removing' \in RemovingRecord /\ removing'.pc = "guard" /\ removing'.disturbed = removing.disturbed
        BY <1>0, <1>2 DEF RemovingRecord
    <2>2. RemoveInv'
        BY <2>1 DEF RemoveInv
    <2> QED BY <1>0, <1>2, <2>1, <2>2, RemoveSteps
<1> QED BY <1>1, <1>2 DEF Command

\* rm refuses a ring that a run writes.
LEMMA RmGuardStep == ASSUME PrefixInv, RmGuard PROVE PrefixInv'
<1>0. /\ UNCHANGED <<started, runStatus, ringWriter, ringVars, fetching>>
      /\ removing \in RemovingRecord /\ removing.pc = "guard"
      /\ UNCHANGED prefixFaults \/ PrefixFault
      /\ RmGo("list") \/ RmGo("refused")
    BY DEF RmGuard, PrefixInv, PrefixTypes
<1>1. /\ removing' \in RemovingRecord /\ removing'.pc \in {"list", "refused"}
      /\ removing'.disturbed = removing.disturbed
    BY <1>0 DEF RmGo, RemovingRecord
<1>2. RemoveInv'
    BY <1>1 DEF RemoveInv
<1> QED BY <1>0, <1>1, <1>2, RemoveSteps

\* rm lists what is under the prefix, the commit record first.
LEMMA RmListStep == ASSUME PrefixInv, RmList PROVE PrefixInv'
<1>0. /\ UNCHANGED <<started, runStatus, ringWriter, ringVars, fetching, prefixFaults>>
      /\ removing \in RemovingRecord /\ removing.pc = "list"
    BY DEF RmList, PrefixInv, PrefixTypes
<1>1. /\ Committed' = Committed /\ \A s, k : StoredAs(s, k)' = StoredAs(s, k)
    BY <1>0 DEF ringVars, Committed, StoredAs
<1>2. CASE Listing = <<>> /\ RmGo("removed")
    <2>1. /\ removing' \in RemovingRecord /\ removing'.pc = "removed"
          /\ removing'.disturbed = removing.disturbed
        BY <1>0, <1>2 DEF RmGo, RemovingRecord
    <2>2. Committed = Nothing /\ \A s \in Slots, k \in Parts : StoredAs(s, k) = Nothing
        BY <1>2, ListingIs
    <2>3. RemoveInv'
        BY <1>1, <2>1, <2>2 DEF RemoveInv
    <2> QED BY <1>0, <2>1, <2>3, RemoveSteps
<1>3. CASE RmGo("refused")
    <2>1. /\ removing' \in RemovingRecord /\ removing'.pc = "refused"
          /\ removing'.disturbed = removing.disturbed
        BY <1>0, <1>3 DEF RmGo, RemovingRecord
    <2>2. RemoveInv'
        BY <2>1 DEF RemoveInv
    <2> QED BY <1>0, <2>1, <2>2, RemoveSteps
<1>4. CASE removing' = [removing EXCEPT !.pc = "delete", !.keys = Listing]
    <2> DEFINE list == Listing
    <2>0. /\ list \in Seq(FooKeys)
          /\ Committed # Nothing => list # <<>> /\ Head(list) = MetaKey /\ IsAmong(MetaKey, list)
          /\ \A s \in Slots, k \in Parts : StoredAs(s, k) # Nothing => IsAmong(PartKey(s, k), list)
        BY ListingIs
    <2>00. removing' = [removing EXCEPT !.pc = "delete", !.keys = list]
        BY <1>4
    <2> HIDE DEF list
    <2>1. /\ removing' \in RemovingRecord /\ removing'.pc = "delete" /\ removing'.keys = list
          /\ removing'.disturbed = removing.disturbed
        BY <1>0, <2>0, <2>00 DEF RemovingRecord
    <2>2. RemoveInv'
        BY <1>1, <2>0, <2>1 DEF RemoveInv, IsAmong
    <2> QED BY <1>0, <2>1, <2>2, RemoveSteps
<1> QED BY <1>2, <1>3, <1>4 DEF RmList

\* rm reports what it could not delete.
LEMMA RmVerdictStep == ASSUME PrefixInv, RmVerdict PROVE PrefixInv'
<1> DEFINE pc == IF AllDeleted THEN "removed" ELSE "unclean"
<1>0. /\ UNCHANGED <<started, runStatus, ringWriter, ringVars, fetching, prefixFaults>>
      /\ removing \in RemovingRecord /\ removing.pc = "delete" /\ removing.keys = <<>>
      /\ removing' = [removing EXCEPT !.pc = pc]
    BY DEF RmVerdict, PrefixInv, PrefixTypes, RmGo
<1>1. pc \in {"removed", "unclean"} /\ (pc = "removed" => removing.failed = 0)
    BY DEF AllDeleted
<1> HIDE DEF pc
<1>2. /\ removing' \in RemovingRecord /\ removing'.pc = pc /\ removing'.disturbed = removing.disturbed
    BY <1>0, <1>1 DEF RemovingRecord
<1>3. ASSUME ~removing.disturbed PROVE RemoveInv'
    <2>1. \A x : ~IsAmong(x, removing.keys)
        BY <1>0 DEF IsAmong
    <2>2. removing.failed = 0 =>
             Committed = Nothing /\ \A s \in Slots, k \in Parts : StoredAs(s, k) = Nothing
        BY <1>0, <1>3, <2>1 DEF PrefixInv, RemoveInv
    <2>3. /\ Committed' = Committed /\ \A s, k : StoredAs(s, k)' = StoredAs(s, k)
        BY <1>0 DEF ringVars, Committed, StoredAs
    <2> QED BY <1>1, <1>2, <2>2, <2>3 DEF RemoveInv
<1> QED BY <1>0, <1>1, <1>2, <1>3, RemoveSteps

\* The key at the head is deleted; the others are still to be.
LEMMA RmDeletesStep == ASSUME PrefixInv, RmDeletes PROVE PrefixInv'
<1> DEFINE key == Head(removing.keys)
           left == Tail(removing.keys)
<1>0. /\ UNCHANGED <<started, runStatus, ringWriter>>
      /\ removing \in RemovingRecord /\ removing.pc = "delete" /\ removing.keys # <<>>
      /\ removing.keys \in Seq(FooKeys) /\ removing.failed \in Nat
      /\ removing.pc \notin {"idle", "guard"} /\ fetching \in FetchingRecord
      /\ prefixFaults \in 0 .. MaxPrefixFaults
    BY DEF RmDeletes, PrefixInv, PrefixTypes, RemovingRecord
<1>1. key \in FooKeys /\ left \in Seq(FooKeys)
      /\ \A x : IsAmong(x, removing.keys) => x = key \/ IsAmong(x, left)
    <2>1. key \in FooKeys /\ left \in Seq(FooKeys) /\ Len(left) = Len(removing.keys) - 1
          /\ key = removing.keys[1] /\ Len(removing.keys) \in Nat
          /\ \A i \in 1 .. Len(left) : left[i] = removing.keys[i + 1]
        BY <1>0
    <2>2. ASSUME NEW i \in 1 .. Len(removing.keys), i # 1 PROVE IsAmong(removing.keys[i], left)
        <3>1. i - 1 \in 1 .. Len(left) /\ left[i - 1] = removing.keys[i]
            BY <2>1, <2>2
        <3> QED BY <3>1 DEF IsAmong
    <2> QED BY <2>1, <2>2 DEF IsAmong
<1> HIDE DEF key, left
<1>2. CASE PrefixFault /\ removing' = [removing EXCEPT !.keys = left, !.failed = @ + 1]
           /\ UNCHANGED <<ringVars, fetching>>
    <2> DEFINE failed == removing.failed + 1
    <2>1. failed \in Nat /\ failed # 0
        BY <1>0
    <2>2. removing' = [removing EXCEPT !.keys = left, !.failed = failed]
        BY <1>2
    <2> HIDE DEF failed
    <2>3. /\ removing' \in RemovingRecord /\ removing'.pc = "delete" /\ removing'.failed = failed
          /\ removing'.disturbed = removing.disturbed
        BY <1>0, <1>1, <2>1, <2>2 DEF RemovingRecord
    <2>4. prefixFaults' > 0 /\ ~(prefixFaults' = 0)
        BY <1>0, <1>2, FaultIs, Constants
    <2>5. RemoveInv'
        BY <2>1, <2>3, <2>4 DEF RemoveInv
    <2> QED BY <1>0, <1>2, <2>3, <2>5, RemoveSteps
<1>3. CASE DeleteObject(key) /\ Touched(key[1]) /\ removing' = [removing EXCEPT !.keys = left]
           /\ UNCHANGED prefixFaults
    <2>1. /\ removing' \in RemovingRecord /\ removing'.pc = "delete" /\ removing'.keys = left
          /\ removing'.disturbed = removing.disturbed /\ removing'.failed = removing.failed
        BY <1>0, <1>1, <1>3 DEF RemovingRecord
    <2>2. key[1] = FooRing
        BY <1>1, KeyNames DEF FooKeys
    <2>3. /\ fetching' \in FetchingRecord /\ fetching'.disturbed
          /\ fetching'.pc = fetching.pc /\ fetching'.part = fetching.part
        <3>1. fetching' = [fetching EXCEPT !.disturbed = TRUE]
            BY <1>3, <2>2 DEF Touched, FooRing
        <3> QED BY <1>0, <3>1 DEF FetchingRecord
    <2>4. /\ BucketType' /\ NeighbourIsKept'
          /\ \/ /\ key = MetaKey /\ Committed' = Nothing
                /\ \A s \in Slots, k \in Parts : StoredAs(s, k)' = StoredAs(s, k)
             \/ /\ key # MetaKey /\ Committed' = Committed /\ LiveSlot' = LiveSlot
                /\ \A s \in Slots, k \in Parts :
                      StoredAs(s, k)' = IF key = PartKey(s, k) THEN Nothing ELSE StoredAs(s, k)
        <3>0. BucketType /\ NeighbourIsKept
            BY DEF PrefixInv, PrefixTypes
        <3>1. CASE key = MetaKey
            <4>1. meta' = [meta EXCEPT ![FooRing] = NoMeta] /\ slots' = slots
                BY <1>3, <3>1, KeyNames DEF DeleteObject
            <4>2. NoMeta \in [slot: Slots, version: Versions \cup {Nothing}] /\ NoMeta.version = Nothing
                BY Constants DEF NoMeta
            <4>3. BucketType' /\ meta'[FooRing] = NoMeta /\ meta'[Shared("foobar")] = meta[Shared("foobar")]
                BY <3>0, <4>1, <4>2, RingNames DEF BucketType
            <4>4. NeighbourIsKept' /\ Committed' = Nothing
                BY <3>0, <4>2, <4>3 DEF NeighbourIsKept, Committed
            <4>5. \A s \in Slots, k \in Parts : StoredAs(s, k)' = StoredAs(s, k)
                BY <4>1 DEF StoredAs
            <4> QED BY <3>1, <4>3, <4>4, <4>5
        <3>2. CASE key # MetaKey
            <4>0. key \notin MetaKeys /\ key \in PartKeys
                BY <1>1, <3>2, KeyNames DEF FooKeys
            <4>1. slots' = [slots EXCEPT ![key] = Nothing] /\ meta' = meta
                BY <1>3, <4>0 DEF DeleteObject
            <4>2. BucketType' /\ NeighbourIsKept' /\ Committed' = Committed /\ LiveSlot' = LiveSlot
                BY <3>0, <4>1 DEF BucketType, NeighbourIsKept, Committed, LiveSlot
            <4>3. ASSUME NEW s \in Slots, NEW k \in Parts
                  PROVE  StoredAs(s, k)' = IF key = PartKey(s, k) THEN Nothing ELSE StoredAs(s, k)
                <5>1. PartKey(s, k) \in PartKeys
                    BY KeyNames
                <5>2. slots'[PartKey(s, k)] = IF key = PartKey(s, k) THEN Nothing ELSE slots[PartKey(s, k)]
                    BY <3>0, <4>1, <5>1 DEF BucketType
                <5> QED BY <5>2 DEF StoredAs, PartKey
            <4> QED BY <3>2, <4>2, <4>3
        <3> QED BY <3>1, <3>2
    <2>5. PrefixTypes'
        BY <1>0, <1>3, <2>1, <2>3, <2>4 DEF PrefixInv, PrefixTypes, StartedType, StatusType, WriterType
    <2>6. (\A r \in Runs : RunIs(r)') /\ PassedTogether'
        BY <1>0, <1>3, RunsStay DEF PrefixInv
    <2>7. FetchAt'
        BY <2>3 DEF PrefixInv, FetchAt
    <2>8. ASSUME Quiet' PROVE WholeInv' /\ \A r \in Runs : WriterInv(r)'
        <3>1. Quiet
            BY <1>0, <1>3, <2>1, <2>8 DEF Quiet
        <3>2. \A r \in Runs : WriterInv(r)
            BY <3>1 DEF PrefixInv
        <3>3. Committed' = Nothing
            <4>1. Committed # Nothing => key = MetaKey
                BY <1>0, <3>1 DEF PrefixInv, RemoveInv, Quiet, key
            <4> QED BY <2>4, <4>1
        <3>4. WholeInv'
            BY <3>3 DEF WholeInv
        <3>5. ASSUME NEW r \in Runs PROVE WriterInv(r)'
            BY <2>1, <3>3 DEF WriterInv
        <3> QED BY <3>4, <3>5
    <2>9. ASSUME ~removing'.disturbed PROVE RemoveInv'
        <3>1. RemoveInv
            BY <2>1, <2>9 DEF PrefixInv
        <3>2. ASSUME removing.failed = 0
              PROVE  /\ Committed' # Nothing => IsAmong(MetaKey, left)
                     /\ \A s \in Slots, k \in Parts : StoredAs(s, k)' # Nothing => IsAmong(PartKey(s, k), left)
            <4>1. /\ Committed # Nothing => IsAmong(MetaKey, removing.keys)
                  /\ \A s \in Slots, k \in Parts : StoredAs(s, k) # Nothing => IsAmong(PartKey(s, k), removing.keys)
                BY <1>0, <3>1, <3>2 DEF RemoveInv
            <4>2. Committed' # Nothing => IsAmong(MetaKey, left)
                BY <1>1, <2>4, <4>1
            <4>3. ASSUME NEW s \in Slots, NEW k \in Parts, StoredAs(s, k)' # Nothing
                  PROVE  IsAmong(PartKey(s, k), left)
                <5>1. key # PartKey(s, k) /\ StoredAs(s, k) # Nothing
                    BY <2>4, <4>3, KeyNames
                <5> QED BY <1>1, <4>1, <5>1
            <4> QED BY <4>2, <4>3
        <3>3. prefixFaults' = 0 => Committed' = Nothing
            <4>1. prefixFaults = 0 /\ Committed # Nothing => key = MetaKey
                BY <1>0, <3>1 DEF RemoveInv, key
            <4> QED BY <1>3, <2>4, <4>1
        <3>4. IsAmong(MetaKey, left) <=> IsAmong(MetaKey, removing.keys)'
            BY <2>1 DEF IsAmong
        <3>5. \A s \in Slots, k \in Parts :
                 IsAmong(PartKey(s, k), left) <=> IsAmong(PartKey(s, k), removing.keys)'
            BY <2>1 DEF IsAmong, PartKey
        <3> QED BY <2>1, <3>2, <3>3, <3>4, <3>5 DEF RemoveInv
    <2> QED BY <2>3, <2>4, <2>5, <2>6, <2>7, <2>8, <2>9 DEF PrefixInv
<1> QED BY <1>2, <1>3 DEF RmDeletes, key, left

-----------------------------------------------------------------------------
(***************************************************************************)
(* Steps of a run and of its end.                                          *)
(***************************************************************************)

\* Whoever leaves the bucket, the fetch and the deletion alone has only the runs to answer for.
LEMMA RunSteps ==
    ASSUME PrefixInv, UNCHANGED <<ringVars, fetching, removing>>,
           StartedType', StatusType', WriterType', prefixFaults' \in 0 .. MaxPrefixFaults,
           prefixFaults' = 0 => prefixFaults = 0,
           \A r \in Runs : RunIs(r)', PassedTogether',
           \A r \in Runs : started'[r].open = {} => started[r].open = {},
           \A r \in Runs : WriterInv(r) => WriterInv(r)'
    PROVE  PrefixInv'
<1>1. PrefixTypes'
    BY DEF PrefixInv, PrefixTypes, BucketType, ringVars
<1>2. Quiet' => Quiet
    BY DEF Quiet
<1>3. WholeInv => WholeInv'
    BY DEF WholeInv, Committed, LiveSlot, StoredAs, ringVars
<1>4. FetchInv => FetchInv'
    BY DEF FetchInv, Committed, ringVars
<1>5. RemoveInv => RemoveInv'
    BY DEF RemoveInv, Committed, StoredAs, ringVars, IsAmong
<1>6. NeighbourIsKept' /\ FetchAt'
    BY DEF PrefixInv, NeighbourIsKept, ringVars, FetchAt
<1>7. Quiet' => WholeInv' /\ \A r \in Runs : WriterInv(r)'
    BY <1>2, <1>3 DEF PrefixInv
<1>8. Quiet' /\ ~fetching'.disturbed => FetchInv'
    BY <1>2, <1>4 DEF PrefixInv
<1>9. ~removing'.disturbed => RemoveInv'
    BY <1>5 DEF PrefixInv
<1> QED BY <1>1, <1>6, <1>7, <1>8, <1>9 DEF PrefixInv

\* What is known of a run: its claim and its writer.
LEMMA StartedIs ==
    ASSUME PrefixInv, NEW r \in Runs
    PROVE  /\ started[r] \in [pc: {"new", "window", "created", "up", "over", "refused"},
                              ring: Rings \cup {Nothing}, open: SUBSET Runs]
           /\ ringWriter[r] \in [pc: {"off", "start", "part", "meta", "reclaim"}, part: 0 .. 2,
                                 slot: Slots, count: 0 .. MaxCommits]
           /\ RunIs(r) /\ prefixFaults \in 0 .. MaxPrefixFaults
BY DEF PrefixInv, PrefixTypes, StartedType, WriterType

\* A run writes no ring, its own or the shared one.
LEMMA ChosenIs ==
    ASSUME NEW r \in Runs, NEW o \in Orders
    PROVE  (IF Checkpoints(o) THEN RingOf(r, o) ELSE Nothing) \in {Nothing, Own(r), FooRing}
<1>1. o.prefix \in {None, "foo"} /\ o.profile \in {None, "unnamed", "foo"}
    BY DEF Orders
<1>2. ResolvedPrefix(o) \in {None, "foo"}
    BY <1>1 DEF ResolvedPrefix
<1> QED BY <1>2 DEF RingOf, FooRing

\* A run resolves its checkpoint and looks who else writes that ring.
LEMMA ResolveCheckpointStep ==
    ASSUME PrefixInv, NEW r \in Runs, ResolveCheckpoint(r) PROVE PrefixInv'
<1>0. UNCHANGED <<runStatus, ringWriter, ringVars, fetching, removing>> /\ started[r].pc = "new"
    BY DEF ResolveCheckpoint
<1>1. PICK chosen \in {Nothing, Own(r), FooRing} :
        \/ RunGo(r, "refused") /\ UNCHANGED prefixFaults
        \/ /\ started' = [started EXCEPT ![r] = [pc |-> "window", ring |-> chosen, open |-> InWindow]]
           /\ ((chosen = FooRing => Unclaimed(FooRing)) /\ UNCHANGED prefixFaults) \/ PrefixFault
    <2>1. PICK o \in Orders :
            LET chosen == IF Checkpoints(o) THEN RingOf(r, o) ELSE Nothing IN
            \/ RunGo(r, "refused") /\ UNCHANGED prefixFaults
            \/ /\ ((chosen = FooRing => Unclaimed(chosen)) /\ UNCHANGED prefixFaults) \/ PrefixFault
               /\ started' = [started EXCEPT ![r] = [pc |-> "window", ring |-> chosen, open |-> InWindow]]
        BY DEF ResolveCheckpoint, FooRing
    <2> DEFINE chosen == IF Checkpoints(o) THEN RingOf(r, o) ELSE Nothing
    <2>2. chosen \in {Nothing, Own(r), FooRing}
        BY ChosenIs
    <2>3. \/ RunGo(r, "refused") /\ UNCHANGED prefixFaults
          \/ /\ started' = [started EXCEPT ![r] = [pc |-> "window", ring |-> chosen, open |-> InWindow]]
             /\ ((chosen = FooRing => Unclaimed(FooRing)) /\ UNCHANGED prefixFaults) \/ PrefixFault
        BY <2>1
    <2> HIDE DEF chosen
    <2> QED BY <2>2, <2>3
<1>2. prefixFaults' \in 0 .. MaxPrefixFaults /\ (prefixFaults > 0 => prefixFaults' > 0)
      /\ (prefixFaults' = 0 => prefixFaults = 0)
    BY <1>1, FaultIs, StartedIs, Constants
<1>3. StatusType' /\ WriterType' /\ StartedType
    BY <1>0 DEF PrefixInv, PrefixTypes, StatusType, WriterType
<1>4. \A q \in Runs : WriterInv(q) => WriterInv(q)'
    BY <1>0 DEF WriterInv, Committed, LiveSlot, StoredAs, Version, ringVars
<1>5. \A q \in Runs : RunIs(q)
    BY DEF PrefixInv
<1>6. CASE RunGo(r, "refused")
    <2>1. /\ StartedType' /\ started'[r].pc = "refused" /\ started'[r].ring = started[r].ring
          /\ started'[r].open = started[r].open /\ \A q \in Runs : q # r => started'[q] = started[q]
        BY <1>3, <1>6 DEF RunGo, StartedType
    <2>2. ASSUME NEW q \in Runs PROVE RunIs(q)'
        <3>1. CASE q # r
            BY <1>0, <1>2, <1>5, <2>1, <3>1 DEF RunIs, Writing
        <3>2. CASE q = r
            BY <1>0, <1>2, <1>5, <2>1, <3>2 DEF RunIs, Writing
        <3> QED BY <3>1, <3>2
    <2>3. PassedTogether'
        BY <1>0, <1>2, <2>1 DEF PrefixInv, PassedTogether, PastGuard
    <2>4. \A q \in Runs : started'[q].open = {} => started[q].open = {}
        BY <2>1
    <2> QED BY <1>0, <1>2, <1>3, <1>4, <2>1, <2>2, <2>3, <2>4, RunSteps
<1>7. CASE /\ started' = [started EXCEPT ![r] = [pc |-> "window", ring |-> chosen, open |-> InWindow]]
           /\ ((chosen = FooRing => Unclaimed(FooRing)) /\ UNCHANGED prefixFaults) \/ PrefixFault
    <2>0. InWindow \subseteq Runs /\ chosen \in Rings \cup {Nothing}
        BY RingNames DEF InWindow
    <2>1. /\ StartedType' /\ started'[r].pc = "window" /\ started'[r].ring = chosen
          /\ started'[r].open = InWindow /\ \A q \in Runs : q # r => started'[q] = started[q]
        BY <1>3, <1>7, <2>0 DEF StartedType
    <2>2. ASSUME NEW q \in Runs PROVE RunIs(q)'
        <3>1. CASE q # r
            BY <1>0, <1>2, <1>5, <2>1, <3>1 DEF RunIs, Writing
        <3>2. CASE q = r
            BY <1>0, <1>1, <1>2, <1>5, <2>1, <3>2 DEF RunIs, Writing
        <3> QED BY <3>1, <3>2
    <2>3. ASSUME NEW q \in Runs, q # r, PastGuard(q), chosen = FooRing PROVE q \in InWindow \/ prefixFaults' > 0
        <3>1. CASE started[q].pc = "up"
            <4>1. ~Unclaimed(FooRing)
                BY <1>5, <2>3, <3>1 DEF Unclaimed, RunIs, PastGuard
            <4> QED BY <1>7, <2>3, <4>1, FaultIs, StartedIs
        <3>2. CASE started[q].pc # "up"
            BY <2>3, <3>2 DEF PastGuard, InWindow
        <3> QED BY <3>1, <3>2
    <2>4. PassedTogether'
        <3> SUFFICES ASSUME NEW a \in Runs, NEW b \in Runs, a # b, PastGuard(a)', PastGuard(b)'
                     PROVE  a \in started'[b].open \/ b \in started'[a].open \/ prefixFaults' > 0
            BY DEF PassedTogether
        <3>1. CASE a # r /\ b # r
            BY <1>2, <2>1, <3>1 DEF PrefixInv, PassedTogether, PastGuard
        <3>2. CASE a = r
            <4>1. PastGuard(b) /\ chosen = FooRing
                BY <2>1, <3>2 DEF PastGuard
            <4> QED BY <2>1, <2>3, <3>2, <4>1
        <3>3. CASE b = r
            <4>1. PastGuard(a) /\ chosen = FooRing
                BY <2>1, <3>3 DEF PastGuard
            <4> QED BY <2>1, <2>3, <3>3, <4>1
        <3> QED BY <3>1, <3>2, <3>3
    <2>5. \A q \in Runs : started'[q].open = {} => started[q].open = {}
        BY <1>0, <1>5, <2>1 DEF RunIs
    <2> QED BY <1>0, <1>2, <1>3, <1>4, <2>1, <2>2, <2>4, <2>5, RunSteps
<1> QED BY <1>1, <1>6, <1>7

\* The group of a run is created.
LEMMA GroupIsCreatedStep ==
    ASSUME PrefixInv, NEW r \in Runs, GroupIsCreated(r) PROVE PrefixInv'
<1> DEFINE pc == IF started[r].ring = FooRing THEN "start" ELSE "off"
<1>0. /\ UNCHANGED <<runStatus, ringVars, fetching, removing, prefixFaults>>
      /\ started[r].pc = "window" /\ started' = [started EXCEPT ![r].pc = "created"]
      /\ ringWriter' = [ringWriter EXCEPT ![r].pc = pc]
    BY DEF GroupIsCreated, RunGo, FooRing
<1>1. /\ StartedType /\ WriterType /\ StatusType' /\ prefixFaults \in 0 .. MaxPrefixFaults
      /\ \A q \in Runs : RunIs(q)
    BY <1>0 DEF PrefixInv, PrefixTypes, StatusType
<1>2. pc \in {"start", "off"} /\ (pc = "start" => started[r].ring = FooRing)
    OBVIOUS
<1> HIDE DEF pc
<1>3. /\ StartedType' /\ started'[r].pc = "created" /\ started'[r].ring = started[r].ring
      /\ started'[r].open = started[r].open /\ \A q \in Runs : q # r => started'[q] = started[q]
    BY <1>0, <1>1 DEF StartedType
<1>4. /\ WriterType' /\ ringWriter'[r].pc = pc /\ ringWriter'[r].count = ringWriter[r].count
      /\ \A q \in Runs : q # r => ringWriter'[q] = ringWriter[q]
    BY <1>0, <1>1, <1>2 DEF WriterType
<1>5. ringWriter[r].count = 0
    BY <1>0, <1>1 DEF RunIs
<1>6. ASSUME NEW q \in Runs PROVE RunIs(q)'
    <2>1. CASE q # r
        BY <1>0, <1>1, <1>3, <1>4, <2>1 DEF RunIs, Writing
    <2>2. CASE q = r
        BY <1>0, <1>1, <1>2, <1>3, <1>4, <1>5, <2>2 DEF RunIs, Writing
    <2> QED BY <2>1, <2>2
<1>7. PassedTogether'
    BY <1>0, <1>3 DEF PrefixInv, PassedTogether, PastGuard
<1>8. ASSUME NEW q \in Runs, WriterInv(q) PROVE WriterInv(q)'
    <2>1. CASE q # r
        BY <1>0, <1>4, <1>8, <2>1 DEF WriterInv, Committed, LiveSlot, StoredAs, Version, ringVars
    <2>2. CASE q = r
        BY <1>2, <1>4, <1>5, <2>2 DEF WriterInv
    <2> QED BY <2>1, <2>2
<1>9. \A q \in Runs : started'[q].open = {} => started[q].open = {}
    BY <1>3
<1> QED BY <1>0, <1>1, <1>3, <1>4, <1>6, <1>7, <1>8, <1>9, RunSteps

\* A run is listed as one that is up.
LEMMA ClaimPrefixStep ==
    ASSUME PrefixInv, NEW r \in Runs, ClaimPrefix(r) PROVE PrefixInv'
<1>0. /\ UNCHANGED <<ringWriter, ringVars, fetching, removing, prefixFaults>>
      /\ started[r].pc = "created" /\ started' = [started EXCEPT ![r].pc = "up"]
      /\ runStatus' = [runStatus EXCEPT ![r] = "running"]
    BY DEF ClaimPrefix, RunGo
<1>1. /\ StartedType /\ StatusType /\ WriterType' /\ prefixFaults \in 0 .. MaxPrefixFaults
      /\ \A q \in Runs : RunIs(q)
    BY <1>0 DEF PrefixInv, PrefixTypes, WriterType
<1>2. /\ StartedType' /\ started'[r].pc = "up" /\ started'[r].ring = started[r].ring
      /\ started'[r].open = started[r].open /\ \A q \in Runs : q # r => started'[q] = started[q]
    BY <1>0, <1>1 DEF StartedType
<1>3. StatusType' /\ runStatus'[r] = "running" /\ \A q \in Runs : q # r => runStatus'[q] = runStatus[q]
    BY <1>0, <1>1 DEF StatusType
<1>4. ASSUME NEW q \in Runs PROVE RunIs(q)'
    <2>1. CASE q # r
        BY <1>0, <1>1, <1>2, <1>3, <2>1 DEF RunIs, Writing
    <2>2. CASE q = r
        BY <1>0, <1>1, <1>2, <1>3, <2>2 DEF RunIs, Writing
    <2> QED BY <2>1, <2>2
<1>5. PassedTogether'
    BY <1>0, <1>2 DEF PrefixInv, PassedTogether, PastGuard
<1>6. \A q \in Runs : WriterInv(q) => WriterInv(q)'
    BY <1>0 DEF WriterInv, Committed, LiveSlot, StoredAs, Version, ringVars
<1>7. \A q \in Runs : started'[q].open = {} => started[q].open = {}
    BY <1>2
<1> QED BY <1>0, <1>1, <1>2, <1>3, <1>4, <1>5, <1>6, <1>7, RunSteps

\* A run ends, and its writer with it unless something failed.
LEMMA RunEndsStep ==
    ASSUME PrefixInv, NEW r \in Runs, RunEnds(r) PROVE PrefixInv'
<1>0. /\ UNCHANGED <<ringVars, fetching, removing>>
      /\ started[r].pc = "up" /\ started' = [started EXCEPT ![r].pc = "over"]
      /\ runStatus' = [runStatus EXCEPT ![r] = "failed"]
      /\ \/ ringWriter' = [ringWriter EXCEPT ![r].pc = "off"] /\ UNCHANGED prefixFaults
         \/ PrefixFault /\ UNCHANGED ringWriter
    BY DEF RunEnds, RunGo
<1>1. /\ StartedType /\ StatusType /\ WriterType /\ prefixFaults \in 0 .. MaxPrefixFaults
      /\ \A q \in Runs : RunIs(q)
    BY DEF PrefixInv, PrefixTypes
<1>2. /\ StartedType' /\ started'[r].pc = "over" /\ started'[r].ring = started[r].ring
      /\ started'[r].open = started[r].open /\ \A q \in Runs : q # r => started'[q] = started[q]
    BY <1>0, <1>1 DEF StartedType
<1>3. StatusType' /\ runStatus'[r] = "failed" /\ \A q \in Runs : q # r => runStatus'[q] = runStatus[q]
    BY <1>0, <1>1 DEF StatusType
<1>4. prefixFaults' \in 0 .. MaxPrefixFaults /\ (prefixFaults > 0 => prefixFaults' > 0)
      /\ (prefixFaults' = 0 => prefixFaults = 0)
    BY <1>0, <1>1, FaultIs, Constants
<1>5. /\ WriterType' /\ \A q \in Runs : q # r => ringWriter'[q] = ringWriter[q]
      /\ ringWriter'[r].pc = "off" \/ (ringWriter'[r] = ringWriter[r] /\ prefixFaults' > 0)
    <2>1. CASE ringWriter' = [ringWriter EXCEPT ![r].pc = "off"]
        BY <1>1, <2>1 DEF WriterType
    <2>2. CASE PrefixFault /\ UNCHANGED ringWriter
        BY <1>1, <2>2, FaultIs DEF WriterType
    <2> QED BY <1>0, <2>1, <2>2
<1>6. ASSUME NEW q \in Runs PROVE RunIs(q)'
    <2>1. CASE q # r
        BY <1>0, <1>1, <1>2, <1>3, <1>4, <1>5, <2>1 DEF RunIs, Writing
    <2>2. CASE q = r
        BY <1>0, <1>1, <1>2, <1>3, <1>4, <1>5, <2>2 DEF RunIs, Writing
    <2> QED BY <2>1, <2>2
<1>7. PassedTogether'
    BY <1>0, <1>2, <1>4 DEF PrefixInv, PassedTogether, PastGuard
<1>8. ASSUME NEW q \in Runs, WriterInv(q) PROVE WriterInv(q)'
    <2>1. CASE ringWriter'[q] = ringWriter[q]
        BY <1>0, <1>8, <2>1 DEF WriterInv, Committed, LiveSlot, StoredAs, Version, ringVars
    <2>2. CASE ringWriter'[q].pc = "off"
        BY <2>2 DEF WriterInv
    <2> QED BY <1>5, <2>1, <2>2
<1>9. \A q \in Runs : started'[q].open = {} => started[q].open = {}
    BY <1>2
<1> QED BY <1>0, <1>2, <1>3, <1>4, <1>5, <1>6, <1>7, <1>8, <1>9, RunSteps

-----------------------------------------------------------------------------
(***************************************************************************)
(* Steps of an agent in the ring.                                          *)
(***************************************************************************)
\* While nothing has gone wrong, one agent writes at most.
LEMMA OneWriter ==
    ASSUME PrefixInv, NEW r \in Runs, NEW q \in Runs, r # q, Writing(r), Writing(q)
    PROVE  /\ r \in started[q].open \/ q \in started[r].open \/ prefixFaults > 0
           /\ ~Quiet
<1>1. /\ started[r].ring = FooRing /\ (started[r].pc \in {"created", "up"} \/ prefixFaults > 0)
      /\ started[q].ring = FooRing /\ (started[q].pc \in {"created", "up"} \/ prefixFaults > 0)
    BY DEF PrefixInv, RunIs
<1>2. r \in started[q].open \/ q \in started[r].open \/ prefixFaults > 0
    BY <1>1 DEF PrefixInv, PassedTogether, PastGuard
<1>3. prefixFaults > 0 => ~(prefixFaults = 0)
    BY StartedIs
<1> QED BY <1>2, <1>3 DEF Quiet

\* One writer moves; nobody else does.
LEMMA WriterMoves ==
    ASSUME PrefixInv, NEW r \in Runs, Writing(r), UNCHANGED <<started, runStatus, prefixFaults>>,
           NEW w, w \in [pc: {"start", "part", "meta", "reclaim"}, part: 0 .. 2,
                         slot: Slots, count: 0 .. MaxCommits],
           ringWriter' = [ringWriter EXCEPT ![r] = w],
           w.pc = "part" => w.part \in Parts, w.pc = "meta" => w.part = 2,
           w.pc \in {"part", "meta", "reclaim"} => w.count > 0
    PROVE  /\ WriterType' /\ (\A q \in Runs : RunIs(q)') /\ PassedTogether'
           /\ ringWriter'[r] = w
           /\ Quiet => \A q \in Runs : q # r => ringWriter'[q].pc = "off"
<1>1. WriterType /\ \A q \in Runs : RunIs(q)
    BY DEF PrefixInv, PrefixTypes
<1>2. WriterType' /\ ringWriter'[r] = w /\ \A q \in Runs : q # r => ringWriter'[q] = ringWriter[q]
    BY <1>1 DEF WriterType
<1>3. ASSUME NEW q \in Runs PROVE RunIs(q)'
    <2>1. CASE q # r
        BY <1>1, <1>2, <2>1 DEF RunIs, Writing
    <2>2. CASE q = r
        BY <1>1, <1>2, <2>2 DEF RunIs, Writing
    <2> QED BY <2>1, <2>2
<1>4. PassedTogether'
    BY DEF PrefixInv, PassedTogether, PastGuard
<1>5. Quiet => \A q \in Runs : q # r => ringWriter'[q].pc = "off"
    BY <1>2, OneWriter DEF Writing
<1> QED BY <1>2, <1>3, <1>4, <1>5

\* A fetch that is under way while its ring is written is disturbed, and well typed.
LEMMA TouchedIs ==
    ASSUME Touched(FooRing), fetching \in FetchingRecord, FetchAt
    PROVE  fetching' \in FetchingRecord /\ fetching'.disturbed /\ FetchAt'
<1>1. fetching' = [fetching EXCEPT !.disturbed = TRUE]
    BY DEF Touched, FooRing
<1>2. fetching' \in FetchingRecord /\ fetching'.disturbed
      /\ fetching'.pc = fetching.pc /\ fetching'.part = fetching.part
    BY <1>1 DEF FetchingRecord
<1> QED BY <1>2 DEF FetchAt

\* A put in the ring: whoever removes it is past its guard, or has not come to it.
LEMMA DisturbIs ==
    ASSUME PrefixInv, NEW r \in Runs, Disturb(r), started[r].ring = FooRing
    PROVE  /\ fetching' \in FetchingRecord /\ fetching'.disturbed /\ FetchAt'
           /\ removing' \in RemovingRecord /\ removing'.pc = removing.pc
           /\ removing.disturbed => removing'.disturbed
           /\ ~removing'.disturbed => removing.pc \in {"idle", "guard"} /\ RemoveInv'
<1>1. fetching \in FetchingRecord /\ removing \in RemovingRecord /\ FetchAt
    BY DEF PrefixInv, PrefixTypes
<1>2. fetching' \in FetchingRecord /\ fetching'.disturbed /\ FetchAt'
    BY <1>1, TouchedIs DEF Disturb
<1> DEFINE late == removing.pc \notin {"idle", "guard"}
<1>3. removing' = [removing EXCEPT !.disturbed = @ \/ late]
    BY DEF Disturb, FooRing
<1>4. /\ removing' \in RemovingRecord /\ removing'.pc = removing.pc
      /\ removing'.disturbed <=> removing.disturbed \/ late
    BY <1>1, <1>3 DEF RemovingRecord
<1>5. ~removing'.disturbed => removing.pc \in {"idle", "guard"}
    BY <1>4
<1>6. removing.pc \in {"idle", "guard"} => RemoveInv'
    BY <1>4 DEF RemoveInv
<1> QED BY <1>2, <1>4, <1>5, <1>6

\* What a run commits is a version.
LEMMA VersionIs ==
    ASSUME PrefixInv, NEW r \in Runs, ringWriter[r].count > 0
    PROVE  Version(r) \in Versions /\ Version(r) # Nothing
<1>1. ringWriter[r].count \in 1 .. MaxCommits
    BY StartedIs, Constants
<1> QED BY <1>1 DEF Version, Versions, Nothing

\* The watcher of a run begins to write.
LEMMA StartsToWriteStep ==
    ASSUME PrefixInv, NEW r \in Runs, StartsToWrite(r) PROVE PrefixInv'
<1> DEFINE old == ringWriter[r]
           m == meta[FooRing]
           restored == IF m.version = Nothing THEN 1 ELSE m.slot
           live == IF old.count = 0 THEN restored ELSE old.slot
           slot == 1 - live
           count == old.count + 1
           w == [pc |-> "part", part |-> 0, slot |-> slot, count |-> count]
<1>0. /\ UNCHANGED <<started, runStatus, ringVars, fetching, removing, prefixFaults>>
      /\ old.pc = "start" /\ old.count < MaxCommits /\ Writing(r) /\ started[r].ring = FooRing
    BY StartedIs DEF StartsToWrite, Writing, RunIs
<1>1. ringWriter' = [ringWriter EXCEPT ![r] = w]
    BY <1>0, StartedIs DEF StartsToWrite, PrefixInv, PrefixTypes, WriterType
<1>2. /\ old.slot \in Slots /\ old.count \in 0 .. MaxCommits
      /\ m.slot \in Slots
    BY StartedIs, RingNames DEF PrefixInv, PrefixTypes, BucketType
<1>3. live \in Slots
    BY <1>2, Constants
<1>4. Quiet /\ Committed # Nothing => LiveSlot = live
    <2>1. Quiet => WriterInv(r)
        BY DEF PrefixInv
    <2>2. old.count # 0 => old.count > 0
        BY <1>2, Constants
    <2> QED BY <1>0, <2>1, <2>2 DEF WriterInv, Committed, LiveSlot
<1> HIDE DEF live
<1>5. slot \in Slots /\ slot # live /\ count \in 0 .. MaxCommits /\ count > 0
    BY <1>0, <1>2, <1>3, Constants
<1> HIDE DEF slot, count
<1>6. /\ w \in [pc: {"start", "part", "meta", "reclaim"}, part: 0 .. 2,
                slot: Slots, count: 0 .. MaxCommits]
      /\ w.pc = "part" /\ w.part = 0 /\ w.slot = slot /\ w.count = count /\ 0 \in Parts
    BY <1>5, Constants
<1> HIDE DEF w
<1>7. /\ WriterType' /\ (\A q \in Runs : RunIs(q)') /\ PassedTogether'
      /\ ringWriter'[r] = w
      /\ Quiet => \A q \in Runs : q # r => ringWriter'[q].pc = "off"
    BY <1>0, <1>1, <1>5, <1>6, WriterMoves
<1>8. PrefixTypes'
    BY <1>0, <1>7 DEF PrefixInv, PrefixTypes, StartedType, StatusType, BucketType, ringVars
<1>9. /\ Committed' = Committed /\ LiveSlot' = LiveSlot /\ (Quiet' => Quiet)
      /\ \A s, k : StoredAs(s, k)' = StoredAs(s, k)
    BY <1>0 DEF ringVars, Committed, LiveSlot, StoredAs, Quiet
<1>10. ASSUME Quiet' PROVE WholeInv' /\ \A q \in Runs : WriterInv(q)'
    <2>1. Quiet
        BY <1>9, <1>10
    <2>2. WholeInv'
        BY <1>9, <2>1 DEF PrefixInv, WholeInv
    <2>3. ASSUME NEW q \in Runs PROVE WriterInv(q)'
        <3>1. CASE q # r
            BY <1>7, <2>1, <3>1 DEF WriterInv
        <3>2. CASE q = r
            <4>1. \A k \in Parts : ~(k < 0)
                BY Constants
            <4>2. Committed' = Nothing \/ LiveSlot' # slot
                BY <1>4, <1>5, <1>9, <2>1
            <4> QED BY <1>6, <1>7, <3>2, <4>1, <4>2 DEF WriterInv
        <3> QED BY <3>1, <3>2
    <2> QED BY <2>2, <2>3
<1>11. (Quiet' /\ ~fetching'.disturbed => FetchInv') /\ (~removing'.disturbed => RemoveInv')
       /\ NeighbourIsKept' /\ FetchAt'
    <2>1. FetchInv => FetchInv'
        BY <1>0 DEF FetchInv, Committed, ringVars
    <2>2. RemoveInv => RemoveInv'
        BY <1>0 DEF RemoveInv, Committed, StoredAs, ringVars, IsAmong
    <2> QED BY <1>0, <1>9, <2>1, <2>2 DEF PrefixInv, NeighbourIsKept, ringVars, FetchAt
<1> QED BY <1>7, <1>8, <1>10, <1>11 DEF PrefixInv

\* A writer puts a part into the slot that is not live.
LEMMA PutPartStep == ASSUME PrefixInv, NEW r \in Runs, PutPart(r) PROVE PrefixInv'
<1> DEFINE old == ringWriter[r]
           part == old.part + 1
           pc == IF old.part = 1 THEN "meta" ELSE "part"
           w == [old EXCEPT !.part = part, !.pc = pc]
           key == PartKey(old.slot, old.part)
<1>0. /\ UNCHANGED <<started, runStatus, meta, prefixFaults>>
      /\ old.pc = "part" /\ Writing(r) /\ started[r].ring = FooRing /\ old.count > 0
      /\ old.part \in Parts /\ old.slot \in Slots /\ old.count \in 0 .. MaxCommits
      /\ old \in [pc: {"off", "start", "part", "meta", "reclaim"}, part: 0 .. 2,
                  slot: Slots, count: 0 .. MaxCommits]
      /\ slots' = [slots EXCEPT ![key] = Version(r)]
      /\ Disturb(r)
    BY StartedIs DEF PutPart, Writing, RunIs, PartKey
<1>1. ringWriter' = [ringWriter EXCEPT ![r] = w]
    <2>1. (IF old.part = 1 THEN "meta" ELSE old.pc) = pc
        BY <1>0
    <2>2. ringWriter' = [ringWriter EXCEPT ![r] =
             [old EXCEPT !.part = part, !.pc = IF old.part = 1 THEN "meta" ELSE old.pc]]
        BY DEF PutPart, PrefixInv, PrefixTypes, WriterType
    <2> HIDE DEF old, pc, part
    <2> QED BY <2>1, <2>2
<1>2. /\ pc \in {"part", "meta"} /\ part \in 0 .. 2 /\ (pc = "part" => part \in Parts)
      /\ (pc = "meta" => part = 2) /\ \A k \in Parts : k < part => k = old.part \/ k < old.part
    BY <1>0, Constants
<1> HIDE DEF pc, part
<1>3. /\ w \in [pc: {"start", "part", "meta", "reclaim"}, part: 0 .. 2,
                slot: Slots, count: 0 .. MaxCommits]
      /\ w.pc = pc /\ w.part = part /\ w.slot = old.slot /\ w.count = old.count
    BY <1>0, <1>2
<1> HIDE DEF w
<1>4. /\ WriterType' /\ (\A q \in Runs : RunIs(q)') /\ PassedTogether'
      /\ ringWriter'[r] = w
      /\ Quiet => \A q \in Runs : q # r => ringWriter'[q].pc = "off"
    BY <1>0, <1>1, <1>2, <1>3, WriterMoves
<1>5. Version(r) \in Versions /\ Version(r)' = Version(r)
    BY <1>0, <1>3, <1>4, VersionIs DEF Version
<1>6. /\ BucketType'
      /\ \A s \in Slots, k \in Parts :
           StoredAs(s, k)' = IF s = old.slot /\ k = old.part THEN Version(r) ELSE StoredAs(s, k)
    <2>0. BucketType /\ key \in PartKeys
        BY <1>0, KeyNames DEF PrefixInv, PrefixTypes
    <2>1. BucketType'
        BY <1>0, <1>5, <2>0 DEF BucketType
    <2>2. ASSUME NEW s \in Slots, NEW k \in Parts
          PROVE  StoredAs(s, k)' = IF s = old.slot /\ k = old.part THEN Version(r) ELSE StoredAs(s, k)
        <3>1. PartKey(s, k) \in PartKeys /\ (PartKey(s, k) = key <=> s = old.slot /\ k = old.part)
            BY <1>0, KeyNames
        <3>2. slots'[PartKey(s, k)] = IF PartKey(s, k) = key THEN Version(r) ELSE slots[PartKey(s, k)]
            BY <1>0, <2>0, <3>1 DEF BucketType
        <3> QED BY <3>1, <3>2 DEF StoredAs, PartKey
    <2> QED BY <2>1, <2>2
<1> HIDE DEF key
<1>7. /\ fetching' \in FetchingRecord /\ fetching'.disturbed /\ FetchAt'
      /\ removing' \in RemovingRecord /\ removing'.pc = removing.pc
      /\ removing.disturbed => removing'.disturbed
      /\ ~removing'.disturbed => removing.pc \in {"idle", "guard"} /\ RemoveInv'
    BY <1>0, DisturbIs
<1>8. PrefixTypes'
    BY <1>0, <1>4, <1>6, <1>7 DEF PrefixInv, PrefixTypes, StartedType, StatusType
<1>9. /\ Committed' = Committed /\ LiveSlot' = LiveSlot /\ NeighbourIsKept' /\ LiveSlot \in Slots
    BY <1>0, RingNames DEF PrefixInv, PrefixTypes, BucketType, Committed, LiveSlot, NeighbourIsKept
<1>10. Quiet' => Quiet
    BY <1>0, <1>7 DEF Quiet
<1>11. ASSUME Quiet' PROVE WholeInv' /\ \A q \in Runs : WriterInv(q)'
    <2>1. Quiet /\ WholeInv /\ WriterInv(r) /\ removing.pc \in {"idle", "guard"}
        BY <1>7, <1>10, <1>11 DEF PrefixInv, Quiet
    <2>2. /\ Committed = Nothing \/ LiveSlot # old.slot
          /\ \A k \in Parts : k < old.part => StoredAs(old.slot, k) = Version(r)
        BY <1>0, <2>1 DEF WriterInv
    <2>3. WholeInv'
        BY <1>6, <1>9, <2>1, <2>2 DEF WholeInv
    <2>4. ASSUME NEW k \in Parts, k < part PROVE slots'[<<FooRing, old.slot, k>>] = Version(r)
        <3>1. CASE k = old.part
            BY <1>0, <1>6, <3>1 DEF StoredAs
        <3>2. CASE k # old.part
            <4>1. k < old.part
                BY <1>2, <2>4, <3>2
            <4>2. slots[<<FooRing, old.slot, k>>] = Version(r)
                BY <2>2, <4>1 DEF StoredAs
            <4> QED BY <1>0, <1>6, <3>2, <4>2 DEF StoredAs
        <3> QED BY <3>1, <3>2
    <2>5. ASSUME NEW q \in Runs PROVE WriterInv(q)'
        <3>1. CASE q # r
            BY <1>4, <2>1, <3>1 DEF WriterInv
        <3>2. CASE q = r
            <4>1. /\ ringWriter'[r].pc \in {"part", "meta"} /\ ringWriter'[r].slot = old.slot
                  /\ ringWriter'[r].part = part
                BY <1>2, <1>3, <1>4
            <4>2. \A k \in Parts : k < part => slots'[<<FooRing, old.slot, k>>] = Version(r)'
                BY <1>5, <2>4
            <4> QED BY <1>9, <2>2, <3>2, <4>1, <4>2 DEF WriterInv, StoredAs
        <3> QED BY <3>1, <3>2
    <2> QED BY <2>3, <2>5
<1> QED BY <1>4, <1>7, <1>8, <1>9, <1>11 DEF PrefixInv

\* A writer commits.
LEMMA PutMetaStep == ASSUME PrefixInv, NEW r \in Runs, PutMeta(r) PROVE PrefixInv'
<1> DEFINE old == ringWriter[r]
           w == [pc |-> "reclaim", part |-> old.part, slot |-> old.slot, count |-> old.count]
           new == [slot |-> old.slot, version |-> Version(r)]
<1>0. /\ UNCHANGED <<started, runStatus, slots, prefixFaults>>
      /\ old.pc = "meta" /\ Writing(r) /\ started[r].ring = FooRing /\ old.count > 0
      /\ old.part = 2 /\ old.slot \in Slots /\ old.count \in 0 .. MaxCommits
      /\ old \in [pc: {"off", "start", "part", "meta", "reclaim"}, part: 0 .. 2,
                  slot: Slots, count: 0 .. MaxCommits]
      /\ meta' = [meta EXCEPT ![FooRing] = new]
      /\ Disturb(r)
    BY StartedIs DEF PutMeta, Writing, RunIs
<1>1. ringWriter' = [ringWriter EXCEPT ![r] = w]
    <2>1. [old EXCEPT !.pc = "reclaim"] = w
        BY <1>0
    <2>2. ringWriter' = [ringWriter EXCEPT ![r] = [old EXCEPT !.pc = "reclaim"]]
        BY DEF PutMeta, PrefixInv, PrefixTypes, WriterType
    <2> QED BY <2>1, <2>2
<1>2. /\ w \in [pc: {"start", "part", "meta", "reclaim"}, part: 0 .. 2,
                slot: Slots, count: 0 .. MaxCommits]
      /\ w.pc = "reclaim" /\ w.slot = old.slot /\ w.count = old.count
    BY <1>0, Constants
<1> HIDE DEF w
<1>3. /\ WriterType' /\ (\A q \in Runs : RunIs(q)') /\ PassedTogether'
      /\ ringWriter'[r] = w
      /\ Quiet => \A q \in Runs : q # r => ringWriter'[q].pc = "off"
    BY <1>0, <1>1, <1>2, WriterMoves
<1>4. Version(r) \in Versions /\ Version(r) # Nothing
    BY <1>0, VersionIs
<1>5. BucketType' /\ NeighbourIsKept' /\ Committed' = Version(r) /\ LiveSlot' = old.slot
      /\ \A s, k : StoredAs(s, k)' = StoredAs(s, k)
    <2>1. BucketType /\ NeighbourIsKept
        BY DEF PrefixInv, PrefixTypes
    <2>2. /\ new \in [slot: Slots, version: Versions \cup {Nothing}]
          /\ new.slot = old.slot /\ new.version = Version(r)
        BY <1>0, <1>4
    <2> HIDE DEF new
    <2>3. BucketType' /\ meta'[FooRing] = new /\ meta'[Shared("foobar")] = meta[Shared("foobar")]
        BY <1>0, <2>1, <2>2, RingNames DEF BucketType
    <2>4. Committed' = Version(r) /\ LiveSlot' = old.slot
        BY <2>2, <2>3 DEF Committed, LiveSlot
    <2> QED BY <1>0, <2>1, <2>3, <2>4 DEF NeighbourIsKept, StoredAs
<1>6. /\ fetching' \in FetchingRecord /\ fetching'.disturbed /\ FetchAt'
      /\ removing' \in RemovingRecord /\ removing'.pc = removing.pc
      /\ removing.disturbed => removing'.disturbed
      /\ ~removing'.disturbed => removing.pc \in {"idle", "guard"} /\ RemoveInv'
    BY <1>0, DisturbIs
<1>7. PrefixTypes'
    BY <1>0, <1>3, <1>5, <1>6 DEF PrefixInv, PrefixTypes, StartedType, StatusType
<1>8. Quiet' => Quiet
    BY <1>0, <1>6 DEF Quiet
<1>9. ASSUME Quiet' PROVE WholeInv' /\ \A q \in Runs : WriterInv(q)'
    <2>1. Quiet /\ WriterInv(r) /\ removing.pc \in {"idle", "guard"}
        BY <1>6, <1>8, <1>9 DEF PrefixInv, Quiet
    <2>2. \A k \in Parts : StoredAs(old.slot, k) = Version(r)
        <3>1. \A k \in Parts : k < 2
            BY Constants
        <3> QED BY <1>0, <2>1, <3>1 DEF WriterInv
    <2>3. WholeInv'
        <3>1. \A k \in Parts : slots'[<<FooRing, old.slot, k>>] = Version(r)
            BY <1>0, <2>2 DEF StoredAs
        <3> QED BY <1>5, <3>1 DEF WholeInv, StoredAs
    <2>4. ASSUME NEW q \in Runs PROVE WriterInv(q)'
        <3>1. CASE q # r
            BY <1>3, <2>1, <3>1 DEF WriterInv
        <3>2. CASE q = r
            BY <1>2, <1>3, <1>5, <3>2 DEF WriterInv
        <3> QED BY <3>1, <3>2
    <2> QED BY <2>3, <2>4
<1> QED BY <1>3, <1>5, <1>6, <1>7, <1>9 DEF PrefixInv

\* A writer empties the slot it has left.
LEMMA ReclaimOtherStep == ASSUME PrefixInv, NEW r \in Runs, ReclaimOther(r) PROVE PrefixInv'
<1> DEFINE old == ringWriter[r]
           w == [pc |-> "start", part |-> old.part, slot |-> old.slot, count |-> old.count]
           Other == {PartKey(1 - old.slot, k) : k \in Parts}
<1>0. /\ UNCHANGED <<started, runStatus, meta, removing, prefixFaults>>
      /\ old.pc = "reclaim" /\ Writing(r) /\ started[r].ring = FooRing
      /\ old.slot \in Slots /\ old.part \in 0 .. 2 /\ old.count \in 0 .. MaxCommits
      /\ old \in [pc: {"off", "start", "part", "meta", "reclaim"}, part: 0 .. 2,
                  slot: Slots, count: 0 .. MaxCommits]
      /\ slots' \in {slots, [key \in DOMAIN slots |-> IF key \in Other THEN Nothing ELSE slots[key]]}
      /\ Touched(FooRing)
    BY StartedIs DEF ReclaimOther, Writing, RunIs, PartKey
<1>1. ringWriter' = [ringWriter EXCEPT ![r] = w]
    <2>1. [old EXCEPT !.pc = "start"] = w
        BY <1>0
    <2>2. ringWriter' = [ringWriter EXCEPT ![r] = [old EXCEPT !.pc = "start"]]
        BY DEF ReclaimOther, PrefixInv, PrefixTypes, WriterType
    <2> QED BY <2>1, <2>2
<1>2. /\ w \in [pc: {"start", "part", "meta", "reclaim"}, part: 0 .. 2,
                slot: Slots, count: 0 .. MaxCommits]
      /\ w.pc = "start" /\ w.slot = old.slot /\ w.count = old.count
    BY <1>0, Constants
<1> HIDE DEF w
<1>3. /\ WriterType' /\ (\A q \in Runs : RunIs(q)') /\ PassedTogether'
      /\ ringWriter'[r] = w
      /\ Quiet => \A q \in Runs : q # r => ringWriter'[q].pc = "off"
    BY <1>0, <1>1, <1>2, WriterMoves
<1>4. /\ BucketType'
      /\ \A s \in Slots, k \in Parts :
           \/ StoredAs(s, k)' = StoredAs(s, k)
           \/ s # old.slot /\ StoredAs(s, k)' = Nothing
    <2>0. BucketType /\ DOMAIN slots = PartKeys
        BY DEF PrefixInv, PrefixTypes, BucketType
    <2>1. CASE slots' = slots
        BY <1>0, <2>0, <2>1 DEF BucketType, StoredAs
    <2>2. CASE slots' = [key \in PartKeys |-> IF key \in Other THEN Nothing ELSE slots[key]]
        <3>0. 1 - old.slot \in Slots /\ 1 - old.slot # old.slot
            BY <1>0, Constants
        <3>1. BucketType'
            BY <1>0, <2>0, <2>2 DEF BucketType
        <3>2. ASSUME NEW s \in Slots, NEW k \in Parts
              PROVE  StoredAs(s, k)' = StoredAs(s, k) \/ (s # old.slot /\ StoredAs(s, k)' = Nothing)
            <4>1. PartKey(s, k) \in PartKeys /\ (PartKey(s, k) \in Other => s = 1 - old.slot)
                BY <3>0, KeyNames
            <4>2. slots'[PartKey(s, k)] = IF PartKey(s, k) \in Other THEN Nothing ELSE slots[PartKey(s, k)]
                BY <2>2, <4>1
            <4> QED BY <3>0, <4>1, <4>2 DEF StoredAs, PartKey
        <3> QED BY <3>1, <3>2
    <2> QED BY <1>0, <2>0, <2>1, <2>2
<1>5. fetching' \in FetchingRecord /\ fetching'.disturbed /\ FetchAt'
    BY <1>0, TouchedIs DEF PrefixInv, PrefixTypes
<1>6. PrefixTypes'
    BY <1>0, <1>3, <1>4, <1>5 DEF PrefixInv, PrefixTypes, StartedType, StatusType
<1>7. /\ Committed' = Committed /\ LiveSlot' = LiveSlot /\ NeighbourIsKept' /\ LiveSlot \in Slots
      /\ Quiet' => Quiet
    BY <1>0, RingNames DEF PrefixInv, PrefixTypes, BucketType, Committed, LiveSlot, NeighbourIsKept, Quiet
<1>8. ASSUME Quiet' PROVE WholeInv' /\ \A q \in Runs : WriterInv(q)'
    <2>1. Quiet /\ WholeInv /\ WriterInv(r) /\ RunIs(r)
        BY <1>7, <1>8 DEF PrefixInv
    <2>2. old.count > 0 => Committed = Nothing \/ LiveSlot = old.slot
        BY <1>0, <2>1 DEF WriterInv
    <2>3. WholeInv'
        <3> SUFFICES ASSUME Committed # Nothing, NEW k \in Parts
                     PROVE  slots'[<<FooRing, LiveSlot, k>>] = Committed
            BY <1>7 DEF WholeInv, StoredAs
        <3>1. StoredAs(LiveSlot, k) = Committed /\ LiveSlot = old.slot
            BY <1>0, <2>1, <2>2 DEF WholeInv, RunIs
        <3> QED BY <1>0, <1>4, <3>1 DEF StoredAs
    <2>4. ASSUME NEW q \in Runs PROVE WriterInv(q)'
        <3>1. CASE q # r
            BY <1>3, <2>1, <3>1 DEF WriterInv
        <3>2. CASE q = r
            BY <1>2, <1>3, <1>7, <2>2, <3>2 DEF WriterInv
        <3> QED BY <3>1, <3>2
    <2> QED BY <2>3, <2>4
<1>9. ASSUME ~removing'.disturbed PROVE RemoveInv'
    <2>1. RemoveInv
        BY <1>0, <1>9 DEF PrefixInv
    <2>2. \A s \in Slots, k \in Parts : StoredAs(s, k)' # Nothing => StoredAs(s, k) # Nothing
        BY <1>4
    <2> QED BY <1>0, <1>7, <2>1, <2>2 DEF RemoveInv, IsAmong
<1> QED BY <1>3, <1>5, <1>6, <1>7, <1>8, <1>9 DEF PrefixInv

\* Every command, run and writer keeps the invariant.
LEMMA PrefixInvStep == PrefixInv /\ [PrefixNext]_prefixVars => PrefixInv'
<1> SUFFICES ASSUME PrefixInv, [PrefixNext]_prefixVars PROVE PrefixInv'
    OBVIOUS
<1>1. CASE UNCHANGED prefixVars
    <2>1. UNCHANGED <<started, runStatus, ringWriter, ringVars, fetching, removing, prefixFaults>>
        BY <1>1 DEF prefixVars
    <2>2. ~removing.disturbed => RemoveInv'
        BY <2>1 DEF PrefixInv, RemoveInv, Committed, StoredAs, ringVars, IsAmong
    <2>3. removing \in RemovingRecord
        BY DEF PrefixInv, PrefixTypes
    <2> QED BY <2>1, <2>2, <2>3, RemoveSteps
<1>2. CASE \E r \in Runs : \/ ResolveCheckpoint(r) \/ GroupIsCreated(r) \/ ClaimPrefix(r) \/ RunEnds(r)
                           \/ StartsToWrite(r) \/ PutPart(r) \/ PutMeta(r) \/ ReclaimOther(r)
    BY <1>2, ResolveCheckpointStep, GroupIsCreatedStep, ClaimPrefixStep, RunEndsStep,
       StartsToWriteStep, PutPartStep, PutMetaStep, ReclaimOtherStep
<1>3. CASE \/ Command \/ FetchResolve \/ FetchPart \/ FetchVerify
           \/ RmGuard \/ RmList \/ RmDeletes \/ RmVerdict
    BY <1>3, PrefixCommandStep, FetchResolveStep, FetchPartStep, FetchVerifyStep,
       RmGuardStep, RmListStep, RmDeletesStep, RmVerdictStep
<1> QED BY <1>1, <1>2, <1>3 DEF PrefixNext

\* Every reachable state satisfies PrefixInv.
THEOREM PrefixInvariant == PrefixSpec => []PrefixInv
BY InitPrefixInv, PrefixInvStep, PTL DEF PrefixSpec

\* Every reachable state of a shared prefix is within its types.
LEMMA PrefixTyped == PrefixSpec => []PrefixTypeOK
<1>1. PrefixInv => PrefixTypeOK
    <2> SUFFICES ASSUME PrefixInv PROVE PrefixTypeOK
        OBVIOUS
    <2>1. FooKeys \subseteq MetaKeys \cup PartKeys
        BY DEF FooKeys, FooRing, MetaKey, PartKey, MetaKeys, PartKeys, Rings, PrefixNames
    <2>2. \A i \in 1 .. Len(removing.keys) : removing.keys[i] \in MetaKeys \cup PartKeys
        BY <2>1 DEF PrefixInv, PrefixTypes, RemovingRecord
    <2> QED
        BY <2>2 DEF PrefixInv, PrefixTypes, PrefixTypeOK, StartedType, StatusType, WriterType,
                    BucketType, FetchingRecord, RemovingRecord
<1> QED BY PrefixInvariant, <1>1, PTL

\* runner.rs ensure_checkpoint_unclaimed, cli checkpoint.rs fetch and rm: two runs write one
\* ring only when one had passed the guard and not claimed the prefix when the other came to
\* it, or a request failed; a fetch of a committed checkpoint finds it whole unless somebody
\* was at work in the ring; what rm reports as removed is gone; the prefix that has the name
\* of this one as its own prefix stays. For any number of runs, commits and faults.
THEOREM PrefixRespected == PrefixSpec => []PrefixIsRespected
<1>1. PrefixInv => PrefixIsRespected
    <2> SUFFICES ASSUME PrefixInv PROVE PrefixIsRespected
        OBVIOUS
    <2>1. OneWriterOrRace
        BY OneWriter DEF OneWriterOrRace
    <2>2. FetchFindsCommitted
        <3> SUFFICES ASSUME fetching.pc = "failed", fetching.meta.version # Nothing,
                            ~fetching.disturbed, ~removing.disturbed, ~(prefixFaults > 0),
                            \A r \in Runs : started[r].open = {}
                     PROVE  FALSE
            BY DEF FetchFindsCommitted
        <3>1. prefixFaults = 0
            BY Constants DEF PrefixInv, PrefixTypes
        <3>2. FetchInv
            BY <3>1 DEF PrefixInv, Quiet
        <3> QED BY <3>2 DEF FetchInv
    <2>3. RemovedIsClean
        BY DEF PrefixInv, RemoveInv, RemovedIsClean, Committed, StoredAs, FooRing
    <2> QED BY <2>1, <2>2, <2>3 DEF PrefixInv, PrefixIsRespected
<1> QED BY PrefixInvariant, <1>1, PTL
=============================================================================
