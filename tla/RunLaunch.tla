----------------------------- MODULE RunLaunch -----------------------------
(***************************************************************************)
(* `run` from its arguments to its end, for a run of several shards        *)
(* (runner.rs, deploy.rs, spec.rs): what is checked before anything is     *)
(* rented, the loop that uploads one job spec and creates one group per    *)
(* shard, and the wait that collects the shards in their order.  Every     *)
(* group bills from its creation until it is deleted, so every way out of  *)
(* the loop and of the wait has to account for the groups there are.       *)
(* RunSystem models one shard of such a run in depth.                      *)
(***************************************************************************)
EXTENDS Naturals

CONSTANTS
    ShardCount,       \* --replicas
    MaxLaunchFaults   \* bound: requests that fail for good
ASSUME LaunchAssumption == ShardCount \in Nat \ {0} /\ MaxLaunchFaults \in Nat

Shards == 0 .. ShardCount - 1

\* Where the image is: below the configured registry, under a name that merely begins like
\* it, or elsewhere.  And what [registry] says of a credential: no variable named, one that
\* is not set, one that is blank, one that is set.
Images == {"below", "neighbour", "elsewhere"}
Credential == {"unnamed", "unset", "blank", "set"}

VARIABLES
    launch,       \* the place in run(), the shard its loop is at, how far the undo is
    order,        \* what was asked for: image, credential, whether to detach
    shardGroup,   \* the group of each shard on the control plane
    jobs,         \* the shards whose job spec is in the bucket
    finished,     \* the shards whose result envelope is in the bucket
    unsure,       \* the groups a create or delete of which failed for good
    runFile,      \* RunState.status in the local file; "none" while there is no file
    launchFaults  \* requests that failed for good, counted for the bound

launchVars == <<launch, order, shardGroup, jobs, finished, unsure, runFile, launchFaults>>

Preparing == {"resolve", "quota", "inputs", "gpu", "priority"}
LaunchEnded == {"refused", "left", "createFailed", "detached", "collected", "aborted",
                "interrupted", "crashed"}

LaunchTypeOK ==
    /\ launch \in [pc: Preparing \cup LaunchEnded \cup {"spec", "create", "undo", "gateways",
                                "save", "spawn", "await", "fetch", "abort", "interrupt",
                                "mark"},
                   shard: 0 .. ShardCount, undone: 0 .. ShardCount]
    /\ order \in [image: Images, credential: Credential, detach: BOOLEAN]
    /\ shardGroup \in [Shards -> {"absent", "live", "failed", "deleted"}]
    /\ finished \subseteq jobs /\ jobs \subseteq Shards
    /\ unsure \subseteq Shards
    /\ runFile \in {"none", "running", "succeeded", "failed"}
    /\ launchFaults \in 0 .. MaxLaunchFaults

LaunchInit ==
    /\ launch = [pc |-> "resolve", shard |-> 0, undone |-> 0]
    /\ order \in [image: Images, credential: Credential, detach: BOOLEAN]
    /\ shardGroup = [s \in Shards |-> "absent"]
    /\ jobs = {} /\ finished = {} /\ unsure = {}
    /\ runFile = "none" /\ launchFaults = 0
-----------------------------------------------------------------------------
bucket == <<jobs, finished>>
Rented == <<shardGroup, unsure, launchFaults>>

LaunchAt(pc) == launch.pc = pc
LaunchGo(pc, s) == launch' = [launch EXCEPT !.pc = pc, !.shard = s]

LaunchFault ==
    /\ launchFaults < MaxLaunchFaults
    /\ launchFaults' = launchFaults + 1

\* A request about the group of s that is answered, or fails for good; a failed one may
\* have been served.
Answered(s, how) ==
    /\ shardGroup' = [shardGroup EXCEPT ![s] = how]
    /\ UNCHANGED <<unsure, launchFaults>>
Unanswered(s, how) ==
    /\ LaunchFault
    /\ shardGroup' \in {shardGroup, [shardGroup EXCEPT ![s] = how]}
    /\ unsure' = unsure \cup {s}
\* `let _ = delete_group(..)`; a group that is not there counts as deleted.
DeleteIgnored(s) == Answered(s, "deleted") \/ Unanswered(s, "deleted")
-----------------------------------------------------------------------------
(***************************************************************************)
(* Before anything is rented.                                              *)
(***************************************************************************)
\* image_is_from: a boundary, not a prefix of characters.
ImageIsFromRegistry == order.image = "below"

CheckRegistryAuth == ImageIsFromRegistry => order.credential = "set"
\* registry_auth: what the group is created with.
PullsWithCredential == order.credential = "set"

\* Flags, profile and claimed prefix, then the credential, then the rest of it.
ResolveParams ==
    /\ LaunchAt("resolve")
    /\ \/ CheckRegistryAuth /\ LaunchGo("quota", 0)
       \/ LaunchGo("refused", 0)
    /\ UNCHANGED <<order, Rented, bucket, runFile>>

\* Each step of the preparation may refuse, and nothing has been created then.
Prepared(pc, next) ==
    /\ LaunchAt(pc)
    /\ LaunchGo(next, 0) \/ LaunchGo("refused", 0)
    /\ UNCHANGED <<order, Rented, bucket, runFile>>

CheckQuota == Prepared("quota", "inputs")
UploadInputs == Prepared("inputs", "gpu")
ResolveGpuUuids == Prepared("gpu", "priority")
ParsePriority == Prepared("priority", "spec")
-----------------------------------------------------------------------------
(***************************************************************************)
(* The loop: for each shard its spec, then its group.                      *)
(***************************************************************************)
\* `put_object(..).await?`: an error returns from run() as it is.
PutSpec ==
    /\ LaunchAt("spec")
    /\ \/ jobs' = jobs \cup {launch.shard} /\ LaunchGo("create", launch.shard)
          /\ UNCHANGED launchFaults
       \/ LaunchFault /\ LaunchGo("left", launch.shard) /\ UNCHANGED jobs
    /\ UNCHANGED <<order, shardGroup, unsure, finished, runFile>>

CreateGroup ==
    /\ LaunchAt("create")
    /\ \/ /\ Answered(launch.shard, "live")
          /\ IF launch.shard + 1 < ShardCount
             THEN LaunchGo("spec", launch.shard + 1)
             ELSE LaunchGo("gateways", 0)
       \/ Unanswered(launch.shard, "live") /\ LaunchGo("undo", launch.shard)
    /\ UNCHANGED <<order, bucket, runFile>>

\* `for done in 0..shard`, errors ignored.
UndoCreated ==
    /\ LaunchAt("undo")
    /\ IF launch.undone < launch.shard
       THEN DeleteIgnored(launch.undone) /\ launch' = [launch EXCEPT !.undone = @ + 1]
       ELSE LaunchGo("createFailed", launch.shard) /\ UNCHANGED Rented
    /\ UNCHANGED <<order, bucket, runFile>>

\* report_gateways: whatever it finds, the run goes on.
ReportGateways ==
    /\ LaunchAt("gateways")
    /\ LaunchGo("save", 0)
    /\ UNCHANGED <<order, Rented, bucket, runFile>>

\* save_state drops the error of save_run.
SaveState ==
    /\ LaunchAt("save")
    /\ runFile' \in {"none", "running"}
    /\ LaunchGo(IF order.detach THEN "spawn" ELSE "await", 0)
    /\ UNCHANGED <<order, Rented, bucket>>

\* spawn_reaper: one that does not start is a warning, and `run` returns.
SpawnRunReaper ==
    /\ LaunchAt("spawn")
    /\ LaunchGo("detached", 0)
    /\ UNCHANGED <<order, Rented, bucket, runFile>>
-----------------------------------------------------------------------------
(***************************************************************************)
(* The wait: shard after shard.                                            *)
(***************************************************************************)
NextShardButLast ==                             \* mutant: the last shard is not awaited
    LaunchGo(IF launch.shard + 2 < ShardCount THEN "await" ELSE "mark", launch.shard + 1)
NextShard ==
    LaunchGo(IF launch.shard + 1 < ShardCount THEN "await" ELSE "mark", launch.shard + 1)

\* The shard has its envelope: its group goes before its outputs are fetched. A failed
\* group is kept for its logs, one that is gone already is nobody's.
AwaitShard ==
    /\ LaunchAt("await")
    /\ LET s == launch.shard IN
       \/ s \in finished /\ DeleteIgnored(s) /\ LaunchGo("fetch", s)
       \/ shardGroup[s] \in {"failed", "deleted"} /\ NextShard /\ UNCHANGED Rented
    /\ UNCHANGED <<order, bucket, runFile>>

\* Under no timeout and no hard cap, and Ctrl-C is not listened to.
DownloadOutputs ==
    /\ LaunchAt("fetch")
    /\ NextShard
    /\ UNCHANGED <<order, Rented, bucket, runFile>>

\* A poll's error or wait_hard_cap, which passes for every shard some time.
AwaitFails ==
    /\ LaunchAt("await")
    /\ LaunchGo("abort", 0)
    /\ UNCHANGED <<order, Rented, bucket, runFile>>
CtrlC ==
    /\ LaunchAt("await")
    /\ LaunchGo("interrupt", 0)
    /\ UNCHANGED <<order, Rented, bucket, runFile>>

\* cleanup: stop and delete of every shard, errors ignored. After Ctrl-C the process ends.
Cleanup ==
    /\ launch.pc \in {"abort", "interrupt"}
    /\ IF launch.shard < ShardCount
       THEN DeleteIgnored(launch.shard) /\ LaunchGo(launch.pc, launch.shard + 1)
       ELSE UNCHANGED Rented /\ LaunchGo(IF LaunchAt("abort") THEN "mark" ELSE "interrupted", 0)
    /\ UNCHANGED <<order, bucket, runFile>>

\* finalize_run after the last shard, mark_run_failed after an abort (shard 0).
MarkRun ==
    /\ LaunchAt("mark")
    /\ runFile' \in CASE runFile = "none" -> {"none"}
                      [] runFile # "none" /\ launch.shard = 0 -> {"failed"}
                      [] OTHER -> {"succeeded", "failed"}
    /\ LaunchGo(IF launch.shard = 0 THEN "aborted" ELSE "collected", launch.shard)
    /\ UNCHANGED <<order, Rented, bucket>>

LaunchCrashes ==
    /\ launch.pc \notin LaunchEnded
    /\ LaunchGo("crashed", 0)
    /\ UNCHANGED <<order, Rented, bucket, runFile>>
-----------------------------------------------------------------------------
(***************************************************************************)
(* The shards. A group whose job is done relaunches its container.         *)
(***************************************************************************)
ShardFinishes(s) ==
    /\ shardGroup[s] = "live" /\ s \in jobs \ finished
    /\ finished' = finished \cup {s}
    /\ UNCHANGED <<launch, order, Rented, jobs, runFile>>
ShardFails(s) ==
    /\ shardGroup[s] = "live" /\ s \notin finished
    /\ shardGroup' = [shardGroup EXCEPT ![s] = "failed"]
    /\ UNCHANGED <<launch, order, unsure, launchFaults, bucket, runFile>>
-----------------------------------------------------------------------------
LoopStep == PutSpec \/ CreateGroup \/ UndoCreated \/ ReportGateways \/ SaveState \/ SpawnRunReaper
AwaitStep == AwaitShard \/ AwaitFails \/ Cleanup \/ MarkRun

LaunchNext ==
    \/ ResolveParams \/ CheckQuota \/ UploadInputs \/ ResolveGpuUuids \/ ParsePriority
    \/ LoopStep
    \/ AwaitStep \/ DownloadOutputs \/ CtrlC
    \/ LaunchCrashes
    \/ \E s \in Shards : ShardFinishes(s) \/ ShardFails(s)

LaunchSpec == LaunchInit /\ [][LaunchNext]_launchVars
\* The process goes on, and the hard cap passes; no shard has to finish, and no download.
LaunchFairSpec == LaunchSpec /\ WF_launchVars(LoopStep) /\ WF_launchVars(AwaitStep)
-----------------------------------------------------------------------------
\* Groups that bill and that the control plane gave this process a clear answer about.
LeftLive == {s \in Shards \ unsure : shardGroup[s] = "live"}

\* "a run that cannot pull its own image should cost nothing": what check_registry_auth
\* lets through is what registry_auth has a credential for.
GroupsCanPull ==
    (\E s \in Shards : shardGroup[s] # "absent") /\ ImageIsFromRegistry => PullsWithCredential

\* A create that fails in the middle of the loop takes the earlier groups with it.
CreateFailureCleansUp == LaunchAt("createFailed") => LeftLive = {}

\* Whatever ends the wait, every group of the run has been dealt with.
EveryShardIsDealtWith ==
    launch.pc \in {"collected", "aborted", "interrupted"} => LeftLive = {}

\* runner.rs run, await_and_collect and cleanup: no group that cannot work is paid for, and
\* none is forgotten.
LaunchAccountsForGroups == GroupsCanPull /\ CreateFailureCleansUp /\ EveryShardIsDealtWith

\* A download of outputs gets no answer and no end; the later shards' groups bill meanwhile.
FetchNeverEnds == <>[]LaunchAt("fetch")

\* "A poll error or the hard-cap timeout must not abandon a live, billing group": once
\* it waits, the process comes to an end with nothing billing, or is killed, or hangs in a
\* download between two shards.
WaitEnds ==
    \/ FetchNeverEnds
    \/ LaunchAt("await") ~> (LaunchAt("crashed") \/ (launch.pc \in LaunchEnded /\ LeftLive = {}))

\* "A mid-loop failure must not leak the shards already created."
MidLoopFailureLeaksNothing == launch.pc \in {"createFailed", "left"} => LeftLive = {}
=============================================================================
