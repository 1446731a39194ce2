# saladfingers in TLA+

This directory specifies the part of saladfingers that has to be right on
machines that disappear: batch runs on SaladCloud, their checkpoints, outputs
and results in object storage, interactive sessions and deployed services, and
the processes on the operator's side that collect them and stop their bill. The
modules are translated from the Rust code under `src/crates/`; TLC checks them
on small instances and TLAPS proves the invariants that matter most for every
value of the constants.

To check: `tlc -config X.cfg M` for the runs of `PROJECT.json` (module `M`,
configuration `X.cfg`), and `tlapm M_proofs.tla` for the eight proof modules.
`PROJECT.json` lists the runs, the source lines behind every definition, the
hazards, the findings and the theorems. Definitions commented `mutant:` are
broken versions of the definition that follows them; substituting one makes
TLC find the corresponding property violated.

## The system

`saladfingers` (crate `saladfingers-cli`) is run by an operator. It stages
inputs and a job spec in an S3 bucket, presigns every URL the job needs, and
asks SaladCloud for one container group per shard. In the container `sf-agent`
(crate `saladfingers-agent`) fetches the spec, runs the job and leaves results
in the bucket. The two halves never speak to each other in a batch run: the
bucket, the control plane and one local state file are all the shared state.

| component | source | state it keeps | operations |
|---|---|---|---|
| run lifecycle | agent `run.rs`, `imds.rs` | `attempts.json`, `result.json`, output parts (all in the bucket) | boot, resume check, gate, inputs, exec, outputs, envelope |
| checkpoint ring | agent `checkpoint.rs` | slot parts and `meta.json` in the bucket; `Ring` in memory | probe, restore, upload, commit, reclaim |
| checkpoint watcher | agent `checkpoint.rs` | `last_uploaded`, stop and dirty flags | periodic pass, final passes |
| output capture, supervision | agent `run.rs` | child, capture file | tee, signal forwarding, drain, log upload |
| serve API | agent `serve.rs` | exec table, uploads, timers | exec, output long poll, signal, chunked upload, download, TTL, deadman |
| output ring | agent `ring.rs` | segments, offsets | push, read_from |
| autostop proxy | agent `proxy.rs` | last activity | proxy, idle, ready |
| artifact transfer | protocol `transfer.rs` | - | globs, archives, parts, retries, sha256, extraction |
| run, attach, reap, cancel | cli `runner.rs` | locals of the wait; run state file | checks, create per shard, poll, collect, fetch, cleanup |
| gc, local state | cli `admin.rs`, `state.rs` | run state files | candidates, delete, purge, release |
| prefix claim | cli `runner.rs`, `checkpoint.rs` | state files as a lock | check, claim, release, fetch, rm |
| billing spans | cli `runner.rs` | `SpanTracker` | observe, close, finalize |
| sessions, deployments | cli `session.rs`, `serve.rs`, `deploy.rs` | state file | up, exec, cp, stop, resume, rm, watchdog |
| tunnel | cli `tunnel.rs` | - | forward, rewrite redirects and cookies |
| image push | cli `image.rs` | lockfile, token on the builder | build, push, pin, deploy |
| API client | api `client.rs`, `retry.rs` | token bucket | retried request |
| logs | cli `logs.rs` | memory of printed lines | window bisection, follow |
| the rest | cli `config.rs`, `doctor.rs`, `output.rs`, ... | - | parsing and printing |

How they interact. The platform relaunches the container on *every* exit and
may move it to another node at any time (docs/empirical.md, E1, E2, E5), so the
agent is a sequence of boots that share only the bucket. The envelope is the
commit record of a shard; `meta.json` is the commit record of a checkpoint.
The CLI polls the envelope and the group; a detached reaper, `cancel`, `gc` and
a later `attach` do parts of the same, concurrently and without locks. Nothing
stops the bill but deleting the group.

What is hard, and for each component what makes it correct:

- *Nodes are lost between any two requests, requests fail with or without
  effect, and some take effect late.* The committed checkpoint must be whole,
  honestly labelled, never move backwards, and no debris may leak (ring). The
  outputs must be those of the committed envelope, and re-execution must be
  capped (run lifecycle).
- *Two nodes may run at once*, since a replaced node is killed late (E6).
- *Five processes watch and delete one group.* Whoever calls the run over must
  have torn it down; the verdict must be true to the bucket; billing must end.
- *Concurrent handlers share tables in the serve API*: output must be complete
  when `exited` is reported, an upload must be atomic although a chunk of it is
  still being written, timers must not kill work that has just been announced.
- *A job may still write, or leave somebody behind who does, while it is being
  stopped*: the last write must be saved, and a torn one not taken for it.
- *A launch fails half way, a session's group outlives its creator, a service is
  stopped while a stream runs*: whatever bills must have an owner.
- *The state file is read, changed and written back by processes that do not know of
  each other*: a status, a prefix or a pinned image can be overwritten.
- *Requests are served although their answer was lost*, and a 429 is for all the
  tasks of a process: a create must not be made twice.
- *Secrets travel with requests that servers redirect.*
- *Arithmetic at boundaries*: output ring cursors, the head and tail of a captured
  log, billing spans, log windows, part counts.

`PROJECT.json` lists these hazards one by one at the line where they bite.

## Modules

```
CheckpointStore   what checkpointing promises        RunContract   what a run promises
      ^ implements                                         ^ implements
CheckpointRing    slot ring on object storage        RunSystem     CLI, reaper, cancel, gc
      ^                                                    | extends
CheckpointRing_proofs                                RunShard      a shard seen from outside
                                                           ^ implements
                                                     RunAgent      boots, ledger, envelope
      RunSystem_proofs, RunAgent_proofs extend the two

around one run        in the container        operator's side
  JobExec               ServeExec               SessionLife     Billing
  OutputCapture           extends OutputRing    Autostop        LogFollow
  RunOutputs            FileUpload              ImagePush         extends LogWindows
  RunLaunch             FileDownload            Credentials     ApiRetry
  SharedPrefix          ServeTimers
            all of them extended by MCComponents

  Job_proofs            JobExec, OutputCapture, RunOutputs
  Serve_proofs          ServeExec and OutputRing, ServeTimers, FileUpload, FileDownload
  Operator_proofs       SessionLife, Autostop, RunLaunch, Billing, SharedPrefix
  Client_proofs         ImagePush, Credentials, ApiRetry, LogFollow and LogWindows
  Components_proofs     MCComponents, with the four above
```

**CheckpointRing** models one shard's checkpoint slots over several lives of the
job. One step is one storage request. `obj`, `meta` are the bucket; `live`,
`liveUncertain`, `known` are `struct Ring`; `up` and `sweep` are the locals of
`upload` and `reclaim`; `pc` says which of `probe`, `restore`, `watch_loop`,
`upload` or `reclaim` the agent is in. A request without a usable answer either
took effect, did not, or will later (`lateObj`, `lateMeta`). The checkpoint
directory is its progress `dir`; an archive is its sha256, an index into
`archives`. The quiescence window and the final passes after a stop are
JobExec's; here the watcher may start a pass at any time, or never.

**CheckpointStore** is its abstraction: one durable value; every life starts from
exactly it, and it only moves forward, to progress really made.

**RunAgent** is `sf-agent run` over many boots. `ledger`, `envelope`, `outputs`
are the three objects that survive a boot; `agent[n]` holds the locals of the
process on node `n`; `leaving` is the set of nodes the platform is moving the
container away from. The actions are the steps of `run` in order: `LoadLedger`,
`CountBoot`, `ResumeCheck`, `ProbeCheckpoint`, `GateOpen`/`GateShut`,
`AskToMove`, `LingerOver`, `StartExec`, `EndExec`, `UploadOutput`,
`PutEnvelope`, and their failures. A storage GET that fails reads as "absent",
as `fetch_json_retry` has it. The last group of variables (`redone`, `moved`,
`lost`, `misread`) only records history for the properties. Checkpoints are
left to CheckpointRing; failing to fetch the spec is the same as `Kill` right
after `Boot`, because nothing has been written by then.

**RunShard** is the shard as the operator's side can see it: a group, a result,
whether something runs. RunAgent is shown to implement it, and RunSystem is
built on it instead of on the agent's thirteen variables.

**RunSystem** composes the shard with everything on the operator's side. `cli` is
a `run` (attached or detached) or a later `attach`: its `pc` is the place in
`await_shard` and `await_and_collect`, and `seen`, `polls` are `seen_group` and
`missing_polls`. `reaper`, `cancel`, `gc` are the places in those three
commands, `status` the one field of the state file they argue about. `hidden`
is the creation lag, for which the control plane answers 404 although the group
exists; `overdue` and `late` are the two readings of the hard cap.

**RunContract** is its abstraction: a final result is never replaced, and who
waits is told the result that stands, or that there is none when there is none.

**JobExec** is the job's process and what ends it: the supervisor of `exec` (wait,
grace, drain, stop and join of the watcher) beside `watch_loop`. `mtime` counts the
modifications of the checkpoint directory, `torn` says that one is half written,
`stray` is a process the job left behind. `FinalPasses` is the code's constant.

**OutputCapture** is the copy of the output that becomes `log.txt`: `Capture`'s head
file and tail ring, tokio's file whose write error surfaces in the next call, and
the text `logs --uploaded` makes of it. **RunOutputs** takes the outputs from the
workdir (globs, one archive per output, parts against presigned URLs) to the operator's
directory (admission of names, fetch, digest, unpacking).

**RunLaunch** is `run` for several shards: every check before something is rented,
the loop that stores a specification and creates a group per shard, the undo when a
create fails, the sequential wait and the cleanup. RunSystem has one shard of it in
depth. **SharedPrefix** is a checkpoint prefix given by name: the guard that reads
state files, the window until the claim is saved, two runs and their agents on one
ring, and `checkpoint fetch` and `rm` beside them.

**ServeExec** is one exec session: child, two pipes, a pump each, the supervising task,
the long-polling handler, and the client with its cursor. A lock is held for one step.
**OutputRing** has `push` and `read_from` as operators on a record; a page is the number of
bytes of each stream that it holds, which is what a follower that shows them adds up. **FileUpload** is
`session cp` to the container: init, chunks, complete and the sweep as handlers that go
on when their client gives up, or are dropped; files are inodes, so that a late chunk can
still write to a part that was renamed. **FileDownload** is the way back, with resume.
**ServeTimers** is the life of the server process: deadman, max duration, graceful shutdown.

**SessionLife** is a session from create to deletion, with the box relaunched by the
platform, the reaper, `stop` and `rm`; loads and saves of the state file are steps of
their own. **Autostop** is a service: proxy, app, watchdog, `up`, `down`, `resume`, `rm`;
`up` saves the copy of the state it has held since its start, and the platform relaunches a
container that has ended. **ImagePush** is two pushes over one
lockfile, with a builder here or remote, and the deploys that read it; a layer (`blobs`) that a
repository holds is referenced as it was first pushed. **Credentials** is
the tunnel's header, redirect and cookie rules, and the redirect policy of the clients that
carry a key; an origin has a scheme, and the gateway's `https` is the only one rewritten. **Billing** is `SpanTracker` over node changes that polls miss. **ApiRetry** is
the client's token bucket and retries. **LogWindows** bisects a log window around the page
limit: a full page is any `PageSize` of the entries of its window, because the code relies on
no order of them. **LogFollow** is `logs --follow`: what a poll may still read is a set of
entries for each group, any of which a fetch over a full page may miss; what was printed is its
bounded memory `seenOrder` and, for the properties, `recent`.

**MCComponents** checks these seventeen in one run. They share no state: `component` says
whose behaviour it is, that one alone takes steps, and the others stay in their initial
states, so that the states of the run are the sum and not the product of theirs. Nothing
is lost by it: of two systems without a common variable every interleaving is, for each, a
behaviour of its own with stutters.

## Runs

| run | shows |
|---|---|
| `ring` | on a two-slot ring, over 3 lives with up to 3 failed requests: metadata always names whole parts (`MetaReadable`), its label is honest (`LabelNotAhead`), a resumed life can reclaim all debris (`ResumedRingCovers`), the ring implements CheckpointStore, and, under weak fairness, a step the job reached becomes durable, unless the node is lost, a part is never answered or the directory is never found at rest (`StepBecomesDurable`) |
| `ring_late` | with requests landing late and ambiguous 403 answers: a job still never runs on mixed archives (`NeverRunsOnTornRestore`) and labels stay honest; that a life which is told "no checkpoint stored" starts over, and its commits supersede what it was not shown, is what the code does and no property forbids |
| `ring_late_commit` | violated: a commit PUT that lands after the re-read makes `meta.json` name a slot being overwritten |
| `ring_first_life` | violated: "nothing remote at all" on a first life is not true after a life that died before its first commit |
| `run_agent` | 4 boots, one node at a time, 2 failed requests: `OutputsMatchEnvelope`, `RedoneWithinCap`, `MovesWithinLimit`, and RunAgent implements RunShard |
| `run_overlap` | violated: two nodes at once overwrite the outputs a committed success lists |
| `run_system` | all processes in every interleaving, one failed request: `OverMeansTornDown`, `ImplementsContract`, `BillingEnds` |
| `run_retry` | violated: an `Interrupted` or `AgentError` envelope ends the run although the agent means to retry |
| `run_fetch` | violated: one failed GET in the last grace makes a stored result "no result" |
| `components` | the safety of the seventeen components of MCComponents, one by one in the table below; about 1 070 000 states |
| `components_live` | the liveness of six of them: `FollowEnds`, `MaxDurationEnds`, `JobIsConcluded`, `WatchersEndTheBill` |
| `launch_leak` | violated: a specification that cannot be stored for a later shard leaves the groups of the earlier ones billing |

What `components` and `components_live` check of each module (all of them also
`ComponentTypeOK`):

| module | property | what it says |
|---|---|---|
| ServeExec | `ExitedIsComplete` | `exited: true` is answered only with the whole output in the ring, whoever drains the pipes |
| | `FollowerSeesAll` | a follower has every byte of both streams once, or has been told of the gap, which is all that is missing |
| | `FollowEnds` | the follower of an exec that ended comes to an end by a wakeup, not by the timeout of a poll |
| FileUpload | `UploadIsSound` | the remote path only ever names whole, announced files; no interleaving forgets a part file, though an I/O error of init or complete, or a dropped handler, does |
| FileDownload | `DownloadedIsWhole` | a `cp` that reports success, over interrupted runs, has a file of the remote one's length, and, if what it resumed from began as that version, that version whole; a local prefix of an earlier version is kept, since only lengths are compared, and a file replaced after the `stat` is excused |
| ServeTimers | `ChildrenAreKept` | the deadman takes down no work but that of a request it could not see yet; the exit leaves no announced exec unsignalled |
| | `MaxDurationEnds` | the maximal duration is unconditional |
| JobExec | `LastWriteIsSaved` | the directory is stored as the job left it, unless an upload failed, the job was killed, or left a process behind |
| | `JobIsConcluded` | the run ends after its process, whoever holds its pipes or goes on writing, unless an upload of its watcher never ends |
| OutputCapture | `LogOwnsUpToGaps` | of the bytes that were pushed to the capture, what the head and the tail did not keep, or a write lost, has a marker; not what a process writes after `DRAIN_GRACE`, which is never pushed |
| RunOutputs | `OutputsArriveWhole` | an output that shipped under a name of its own, and whose fetch met no fault, has every file its pattern asks for, once each; an extraction refused after the digest agreed counts as such a fault, and names that nest (`x` and `x/y`) share a directory on disk |
| RunLaunch | `LaunchAccountsForGroups` | no group that cannot work is paid for, none is forgotten by a failed create or an ended wait; a create that was served although it answered an error is excused, and the state file after a Ctrl-C is not looked at |
| SharedPrefix | `PrefixIsRespected` | two writers on one ring, and a committed checkpoint that cannot be fetched, only in the window the guard leaves open; `rm` removes all of its prefix and nothing of its neighbour; runs end here with their claim released, so a claim that a Ctrl-C leaves is not in it |
| SessionLife | `SessionIsKept` | the reaper takes no session that may be in use, a failed create leaves no group |
| SessionLife, Autostop, RunLaunch | `WatchersEndTheBill` | whoever watches a session, a container that stays idle or a run ends it, and its bill, while it runs and no request fails for good, unless the run hangs in the download of outputs; a dead app makes way for a new container |
| Autostop | `StopsOnlyIdle` | what the watchdog stops had been without a request or a chunk for the idle timeout when it asked; an answer that is long in coming is silence, and does not count as a stream |
| ImagePush | `PushIsSound` | what a deploy takes from the lockfile is in the registry under that name with all its layers; a layer that no node can unpack comes from a push that waived this by name, which need not be the push deployed; the token leaves the builder |
| Credentials | `CredentialsStayHome` | no secret is sent to another origin, no page chooses the key, a login lasts, and a redirect of the app to its own `https` URL comes back to the tunnel |
| Billing | `SpansAreSettled` | a span begins and ends while its machine ran; no saved span is open or counted twice |
| ApiRetry | `CreatesOnce`, `CoolsDown` | one create makes one group at most; after a 429 every task waits for a token |
| LogWindows, LogFollow | `LogsAreHonest` | what `logs` prints without a warning is all, and in order; `--follow` repeats only when its memory was too small, and misses lines of its window only where a fetch was cut short, which takes a full page in it and is never said |

The six violated runs are disagreements between the code and its own comments;
`findings` in `PROJECT.json` quotes the lines. Mixed parts are caught by the
sha256, and a result reported missing is found by `attach`; the groups of
`launch_leak` are found by nobody, since no state file names them.

Some properties name the cases in which the code does not hold what one may hope,
because nothing in the repository promises it: a second collection of a run may
count a span twice (`SavedIsSettled`, up to the first collection), the window between the
check and the claim of a prefix (`OneWriterOrRace`; the code calls it "a guard rail, not a
distributed lock"), an exec that is accepted after the deadman has read `last_contact`
(`DeadmanSparesWork`), the part file of an init or a complete whose handler was dropped or
met an I/O error (`PartsAreReclaimed`), an output lost to another of the same name
(`OutputsArriveWhole`), layers first pushed by somebody else (`DeployedIsWhole`: the
"guarantee that a Salad-bound image is never accidentally zstd" of image.rs:81-82 holds for
repositories without acknowledged zstd pushes), a fetch of `--follow` that was cut short
(`LateLinesAreShown`), and three waits that nothing bounds: for the answer to a part's PUT
(`PartNeverAnswered`, `UploadNeverEnds`), for a directory to come to rest (`NeverAtRest`) and
for a download between two shards (`FetchNeverEnds`). Each exception is a disjunct of the
property, so that everything else is checked.

What no property speaks of, though the code is exposed to it (`hazards` has the lines): a
checkpoint superseded by a life that was denied its metadata; a signal that goes to a process
id no longer the child's, because the models have no process ids; an upstream that computes in
silence and is stopped as idle; a watchdog that takes an error of the control plane for the
end of its service; a service whose app keeps dying, or that was started with
`--max-duration`: the proxy ends, the platform relaunches the container, and it bills on until
`down`, `rm` or `gc`; the state file and the claim of a prefix that a Ctrl-C leaves behind; an
app behind the tunnel that redirects to its own `http` URL, which the tunnel leaves alone (it
has a test for it) and the browser follows without a key.

### Bounds, and why they are enough

*Ring.* Two slots are what the CLI presigns; two parts are the least with a
"between"; two commit attempts the least with a retry. Three lives allow a life
that resumes from one that resumed; three failures allow a lost acknowledgement,
its failed re-read, and one more. The late runs have two lives, and one late request of
a kind at a time; a single one already breaks `MetaReadable`. The theorems hold for all
of these constants.

*Agent.* `MaxAttempts = 2` is the least cap that allows a re-execution, four
boots are enough to spend it, to lose one ledger write and to go past it, two
failures to combine a lost ledger with a lost envelope, one reallocation to
have it and to exhaust it. `run_overlap` has two nodes, one boot each and no
failures, which is all the violation needs.

*System.* `Tolerance = 2` with `Lag = 1` keeps the one relation the code relies
on, the tolerance being longer than the lag (6 polls, about a minute). Two boots,
one attach, one request that fails for good; the statuses are one that is a
success, one that is final without being one, and one that is retried.

*Components.* Two of a kind wherever two must meet: two exec requests for a table of one
(`MaxExecs`), two `cp` of two chunks with two tries and one handler that outlives its
client (`MaxCps`, `LastChunk`, `MaxTries`, `MaxPuts`), two pushes of one image name and two layers
(`ImageLayers`), so that an image can share a layer and have one of its own, two
runs on one prefix, two groups to follow, two machines, two API callers, two outputs; three
shards, for an undo that has something before and after it; three boots of a box, so that
the second takes over from the first and is itself taken over. One failed request
(`Max...Faults`) where each module excuses what a failure does, two flaws in ApiRetry for two
attempts and a bucket of two. Buffers are as small as they go while something still spills:
an output ring of one byte for pipes of two bytes (`MaxBytes`), pumps that read two; a captured
head and tail of two with six bytes of output, so that the head fills, the tail wraps and a gap
lies between; a log page of four and bursts of one and two in seven milliseconds of two parts,
which makes full windows down to the smallest (`MinWindow`) and cuts by `Limit` and by
`MaxQueries`; follow keeps two lines of a fetch (`FollowLimit`), has pages of two
(`FollowPage`), a window of three polls and a memory of three, and a group logs nothing or one line
between two polls (`Batches`), which fills a page, passes the limit and overflows the memory. Three
modifications of the directory with the code's own three final passes allow one before, one
during and one after a pass. Redirects: a client follows three hops and may be asked for more.

Every bound is a CONSTANT that occurs only in a guard (`MaxStep`, `MaxLives`,
`MaxFaults`, `MaxBoots`, `MaxTries`, `MaxAttach`, `MaxApiFaults`, `MaxLate...`,
`MaxTime`, `MaxWrites`, `MaxVisits`, `MaxPolls`, `MaxCommits`, `MaxVersions`, ...) or is a size
of the program's own (`Capacity`, `HeadCap`, `TailCap`, `Buf`, `PageSize`, `SeenCap`, `PartLimit`).
Deadlock is not checked: each of these systems may stop, when lives, boots or
processes have run out or a run is over.

### Fairness

`ring` assumes weak fairness of `BoundedStep`: the watcher's local work, and its requests under
`CONTROL_TIMEOUT` (metadata, commit, DELETE). It assumes nothing of the transfer of parts, for
which `transfer_client` deliberately has neither a total nor a read timeout
(transfer.rs:298-331), nor of `Scan`, which waits until the directory has been left alone for
`quiesce_secs`. `StepBecomesDurable` therefore excuses a watcher that stands for ever in a part,
and one that stands for ever before a directory with something new in it. Failures are not
forced to stop; they are finitely many.
`run_system` assumes that a CLI or reaper that has not been killed takes its
next step and that the hard cap passes. Nothing is assumed of the job, of nodes,
of the platform, or of an operator: `attach`, `cancel`, `gc` and Ctrl-C may never
come. `BillingEnds` therefore excuses exactly two cases, a request that failed
for good and a run nobody watches (the foreground process was killed, or a
detached run has lost its reaper); that is the case `gc` exists for.

`components_live` assumes weak fairness of tasks that a runtime polls and processes that
are alive, one by one: the supervisor and the poll handler of an exec; the timers task,
the handlers and the server task; create, reaper and the command that is under way for a
session, and that its cap passes; watchdog and proxy; the supervision of a job and the
passes of its watcher; the loop and the wait of a launch. The requests among these steps have a
timeout each, so such a step ends. Two transfers have none, and of them no fairness is assumed:
an upload of the watcher (`Uploaded`), which exec waits for without a bound (run.rs:198-202), and
the download of a shard's outputs (`DownloadOutputs`). `JobIsConcluded` and `WaitEnds` excuse an
execution that stays in one of them for ever, and promise the rest. Strong fairness is assumed once, of `HearStop`: the
watcher's `select!` picks at random among its ready branches, so a stop that stays ready is
heard although the interval is ready too. The child, its pipes, the operator, the clients of a
service and the platform need never do anything; in particular a container of a service that
ends may be relaunched at once, and `ServiceEnds` speaks of one that stays idle.

## Proofs

| theorem | for all |
|---|---|
| `TypeCorrect` (CheckpointRing_proofs) | constants |
| `LabelsHonest`: `[]LabelNotAhead` | constants, late requests and 403s included |
| `RestoresAreWhole`: `[]NeverRunsOnTornRestore` | constants, late requests and 403s included |
| `CommittedIsReadable`: `[]MetaReadable` | constants with `PromptStore` |
| `ResumedIsCovered`: `[]ResumedRingCovers` | constants with `MaxLateParts = 0` |
| `RingImplementsStore`: `Spec => Store!Spec` | constants with `PromptStore` |
| `SystemTypeCorrect` (RunSystem_proofs) | constants |
| `OverIsTornDown`: `[]OverMeansTornDown` | constants, so every tolerance longer than the lag |
| `SystemImplementsContract`: `Spec => ImplementsContract` | constants |
| `AgentTypeCorrect` (RunAgent_proofs) | constants, any nodes |
| `OutputsMatch`: `[]OutputsMatchEnvelope` | constants with `OneHome` |
| `MovesLimited`: `[]MovesWithinLimit` | constants with `OneHome` |
| `RedoneLimited`: `[]RedoneWithinCap` | constants with `OneHome` |
| `AgentImplementsShard`: `Spec => ImplementsShard` | constants with `OneHome` |
| `LastWriteSaved`: `[]LastWriteIsSaved` (Job_proofs) | constants, any number of final passes |
| `LogOwnsUp`: `[]LogOwnsUpToGaps` | constants: head, tail, reads and output of any size |
| `OutputsArrive`: `[]OutputsArriveWhole` | constants: any names, patterns, outputs and part limit |
| `ServeKeepsChildren`: `[]ChildrenAreKept` (Serve_proofs) | constants, any requests |
| `UploadSound`: `[]UploadIsSound` | constants, any I/O errors |
| `ExitedMeansComplete`: `[]ExitedIsComplete` | constants: capacity, page and output of any size |
| `FollowerIsTold`: `[]FollowerSeesAll` | constants, as above |
| `DownloadWhole`: `[]DownloadedIsWhole` | constants: any size and number of versions |
| `SessionKept`: `[]SessionIsKept` (Operator_proofs) | constants |
| `LaunchAccounts`: `[]LaunchAccountsForGroups` | constants, any number of shards |
| `IdleAloneIsStopped`: `[]StopsOnlyIdle` | constants |
| `SpansSettled`: `[]SpansAreSettled` | constants: any machines, times and collections |
| `PrefixRespected`: `[]PrefixIsRespected` | constants: any runs, commits and faults |
| `PushSound`: `[]PushIsSound` (Client_proofs) | constants: any pushes, image names and layers |
| `CredentialsKept`: `[]CredentialsStayHome` | constants: any visits and redirects |
| `CreateIsOnce`: `[]CreatesOnce` | constants: any callers, attempts and burst |
| `CoolDownHolds`: `CoolsDown`, of every step | constants, as above |
| `LogsHonestAlways`: `[]LogsAreHonest` | constants: any log, page, limits, groups and memory, any fetch cut short |
| `ComponentsTyped`: `Spec => []ComponentTypeOK` (Components_proofs) | constants of all components |
| `ComponentsSound`: the seventeen invariants above and `CoolsDown`, of MCComponents' `Spec` | as above |

*Ring.* The invariants are layered, each inductive given the ones before it.
`TypeInv` adds to `TypeOK` that every sha mentioned belongs to an archive that
exists. `LabelInv` says that every metadata object, stored or still travelling,
describes an existing archive at least as new as its label, and that the label
in `upload`'s locals is no newer than the directory; `LabelNotAhead` alone is
not inductive because it forgets the locals. `SoundInv` adds that what a restore
works on described an archive when it was probed: archives are never unmade, so
the sha256 that is compared is still that of a whole one. `RingInv` is why the ring
works: the slot being written is never the committed one, because `live` is the
committed slot unless `liveUncertain`, and no upload starts while it is
uncertain; the parts sent so far are all there; at the commit either the old
slot stands or the new metadata is already in place. `StoreInv` relates what is
saved to the directory, which is what the refinement needs. `CoverInv` is the count
that `ResumedRingCovers` forgets: while a slot is written its `known` is `None`, and every
object in it is below the parts sent or within reach of the next reclaim. `PromptStore` (no
late request, no ambiguous 403) is necessary: `ring_late_commit` shows
`MetaReadable` false without it. The assumption of at least two slots is
checked by the code (`probe`).

*Agent.* `OneHome` (all nodes are one: the platform starts a container nowhere before it is
gone elsewhere) is necessary: `run_overlap` is the counterexample without it. Under it
`OutputsKept` says that the parts sent so far are of this execution, and that once a success
stands no boot that read it gets past the resume check. The two caps are proved by
accounting. `MovesCounted`: the moves asked for are those of the ledger, and `MaxReallocs`
more for each lost request. `RedoneCounted` is the harder one, because the ledger counts boots
and the property counts re-executions: `Credit(b)` is what a count of `b` boots can have
let through, `Paid` what lost requests allow, and a boot on its way from the count to the
resume check has either been counted (`Uncounted` until then) or has lost the PUT that
should count it (`PaidFor`). `FinalHolds` gives the refinement of RunShard.

*System.* `OverMeansTornDown` is not inductive: it says nothing of a process
that is about to write the status. `TornDownInv` adds that every such process
(`finish`, the reaper's and `cancel`'s and `gc`'s `mark`) has seen the group
down or a request fail, which is stable since a deleted group never returns
and failures are counted; and `LagIsTolerated`, which makes the CLI's "vanished"
safe: a group once seen is visible for good, and a live one that was not seen
yet cannot have been missed more often than it may lag, so the tolerance is not
used up. That is exactly where `Lag < Tolerance` is used. `NothingYet` covers
the time before the group is created.

*Contract.* `ToldNothing` says that whoever waits, or has not begun to, was told
nothing yet. It is what lets each report be a `Report`, `ReportNone` or `Abandon`
of RunContract, which ask that nothing was told before; every other step leaves
the result and what was told alone, or is the agent's `Commit`, an `attach`
(`WaitAgain`) or gc's `Purge`. The one exception is named in the property:
`Misread`, a failed GET taken for "no result".

*Job.* An archive of the newest modification is as whole or as torn as the directory
(`NewestIsExact`), because what is written while it is built is newer than it; and nobody is
left to write once the watcher was told to stop, unless the job left a process (`StopsAfterJob`,
`LastPasses`). *Timers.* A silence has no request in flight, so what is in flight after
`last_contact` was read came in later (`SilenceIsSilent`); once the server drains nothing is
new, so what it leaves to terminate is in the table (`TimersDrained`). *Upload.* What a completion
is about to rename has been hashed, and a late chunk can only add to a file
(`RenamesWhole`); uploads to come own nothing (`FreshUpload`). *Session.* No reaper before the
group, no group that comes back, and boots that only grow (`CreatedInOrder`, `SeenBoot`). *Launch.* The
loop, its undo, the wait and the cleanup each go through the shards in order: `NotYetCreated` for
those ahead, `DealtBefore` for those behind.

*Exec and its follower.* The order in which child, pumps and supervisor end (`Ending`) is all
that `ExitedIsComplete` needs. `FollowerSeesAll` needs to count. The segments of a ring are
adjacent and end at its total (`WellFormed`); `BytesFrom(ring, s, c)` is what stream `s`
still has there from the cursor `c` on. `Push` adds the new bytes to it, for any cursor
that is not behind the new base, however much the capacity makes it drop; a page takes from it
exactly what it returns. So what a follower has shown of a stream, what the ring still has
for it and what is in the pipe add up to what was written (`Followed`) until it is warned,
and what it has shown and skipped in all is its cursor. The sums are running sums of the
segments; the lemmas on them need induction over a length (see the end of this section).

*Download.* The chunks of the local file come from versions that never get older, nor newer
than the remote file (`FetchInOrder`); so if the first is of the newest, all are.

*Log of a job.* `Accounted`: what was pushed is the head, then what was dropped, then the
ring, without a byte between them, as long as no write has failed. `FileSoFar` says what the
file is at each place in `finish`: a run of bytes from the first, or such a run and a marker.
An error of a write that only surfaces in the next call (`lateError`) excuses what is missing
until that call, which puts the marker there too.

*Outputs.* The paths a glob returns are the topmost of those it matches, and whatever it
matches is at or below exactly one of them; so an archive has each file its pattern asks for
once, in a place of its own. `PartsArePut`: the parts of an archive stay as they were sent,
because no other output has that name; `CollectInv` follows the collection record by record.

*Idle.* `aged => still`: the time of the last request that the proxy keeps is never older than
the last traffic, so what the watchdog reads as aged was still then.

*Spans.* One span is open at most, the last one of its tracker (`Tracks`), from the first
sighting of its machine to the last; one machine runs at a time and what ran is not
rewritten (`NodeRan`), so a machine seen twice ran throughout. The envelope closes it at a time
of that machine's own (`EnvelopeRan`). `TrackedInOrder` holds until the first collection only,
which is the exception the property names.

*Prefix.* Of two runs past the guard of one ring one has seen the other, or was in the window
(`PassedTogether`). While nobody came through the window and nothing failed (`Quiet`), the one
writer works in the slot that the commit record does not name (`WriterInv`), so the one it
names is whole (`WholeInv`) and what a fetch gets under it is of one version (`FetchInv`).
`RemoveInv`: the deletion has the commit record first, and what it has not got to yet is
still among its keys.

*Push.* What a push has merged, and what any lockfile copy holds, is in the registry, which
only grows, so it does not matter whose copy is saved last. An image is stored when its repository
has each layer of it, and keeps them (`Whole`); whoever stored a layer was let through by
`compression_args` (`Stored`). *Credentials.* The invariant
describes the one request that is under way: as the browser makes it, or as the tunnel sends it
on, with the key of the tunnel and no header of one hop. *API.* A task that may still send its
create has made no group (`MayStillCreate`): an answer that leaves it open is final. A
cool-down has an empty bucket, and no call goes without a token (`CoolsDown`, an action
property).

*Logs.* While windows are left (`Ahead`), they follow one another, what was kept is newer than
all of them, and unless a loss was admitted every entry has been kept or lies in one of them;
halving keeps this because no millisecond falls between the halves. `Closed` is what remains of
it for the sort, and the sort is right because the ranks of a finite order are a bijection
(`InOrderLists`). *Follow.* For every line printed within the window, the distance of its
key from the end of the memory is less than the number of lines printed since
(`Remembered`): as long as those fit the memory, none of them has been dropped. What is in a
window and unprinted was missed by a fetch that is in `cutShort`.

*Side by side.* A step of MCComponents is a step of one component and leaves the variables of
the others alone, and every component starts in one of its initial states, so a behaviour of
MCComponents is one of each component (`ExecAlone` to `OutputsAlone`). What is proved of a
component by itself then holds of the specification that the run `components` checks. The types
are part of most of the inductive invariants; the rest takes a little more: an entry of an
archive is placed at a sequence of names, which need not be a path of the workdir
(`ArchiveIsTyped`), no part has an index but its own (`OutputsBounded`), and `logs`
keeps to its budget of queries and to windows in the log or next to it (`Budgeted`).

TLC checks each of these invariants on the instance of its run.

What the theorems assume of the constants is in the ASSUME of each module. Besides the ranges
these are: two slots at least (checked by `probe`), a tolerance longer than the lag, a bound
on files of at least a chunk (`MaxSize`), at least one image, run and commit, a tail buffer of one
byte or more (`TailCap`; the code's is 8 MiB), names that are finite in number, and machines that are
not called like the two values that stand for none and for one that is not known.

Only model-checked: the liveness properties (`StepBecomesDurable`, `BillingEnds`,
`FollowEnds`, `MaxDurationEnds`, `JobIsConcluded`, `WatchersEndTheBill`), because liveness under
fairness and ENABLED are beyond the prover. Every invariant and every step property that a
passing run checks is a theorem.

Induction. The library's induction theorems take an operator as a parameter, which no
installed backend instantiates. Where a length has to be counted down (`LeastOf` in
Serve_proofs and the lemmas after it) the proofs take the least member of a set of naturals
instead, which exists because the order of its initial segments by inclusion is well founded. What
that cannot reach are operators that take an operator, so the models proved about have no
SelectSeq and no fold: lists are comprehended as sets, and put in order by rank. No module
uses RECURSIVE.

## Abstractions to know of

- RunSystem has one shard, RunLaunch several: the first has every process that
  touches a run, the second only the one that creates it and waits.
- A load of the state file followed by a save is one step in RunSystem, where
  `status` is the only field; in SessionLife it is two, and in Autostop for `up`.
- A DELETE is not subject to the creation lag: the control plane is taken to
  find a group it has created even while GET may still miss it.
- `gc`'s age threshold is "not while the creating process is about to save", and
  its deletion of orphans that no state file names is not modelled.
- A storage request of a dead node that is still travelling is not modelled in
  RunAgent: the node counts as lost when its last request has landed. The
  two-node run and the late-request ring runs cover requests that outlive
  their purpose.
- Time is facts: a window has passed, a timer is overdue, a file has settled.
  Delays and backoff are not measured; clocks of node and CLI are taken for one in
  Billing, and may differ in LogFollow.
- Bytes are what the properties tell apart: an archive is its version, a part its
  index, a byte of output its stream and offset, a digest the set it stands for.
- A crash of the server process in the middle of an upload is not modelled; a
  handler that is dropped is.
- Exit codes beyond success or not, and all formatting, are left out.

## Not modelled

- `imds.rs` is two HTTP calls (the reallocate call is an action of RunAgent) and
  `probe.rs` runs tools and reports what they print.
- The wire types have no behaviour; those with state are the records of the modules.
- The S4 client is typed requests without retries or state; presigning is URL
  construction; the generated API models are types.
- Login and the parsing of references in `image.rs` are single calls. WebSockets do not
  pass the gateway.
- `config.rs`, `doctor.rs`, `bench.rs` and the printing of tables keep nothing that outlives
  a command, and nothing runs beside them.

## Plan

Done: (1) the checkpoint store and ring, (2) shard and agent, (3) contract and system,
(4) the watcher and the job, (5) exec sessions with the output ring, (6) uploads and
downloads, (7) timers, proxy, autostop and sessions, (8) prefixes, (9) spans, log windows and
retries, (10) several shards, load and save as two steps, images, credentials, outputs.

Next, in order of what it would add:

11. The action properties that the invariants of the proofs already imply: a saved span, a
    committed envelope and a shipped log are never rewritten.
12. SharedPrefix over CheckpointRing: two rings on one prefix with all of their
    requests instead of their order.
13. Several shards inside RunSystem: reaper, cancel and `gc` act on all groups of a run in
    one loop each, and its state file is loaded and saved in two steps.
14. `gc`'s orphans: the groups of the platform against the state files of one machine, with
    a launch that has not saved yet.
