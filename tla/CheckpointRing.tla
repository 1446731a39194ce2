--------------------------- MODULE CheckpointRing ---------------------------
(***************************************************************************)
(* The agent's checkpoint slot ring (saladfingers-agent/src/checkpoint.rs) *)
(* on the object storage it writes through presigned URLs.                 *)
(*                                                                         *)
(* One shard's job is run by a succession of nodes ("lives"); each boots   *)
(* an agent that probes the committed metadata, restores the slot it       *)
(* names, runs the job and keeps uploading the checkpoint directory: the   *)
(* parts into a slot the metadata does not name, then the metadata (the    *)
(* commit), then the DELETEs of the superseded slots.  A node can vanish   *)
(* between any two requests, and any request can fail with or without      *)
(* having taken effect.                                                    *)
(*                                                                         *)
(* The unit of atomicity is one storage request.  The contents of the      *)
(* checkpoint directory are abstracted to the job's progress: dir is the   *)
(* highest step_<n> in it, and also stands for its newest mtime, as every  *)
(* write of the job raises both.  An archive is identified by its sha256,  *)
(* here its index in archives; archives[sha] is the progress it holds.     *)
(***************************************************************************)
EXTENDS Integers, Sequences, FiniteSets

CONSTANTS
    NSlots,          \* ckpt.slots.len(); the CLI presigns CHECKPOINT_SLOTS = 2
    MaxParts,        \* part URLs presigned for each slot
    CommitAttempts,  \* COMMIT_PUT_ATTEMPTS
    MayDeny,         \* a GET of an existing metadata object may be answered by a
                     \* 403 that fetch_meta_once reads as "no checkpoint stored"
    MaxLateParts,    \* part PUTs and DELETEs, and
    MaxLateMeta,     \* metadata PUTs, that may at any one time be still going to
                     \* take effect although their sender has given up on them
    MaxStep,         \* bound: progress the job makes
    MaxLives,        \* bound: nodes that run the job
    MaxFaults        \* bound: requests that fail

ASSUME RingAssumption ==
    /\ NSlots \in Nat /\ NSlots >= 2          \* probe refuses a smaller ring
    /\ MaxParts \in Nat \ {0}
    /\ CommitAttempts \in Nat \ {0}
    /\ MayDeny \in BOOLEAN
    /\ MaxLateParts \in Nat
    /\ MaxLateMeta \in Nat

ASSUME BoundAssumption ==
    /\ MaxStep \in Nat
    /\ MaxLives \in Nat
    /\ MaxFaults \in Nat

Slot == 0 .. NSlots - 1
Part == 0 .. MaxParts - 1
None == -1                  \* the Option::None of live and of known
Torn == -2                  \* directory contents extracted from mixed archives
NoObject == 0               \* a part key that holds nothing
-----------------------------------------------------------------------------
VARIABLES
    obj,        \* [Slot -> [Part -> sha]]: which archive's bytes each key holds
    meta,       \* the metadata object
    lateObj,    \* part PUTs and DELETEs that may still take effect
    lateMeta,   \* metadata PUTs that may still take effect
    pc,         \* where the agent of the current life is
    dir,        \* progress in the checkpoint directory; 0 when it is empty
    probed,     \* the metadata probe returned, until restore has used it
    hadRemote,  \* RestoredState.had_remote of this life
    live, liveUncertain, known,   \* struct Ring
    lastUploaded,                 \* watch_loop's last_uploaded; 0 is None
    up,         \* locals of upload
    sweep,      \* locals of reclaim
    archives,   \* what every archive built so far holds (sha256 -> progress)
    lives, faults                 \* lives begun, requests that failed

storeVars == <<obj, meta, lateObj, lateMeta>>
ringVars == <<live, liveUncertain, known>>
bootVars == <<probed, hadRemote>>
boundVars == <<lives, faults>>
vars == <<storeVars, pc, dir, bootVars, ringVars, lastUploaded, up, sweep,
          archives, boundVars>>

\* struct CheckpointMeta; slot None stands for an absent object.
Meta == [slot : Slot \cup {None}, parts : 0 .. MaxParts, sha : Nat, step : Int]
NoMeta == [slot |-> None, parts |-> 0, sha |-> NoObject, step |-> 0]

\* Locals of upload: the slot and known-count it started from, the label read
\* before archiving, the mtime watch_loop will record, the archive, the next
\* part to send and the attempt the commit is at.
Upload == [slot : Slot, prior : 0 .. MaxParts \cup {None}, label : Int, snap : Int,
           sha : Nat, parts : 0 .. MaxParts, next : 0 .. MaxParts,
           attempt : 1 .. CommitAttempts]
NoUpload == [slot |-> 0, prior |-> None, label |-> 0, snap |-> 0, sha |-> NoObject,
             parts |-> 0, next |-> 0, attempt |-> 1]

\* Locals of reclaim: the slot and part it is at, whether a DELETE of this slot failed.
Sweep == [slot : 0 .. NSlots, part : 0 .. MaxParts, failed : BOOLEAN]
NoSweep == [slot |-> 0, part |-> 0, failed |-> FALSE]

Uploading == {"scan", "archive", "parts", "commit"}
Running == {"watch", "reclaim"} \cup Uploading     \* the job runs meanwhile

TypeOK ==
    /\ obj \in [Slot -> [Part -> Nat]]
    /\ meta \in Meta
    /\ lateObj \subseteq [slot : Slot, part : Part, sha : Nat]
    /\ lateMeta \subseteq Meta
    /\ pc \in {"down", "probe", "restore"} \cup Running
    /\ dir \in Int
    /\ probed \in Meta
    /\ hadRemote \in BOOLEAN
    /\ live \in Slot \cup {None}
    /\ liveUncertain \in BOOLEAN
    /\ known \in [Slot -> 0 .. MaxParts \cup {None}]
    /\ lastUploaded \in Int
    /\ up \in Upload
    /\ sweep \in Sweep
    /\ archives \in Seq(Int)
    /\ lives \in Nat
    /\ faults \in Nat
-----------------------------------------------------------------------------
(***************************************************************************)
(* Storage requests.                                                       *)
(***************************************************************************)
SetObj(s, p, sha) == obj' = [obj EXCEPT ![s][p] = sha]

\* A request that gets no usable answer: it took effect and the answer was lost,
\* or it took no effect, or it still will.
UnackedObj(s, p, sha) ==
    /\ UNCHANGED <<meta, lateMeta>>
    /\ \/ SetObj(s, p, sha) /\ UNCHANGED lateObj
       \/ UNCHANGED <<obj, lateObj>>
       \/ /\ Cardinality(lateObj) < MaxLateParts
          /\ lateObj' = lateObj \cup {[slot |-> s, part |-> p, sha |-> sha]}
          /\ UNCHANGED obj

UnackedMeta(m) ==
    /\ UNCHANGED <<obj, lateObj>>
    /\ \/ meta' = m /\ UNCHANGED lateMeta
       \/ UNCHANGED <<meta, lateMeta>>
       \/ /\ Cardinality(lateMeta) < MaxLateMeta
          /\ lateMeta' = lateMeta \cup {m}
          /\ UNCHANGED meta

Fault ==
    /\ faults < MaxFaults
    /\ faults' = faults + 1
    /\ UNCHANGED lives

\* fetch_meta: the object, or "no checkpoint stored" for an ambiguous 403.
FetchMetaErrorsAbsent == {meta, NoMeta}             \* mutant: any failure reads as absent
FetchMeta == {meta} \cup (IF MayDeny THEN {NoMeta} ELSE {})

\* A request its sender gave up on takes effect after all.
LateObjLands ==
    \E w \in lateObj :
        /\ SetObj(w.slot, w.part, w.sha)
        /\ lateObj' = lateObj \ {w}
        /\ UNCHANGED <<meta, lateMeta, pc, dir, bootVars, ringVars, lastUploaded, up,
                       sweep, archives, boundVars>>

LateMetaLands ==
    \E m \in lateMeta :
        /\ meta' = m
        /\ lateMeta' = lateMeta \ {m}
        /\ UNCHANGED <<obj, lateObj, pc, dir, bootVars, ringVars, lastUploaded, up,
                       sweep, archives, boundVars>>
-----------------------------------------------------------------------------
(***************************************************************************)
(* Boot: probe, restore, Ring::new.                                        *)
(***************************************************************************)
\* A process that is gone keeps nothing: the next life gets a fresh container.
AgentReset ==
    /\ pc' = "down"
    /\ dir' = 0
    /\ probed' = NoMeta
    /\ hadRemote' = FALSE
    /\ live' = None
    /\ liveUncertain' = FALSE
    /\ known' = [s \in Slot |-> None]
    /\ lastUploaded' = 0
    /\ up' = NoUpload
    /\ sweep' = NoSweep

\* The node is lost at any point; this also stands for the agent's own exits: a
\* probe or a download that keeps failing (fatal to the run), the end of exec.
Crash ==
    /\ pc # "down"
    /\ AgentReset
    /\ UNCHANGED <<storeVars, archives, boundVars>>

Boot ==
    /\ pc = "down"
    /\ lives < MaxLives
    /\ pc' = "probe"
    /\ lives' = lives + 1
    /\ UNCHANGED <<storeVars, dir, bootVars, ringVars, lastUploaded, up, sweep, archives,
                   faults>>

\* Ring::new: every slot is known-empty on a first life and unknown on a resumed one.
NewRing(restoredLive, remote) ==
    /\ live' = restoredLive
    /\ liveUncertain' = FALSE
    /\ known' = [s \in Slot |-> IF remote THEN None ELSE 0]
    /\ hadRemote' = remote
    /\ pc' = "watch"

Probe ==
    /\ pc = "probe"
    /\ \E seen \in FetchMeta :
          \/ /\ seen.slot = None                    \* ProbedCheckpoint::Fresh
             /\ NewRing(None, FALSE)
             /\ UNCHANGED probed
          \/ /\ seen.slot # None                    \* ProbedCheckpoint::Live
             /\ probed' = seen
             /\ pc' = "restore"
             /\ UNCHANGED <<ringVars, hadRemote>>
    /\ UNCHANGED <<storeVars, dir, lastUploaded, up, sweep, archives, boundVars>>

\* The sha256 over the reassembled parts, compared with the metadata's.
ShaMatchesAlways(m) == TRUE                         \* mutant
ShaMatches(m) == \A p \in 0 .. m.parts - 1 : obj[m.slot][p] = m.sha

\* What extracting those parts leaves in the directory.
Extracted(m) ==
    IF \A p \in 0 .. m.parts - 1 : obj[m.slot][p] = obj[m.slot][0] /\ obj[m.slot][p] # NoObject
    THEN archives[obj[m.slot][0]]
    ELSE Torn

Restore ==
    /\ pc = "restore"
    /\ \/ /\ ShaMatches(probed)
          /\ dir' = IF probed.parts = 0 THEN 0 ELSE Extracted(probed)
          /\ NewRing(probed.slot, TRUE)
          /\ probed' = NoMeta
          /\ UNCHANGED <<lastUploaded, up, sweep>>
       \/ /\ ~ShaMatches(probed)                    \* fatal to the run
          /\ AgentReset
    /\ UNCHANGED <<storeVars, archives, boundVars>>
-----------------------------------------------------------------------------
(***************************************************************************)
(* The watcher: one pass of watch_loop, upload.                            *)
(***************************************************************************)
Work ==
    /\ pc \in Running
    /\ dir < MaxStep
    /\ dir' = dir + 1
    /\ UNCHANGED <<storeVars, pc, bootVars, ringVars, lastUploaded, up, sweep, archives,
                   boundVars>>

\* A scan finds the directory newer than what was last uploaded, and quiescent (or the job
\* over). A job that keeps writing may keep every scan from it.
Scan ==
    /\ pc = "watch"
    /\ dir > lastUploaded
    /\ up' = [NoUpload EXCEPT !.snap = dir]
    /\ pc' = "scan"
    /\ UNCHANGED <<storeVars, dir, bootVars, ringVars, lastUploaded, sweep, archives,
                   boundVars>>

\* Ring::target: any slot the committed metadata does not name.
TargetInPlace(lv) == IF lv = None THEN 0 ELSE lv    \* mutant: the pre-ring layout
Target(lv) == IF lv = None THEN 0 ELSE (lv + 1) % NSlots

\* After an unacknowledged commit the metadata is read again to learn what is live.
ResolvedLiveStale == {live}                         \* mutant: trust the ring's own idea
ResolvedLive == IF liveUncertain THEN {m.slot : m \in FetchMeta} ELSE {live}

\* upload up to the archive: choose the slot, forget its count, read the label.
BeginUpload ==
    /\ pc = "scan"
    /\ \E lv \in ResolvedLive :
          /\ live' = lv
          /\ up' = [up EXCEPT !.slot = Target(lv), !.prior = known[Target(lv)],
                              !.label = dir]
          /\ known' = [known EXCEPT ![Target(lv)] = None]
    /\ liveUncertain' = FALSE
    /\ pc' = "archive"
    /\ UNCHANGED <<storeVars, dir, bootVars, lastUploaded, sweep, archives, boundVars>>

\* upload returns an error: watch_loop logs it and waits for the next interval.
FailUploadMarked ==                                 \* mutant: recorded before it succeeded
    /\ pc' = "watch"
    /\ up' = NoUpload
    /\ lastUploaded' = up.snap
FailUpload ==
    /\ pc' = "watch"
    /\ up' = NoUpload
    /\ UNCHANGED lastUploaded

RereadFails ==
    /\ pc = "scan" /\ liveUncertain
    /\ Fault
    /\ FailUpload
    /\ UNCHANGED <<storeVars, dir, bootVars, ringVars, sweep, archives>>

\* Tar and compress the directory as it now is into a spooled file of some length.
Archive ==
    /\ pc = "archive"
    /\ archives' = Append(archives, dir)
    /\ \E n \in 1 .. MaxParts :
          up' = [up EXCEPT !.sha = Len(archives) + 1, !.parts = n, !.next = 0]
    /\ pc' = "parts"
    /\ UNCHANGED <<storeVars, dir, bootVars, ringVars, lastUploaded, sweep, boundVars>>

\* Local IO error, or more parts than PUT URLs.
ArchiveFails ==
    /\ pc = "archive"
    /\ Fault
    /\ FailUpload
    /\ UNCHANGED <<storeVars, dir, bootVars, ringVars, sweep, archives>>

\* upload_spooled: the parts go up one after another.
PutPart ==
    /\ pc = "parts"
    /\ SetObj(up.slot, up.next, up.sha)
    /\ up' = [up EXCEPT !.next = @ + 1]
    /\ pc' = IF up.next + 1 = up.parts THEN "commit" ELSE "parts"
    /\ UNCHANGED <<meta, lateObj, lateMeta, dir, bootVars, ringVars, lastUploaded, sweep,
                   archives, boundVars>>

\* put_part_with_retry: an attempt fails and is repeated, or was the last one.
PutPartFails ==
    /\ pc = "parts"
    /\ Fault
    /\ UnackedObj(up.slot, up.next, up.sha)
    /\ \/ UNCHANGED <<pc, up, lastUploaded>>
       \/ FailUpload
    /\ UNCHANGED <<dir, bootVars, ringVars, sweep, archives>>
-----------------------------------------------------------------------------
(***************************************************************************)
(* The commit.                                                             *)
(***************************************************************************)
\* Mutant: the label is read when the upload has finished, as it once was.
NewMetaLateLabel == [slot |-> up.slot, parts |-> up.parts, sha |-> up.sha, step |-> dir]
NewMeta == [slot |-> up.slot, parts |-> up.parts, sha |-> up.sha, step |-> up.label]

\* Parts a slot may hold after n were written over prior; unknown stays unknown.
HighWaterFresh(prior, n) == n                       \* mutant: the fresh count
HighWaterSum(prior, n) == IF prior = None THEN None ELSE prior + n   \* mutant
HighWater(prior, n) == IF prior = None THEN None ELSE IF prior > n THEN prior ELSE n

CommitAcked ==
    /\ pc = "commit"
    /\ meta' = NewMeta
    /\ live' = up.slot
    /\ known' = [known EXCEPT ![up.slot] = HighWater(up.prior, up.parts)]
    /\ lastUploaded' = up.snap
    /\ up' = NoUpload
    /\ sweep' = NoSweep
    /\ pc' = "reclaim"
    /\ UNCHANGED <<obj, lateObj, lateMeta, dir, bootVars, liveUncertain, archives,
                   boundVars>>

\* A transport error or a retryable status; the last one leaves live uncertain.
CommitFails ==
    /\ pc = "commit"
    /\ Fault
    /\ UnackedMeta(NewMeta)
    /\ \/ /\ up.attempt < CommitAttempts
          /\ up' = [up EXCEPT !.attempt = @ + 1]
          /\ UNCHANGED <<pc, liveUncertain, lastUploaded>>
       \/ /\ up.attempt = CommitAttempts
          /\ liveUncertain' = TRUE
          /\ FailUpload
    /\ UNCHANGED <<dir, bootVars, live, known, sweep, archives>>

\* A definitive client error is not retried.
CommitRejected ==
    /\ pc = "commit"
    /\ Fault
    /\ liveUncertain' = TRUE
    /\ FailUpload
    /\ UNCHANGED <<storeVars, dir, bootVars, live, known, sweep, archives>>
-----------------------------------------------------------------------------
(***************************************************************************)
(* reclaim: DELETE the parts of every slot but the live one.               *)
(***************************************************************************)
\* How many part keys of slot s are deleted; none of the live one.
SweepCount(s) ==
    IF s = live THEN 0 ELSE IF known[s] = None THEN MaxParts ELSE known[s]

SweepPart ==
    /\ pc = "reclaim" /\ sweep.slot < NSlots /\ sweep.part < SweepCount(sweep.slot)
    /\ sweep' = [sweep EXCEPT !.part = @ + 1]
    /\ SetObj(sweep.slot, sweep.part, NoObject)
    /\ UNCHANGED <<meta, lateObj, lateMeta, pc, dir, bootVars, ringVars, lastUploaded, up,
                   archives, boundVars>>

SweepPartFails ==
    /\ pc = "reclaim" /\ sweep.slot < NSlots /\ sweep.part < SweepCount(sweep.slot)
    /\ Fault
    /\ UnackedObj(sweep.slot, sweep.part, NoObject)
    /\ sweep' = [sweep EXCEPT !.part = @ + 1, !.failed = TRUE]
    /\ UNCHANGED <<pc, dir, bootVars, ringVars, lastUploaded, up, archives>>

\* The slot is finished; it is known-empty when every DELETE was acknowledged.
SweepNextSlot ==
    /\ pc = "reclaim" /\ sweep.slot < NSlots /\ sweep.part = SweepCount(sweep.slot)
    /\ sweep' = [slot |-> sweep.slot + 1, part |-> 0, failed |-> FALSE]
    /\ known' = IF sweep.slot = live \/ sweep.failed THEN known
                ELSE [known EXCEPT ![sweep.slot] = 0]
    /\ UNCHANGED <<storeVars, pc, dir, bootVars, live, liveUncertain, lastUploaded, up,
                   archives, boundVars>>

SweepDone ==
    /\ pc = "reclaim" /\ sweep.slot = NSlots
    /\ pc' = "watch"
    /\ sweep' = NoSweep
    /\ UNCHANGED <<storeVars, dir, bootVars, ringVars, lastUploaded, up, archives,
                   boundVars>>
-----------------------------------------------------------------------------
Init ==
    /\ obj = [s \in Slot |-> [p \in Part |-> NoObject]]
    /\ meta = NoMeta
    /\ lateObj = {} /\ lateMeta = {}
    /\ pc = "down"
    /\ dir = 0
    /\ probed = NoMeta
    /\ hadRemote = FALSE
    /\ live = None /\ liveUncertain = FALSE /\ known = [s \in Slot |-> None]
    /\ lastUploaded = 0
    /\ up = NoUpload
    /\ sweep = NoSweep
    /\ archives = <<>>
    /\ lives = 0 /\ faults = 0

\* What the agent does on its own when nothing fails.
AgentStep ==
    \/ Probe \/ Restore \/ Scan \/ BeginUpload \/ Archive \/ PutPart \/ CommitAcked
    \/ SweepPart \/ SweepNextSlot \/ SweepDone

Failure ==
    \/ RereadFails \/ ArchiveFails \/ PutPartFails \/ CommitFails \/ CommitRejected
    \/ SweepPartFails

Next ==
    \/ AgentStep \/ Failure
    \/ Boot \/ Crash \/ Work
    \/ LateObjLands \/ LateMetaLands

Spec == Init /\ [][Next]_vars

\* What ends by itself: local work, and requests under CONTROL_TIMEOUT.  Not a transfer of
\* parts, down or up, which has no timeout of any kind; nor a scan, which waits for the job
\* to leave the directory alone.  Nothing is assumed of the job, of the nodes or of the
\* failures.
BoundedStep ==
    \/ Probe \/ BeginUpload \/ Archive \/ CommitAcked
    \/ SweepPart \/ SweepNextSlot \/ SweepDone
FairSpec == Spec /\ WF_vars(BoundedStep)
-----------------------------------------------------------------------------
(***************************************************************************)
(* Properties.                                                             *)
(***************************************************************************)
\* Progress a relaunch would find committed.
Saved == IF meta.slot = None THEN 0 ELSE archives[meta.sha]

\* The committed metadata always names a slot whose parts are whole and are the
\* ones it describes, whatever request or node was lost in between: "until the
\* metadata names the new slot, the old slot is still complete and still
\* referenced" (protocol job.rs, struct CheckpointSlot).
MetaReadable ==
    meta.slot # None => \A p \in 0 .. meta.parts - 1 : obj[meta.slot][p] = meta.sha

\* The committed step label never announces progress that the archive does not
\* hold: the label is read before the directory is archived (checkpoint.rs upload).
LabelNotAhead == meta.slot # None => meta.step <= Saved

\* Every object lies below its slot's known count (or the count is unknown): the
\* next reclaim deletes all of them.
Covered ==
    \A s \in Slot, p \in Part :
        (obj[s][p] # NoObject /\ known[s] # None) => p < known[s]

\* In a resumed life no part of an earlier life or of a failed upload is ever out
\* of reach of reclaim: counts are high-water marks and unknown counts stay
\* unknown until a whole sweep was acknowledged (checkpoint.rs upload, reclaim).
ResumedRingCovers == (pc \in Running /\ hadRemote) => Covered

\* The same for every life: "A first life has nothing remote at all, so every slot
\* is known-empty" (checkpoint.rs Ring::new).
RingCovers == pc \in Running => Covered

\* A job never runs on a directory pieced together from different archives, even
\* when storage applies requests late: restore compares the sha256 over what it
\* downloaded before extracting it (protocol transfer.rs download_artifact).
NeverRunsOnTornRestore == dir # Torn

\* The ring implements the one-register store a job relies on: a life starts from
\* what was saved, and what is saved only moves forward.
Store == INSTANCE CheckpointStore WITH
            saved <- Saved, progress <- dir, up <- pc \in Running
ImplementsStore == Store!Spec

\* The two waits of the watcher that nothing ends: the PUT of a part that storage accepts and
\* never answers, and a directory with something new in it that is never found at rest.
PartNeverAnswered == <>[](pc = "parts")
NeverAtRest == <>[](pc = "watch" /\ dir > lastUploaded)

\* Once the job has reached a step and failures have ceased, that step becomes
\* durable or the node is lost, unless the watcher waits for ever for a part or for the
\* job to pause: no failed upload, lost acknowledgement or failed sweep leaves it stuck
\* anywhere else or convinced it has nothing to upload.
StepBecomesDurable ==
    \/ PartNeverAnswered \/ NeverAtRest
    \/ \A n \in 1 .. MaxStep :
          (pc \in Running /\ dir >= n) ~> (pc \notin Running \/ Saved >= n)
=============================================================================
