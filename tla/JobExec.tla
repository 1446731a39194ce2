------------------------------ MODULE JobExec ------------------------------
(***************************************************************************)
(* The job's process while it runs and how it is brought to an end (agent  *)
(* run.rs exec), with the checkpoint watcher at its side (checkpoint.rs    *)
(* watch_loop). What the job writes is one checkpoint directory: mtime     *)
(* counts its modifications, and it is torn while a checkpoint is half     *)
(* written. Time is the age of the newest modification.                    *)
(***************************************************************************)
EXTENDS Naturals

CONSTANTS
    MaxWrites,        \* bound: modifications of the directory
    FinalPasses       \* FINAL_STABILITY_PASSES
ASSUME JobAssumption == MaxWrites \in Nat /\ FinalPasses \in Nat \ {0}

VARIABLES
    job,          \* the child
    stray,        \* a grandchild that holds the pipes, and may write: "none" was left behind
    writing,       \* who is in the middle of a checkpoint
    mtime, torn,  \* the directory
    age,          \* since mtime: "fresh" < DIRTY_STOP_FRESH_WRITE, "quiet" >= quiesce_secs
    supervisor,         \* the supervisor
    dirty,        \* ckpt_dirty
    ckptStop,       \* the permit of the ckpt_stop Notify
    ckptWatcher,      \* the watcher's locals
    savedCkpt         \* the committed checkpoint: what it is of, and whether it is torn

directory == <<writing, mtime, torn, age>>
jobVars == <<job, stray, directory, supervisor, dirty, ckptStop, ckptWatcher, savedCkpt>>

JobTypeOK ==
    /\ job \in {"running", "ended"} /\ stray \in {"none", "alive", "ended"}
    /\ writing \in {"nobody", "job", "stray"}
    /\ mtime \in 0 .. MaxWrites /\ torn \in BOOLEAN /\ age \in {"fresh", "settled", "quiet"}
    /\ supervisor \in {"wait", "grace", "drain", "stop watcher", "join", "done"}
    /\ dirty \in BOOLEAN /\ ckptStop \in BOOLEAN
    /\ ckptWatcher \in [pc: {"wait", "pass", "upload", "again", "pause", "done"},
                    stopping: BOOLEAN, pass: 1 .. FinalPasses, last: 0 .. MaxWrites,
                    snap: 0 .. MaxWrites, half: BOOLEAN, failed: BOOLEAN]
    /\ savedCkpt \in [of: 0 .. MaxWrites, torn: BOOLEAN]

JobInit ==
    /\ job = "running" /\ stray = "none"
    /\ writing = "nobody" /\ mtime = 0 /\ torn = FALSE /\ age = "quiet"
    /\ supervisor = "wait" /\ dirty = FALSE /\ ckptStop = FALSE
    /\ ckptWatcher = [pc |-> "wait", stopping |-> FALSE, pass |-> 1, last |-> 0, snap |-> 0,
                  half |-> FALSE, failed |-> FALSE]
    /\ savedCkpt = [of |-> 0, torn |-> FALSE]
-----------------------------------------------------------------------------
(***************************************************************************)
(* The job, a process it leaves behind, and time.                          *)
(***************************************************************************)
Alive(w) == (w = "job" /\ job = "running") \/ (w = "stray" /\ stray = "alive")

\* Whatever is written while the archive is built makes it half old, half new.
Modify ==
    /\ mtime < MaxWrites
    /\ mtime' = mtime + 1 /\ age' = "fresh"
    /\ ckptWatcher' = [ckptWatcher EXCEPT !.half = @ \/ ckptWatcher.pc = "upload"]

BeginCheckpoint(w) ==
    /\ Alive(w) /\ writing = "nobody"
    /\ Modify
    /\ writing' = w /\ torn' = TRUE
    /\ UNCHANGED <<job, stray, supervisor, dirty, ckptStop, savedCkpt>>

FinishCheckpoint(w) ==
    /\ Alive(w) /\ writing = w
    /\ Modify
    /\ writing' = "nobody" /\ torn' = FALSE
    /\ UNCHANGED <<job, stray, supervisor, dirty, ckptStop, savedCkpt>>

\* The torn directory stays as it is when its writer dies.
Dies(w) == writing' = IF writing = w THEN "nobody" ELSE writing

LeaveStray ==
    /\ job = "running" /\ stray = "none"
    /\ stray' = "alive"
    /\ UNCHANGED <<job, directory, supervisor, dirty, ckptStop, ckptWatcher, savedCkpt>>

StrayEnds ==
    /\ stray = "alive"
    /\ stray' = "ended" /\ Dies("stray")
    /\ UNCHANGED <<job, mtime, torn, age, supervisor, dirty, ckptStop, ckptWatcher, savedCkpt>>

JobEnds ==                                      \* by itself, or on the stop signal
    /\ job = "running"
    /\ job' = "ended" /\ Dies("job")
    /\ UNCHANGED <<stray, mtime, torn, age, supervisor, dirty, ckptStop, ckptWatcher, savedCkpt>>

\* A writer does not pause in the middle. Once the job has ended, only the waits of the
\* agent take long: the drain of a pipe that is held open, an upload, a pause.
TimePasses ==
    /\ writing = "nobody" /\ age # "quiet"
    /\ \/ job = "running"
       \/ supervisor = "drain" /\ stray = "alive"
       \/ ckptWatcher.pc \in {"upload", "pause"}
    /\ age' = IF age = "fresh" THEN "settled" ELSE "quiet"
    /\ UNCHANGED <<job, stray, writing, mtime, torn, supervisor, dirty, ckptStop, ckptWatcher, savedCkpt>>
-----------------------------------------------------------------------------
(***************************************************************************)
(* exec: wait for the child, for SIGTERM, or for the max duration.         *)
(***************************************************************************)
Waited ==
    /\ supervisor \in {"wait", "grace"} /\ job = "ended"
    /\ supervisor' = "drain"
    /\ UNCHANGED <<job, stray, directory, dirty, ckptStop, ckptWatcher, savedCkpt>>

\* SIGTERM or too long: the stop signal is forwarded, and the grace begins.
AskedToStop ==
    /\ supervisor = "wait"
    /\ supervisor' = "grace"
    /\ UNCHANGED <<job, stray, directory, dirty, ckptStop, ckptWatcher, savedCkpt>>

ForceKill ==
    /\ supervisor = "grace" /\ job = "running"
    /\ job' = "ended" /\ Dies("job")
    /\ dirty' = TRUE
    /\ supervisor' = "drain"
    /\ UNCHANGED <<stray, mtime, torn, age, ckptStop, ckptWatcher, savedCkpt>>

\* finish_capture: to the end of both pipes, or DRAIN_GRACE.
DrainOver == TRUE
FinishCapture ==
    /\ supervisor = "drain" /\ DrainOver
    /\ supervisor' = "stop watcher"
    /\ UNCHANGED <<job, stray, directory, dirty, ckptStop, ckptWatcher, savedCkpt>>

\* notify_one: a watcher in the middle of an upload finds the permit afterwards.
StopNotifyWaiters == ckptStop' = (ckptWatcher.pc = "wait")  \* mutant: nobody waits, nobody hears it
StopNotify == ckptStop' = TRUE
StopWatcher ==
    /\ supervisor = "stop watcher"
    /\ StopNotify
    /\ supervisor' = "join"
    /\ UNCHANGED <<job, stray, directory, dirty, ckptWatcher, savedCkpt>>

Join ==
    /\ supervisor = "join" /\ ckptWatcher.pc = "done"
    /\ supervisor' = "done"
    /\ UNCHANGED <<job, stray, directory, dirty, ckptStop, ckptWatcher, savedCkpt>>
-----------------------------------------------------------------------------
(***************************************************************************)
(* watch_loop: one pass per interval, up to FINAL_STABILITY_PASSES at the  *)
(* end.                                                                    *)
(***************************************************************************)
Interval ==
    /\ ckptWatcher.pc = "wait"
    /\ ckptWatcher' = [ckptWatcher EXCEPT !.pc = "pass", !.pass = 1]
    /\ UNCHANGED <<job, stray, directory, supervisor, dirty, ckptStop, savedCkpt>>

HearStop ==
    /\ ckptWatcher.pc = "wait" /\ ckptStop
    /\ ckptStop' = FALSE
    /\ ckptWatcher' = [ckptWatcher EXCEPT !.pc = "pass", !.pass = 1, !.stopping = TRUE]
    /\ UNCHANGED <<job, stray, directory, supervisor, dirty, savedCkpt>>

\* Out of the passes: back to the interval, or the end of the watcher.
NoMore == [ckptWatcher EXCEPT !.pc = IF ckptWatcher.stopping THEN "done" ELSE "wait"]

Changed == mtime > ckptWatcher.last
TornStop == ckptWatcher.stopping /\ dirty /\ age = "fresh"
Quiescent == ckptWatcher.stopping \/ age = "quiet"

Pass ==
    /\ ckptWatcher.pc = "pass"
    /\ ckptWatcher' = IF Changed /\ ~TornStop /\ Quiescent
                  THEN [ckptWatcher EXCEPT !.pc = "upload", !.snap = mtime, !.half = torn]
                  ELSE NoMore
    /\ UNCHANGED <<job, stray, directory, supervisor, dirty, ckptStop, savedCkpt>>

\* What counts as uploaded is what was newest before the archive was begun.
SeenNow == mtime                                \* mutant: newest when the upload is over
Seen == ckptWatcher.snap

\* The upload ends, if every part of it is answered: a part's PUT has no timeout.
Uploaded ==
    /\ ckptWatcher.pc = "upload"
    /\ savedCkpt' = [of |-> ckptWatcher.snap, torn |-> ckptWatcher.half]
    /\ ckptWatcher' = [ckptWatcher EXCEPT !.pc = "again", !.last = Seen]
    /\ UNCHANGED <<job, stray, directory, supervisor, dirty, ckptStop>>

UploadFails ==
    /\ ckptWatcher.pc = "upload"
    /\ ckptWatcher' = [NoMore EXCEPT !.failed = TRUE]
    /\ UNCHANGED <<job, stray, directory, supervisor, dirty, ckptStop, savedCkpt>>

AfterUpload ==
    /\ ckptWatcher.pc = "again"
    /\ ckptWatcher' = IF ckptWatcher.stopping /\ ckptWatcher.pass < FinalPasses /\ mtime > ckptWatcher.snap
                  THEN [ckptWatcher EXCEPT !.pc = "pause"]
                  ELSE NoMore
    /\ UNCHANGED <<job, stray, directory, supervisor, dirty, ckptStop, savedCkpt>>

Pause ==
    /\ ckptWatcher.pc = "pause"
    /\ ckptWatcher' = [ckptWatcher EXCEPT !.pc = "pass", !.pass = @ + 1]
    /\ UNCHANGED <<job, stray, directory, supervisor, dirty, ckptStop, savedCkpt>>
-----------------------------------------------------------------------------
ExecStep == Waited \/ FinishCapture \/ StopWatcher \/ Join
WatcherStep == HearStop \/ Pass \/ Uploaded \/ AfterUpload \/ Pause

JobNext ==
    \/ \E w \in {"job", "stray"} : BeginCheckpoint(w) \/ FinishCheckpoint(w)
    \/ LeaveStray \/ StrayEnds \/ JobEnds \/ TimePasses
    \/ AskedToStop \/ ForceKill \/ ExecStep
    \/ Interval \/ UploadFails \/ WatcherStep

JobSpec == JobInit /\ [][JobNext]_jobVars
\* The supervisor's waits and the watcher's own work end by themselves, and a permit is found;
\* an upload need not end.
JobFairness ==
    WF_jobVars(ExecStep) /\ WF_jobVars(Pass \/ AfterUpload \/ Pause) /\ SF_jobVars(HearStop)
JobFairSpec == JobSpec /\ JobFairness
-----------------------------------------------------------------------------
\* The watcher waits for ever for the answer to a part, and exec joins it without a bound:
\* what transfer_client's "no read timeout" leaves open.
UploadNeverEnds == <>[](ckptWatcher.pc = "upload")

\* The run comes to its end after its process, whoever still holds its pipes or writes into
\* its checkpoint directory, and wherever the watcher was when it was told to stop, unless
\* an upload of the watcher never ends.
JobIsConcluded == UploadNeverEnds \/ ((job = "ended") ~> (supervisor = "done"))

\* When the watcher has ended, the directory is stored as the job left it, unless an upload
\* failed, the job was killed, or left a process behind: a change that lands while an
\* archive is built is not taken for uploaded, and is not lost to the end of the run.
LastWriteIsSaved ==
    ckptWatcher.pc = "done" /\ ~ckptWatcher.failed /\ ~dirty /\ stray = "none" =>
        savedCkpt = [of |-> mtime, torn |-> torn]
=============================================================================
