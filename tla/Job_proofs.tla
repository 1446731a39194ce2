------------------------------ MODULE Job_proofs ------------------------------
(***************************************************************************)
(* What a job leaves behind: its last write (JobExec), its log             *)
(* (OutputCapture) and its outputs (RunOutputs), each for every value of   *)
(* the constants.                                                          *)
(***************************************************************************)
EXTENDS JobExec, OutputCapture, RunOutputs, Integers, FiniteSetTheorems, SequenceTheorems, TLAPS
-----------------------------------------------------------------------------
(***************************************************************************)
(* The last write of a job is stored, for any number of writes and of      *)
(* final passes. The argument: a checkpoint that is of the newest write is *)
(* as whole or as torn as the directory, because whatever is written while *)
(* an archive is built is newer than it; and nobody is left to write once  *)
(* the watcher has been told to stop, unless the job left a process.       *)
(***************************************************************************)

WatcherType == [pc: {"wait", "pass", "upload", "again", "pause", "done"},
                stopping: BOOLEAN, pass: 1 .. FinalPasses, last: 0 .. MaxWrites,
                snap: 0 .. MaxWrites, half: BOOLEAN, failed: BOOLEAN]

WatcherTypeOK == ckptWatcher \in WatcherType
RestTypeOK ==
    /\ job \in {"running", "ended"} /\ stray \in {"none", "alive", "ended"}
    /\ writing \in {"nobody", "job", "stray"}
    /\ mtime \in 0 .. MaxWrites /\ torn \in BOOLEAN /\ age \in {"fresh", "settled", "quiet"}
    /\ supervisor \in {"wait", "grace", "drain", "stop watcher", "join", "done"}
    /\ dirty \in BOOLEAN /\ ckptStop \in BOOLEAN
    /\ savedCkpt \in [of: 0 .. MaxWrites, torn: BOOLEAN]

\* The supervisor concludes nothing, and tells nobody to stop, before the job has ended.
StopsAfterJob ==
    /\ supervisor \notin {"wait", "grace"} => job = "ended"
    /\ ckptStop \/ ckptWatcher.stopping => job = "ended"

\* What is saved is what the watcher takes for uploaded.
SavedIsLast ==
    /\ savedCkpt.of = ckptWatcher.last
    /\ ckptWatcher.last <= mtime /\ ckptWatcher.snap <= mtime
    /\ ckptWatcher.pc = "again" => ckptWatcher.last = ckptWatcher.snap

\* An archive of the newest write is what the directory is.
NewestIsExact ==
    /\ ckptWatcher.last = mtime => savedCkpt.torn = torn
    /\ ckptWatcher.pc = "upload" /\ ckptWatcher.snap = mtime => ckptWatcher.half = torn

\* The last passes are counted, and nobody writes during and after them.
LastPasses ==
    /\ ckptWatcher.pc = "pause" => ckptWatcher.pass < FinalPasses
    /\ stray = "none" =>
          /\ ckptWatcher.stopping /\ ckptWatcher.pc \in {"upload", "again"} =>
                ckptWatcher.snap = mtime
          /\ ckptWatcher.pc = "done" =>
                ckptWatcher.stopping /\ (ckptWatcher.failed \/ dirty \/ ckptWatcher.last = mtime)

JobInv == WatcherTypeOK /\ RestTypeOK /\ StopsAfterJob /\ SavedIsLast /\ NewestIsExact /\ LastPasses
-----------------------------------------------------------------------------
LEMMA InitJobInv == JobInit => JobInv
<1> SUFFICES ASSUME JobInit PROVE JobInv
    OBVIOUS
<1>1. 0 \in 0 .. MaxWrites /\ 1 \in 1 .. FinalPasses
    BY JobAssumption
<1>2. WatcherTypeOK /\ RestTypeOK
    BY <1>1 DEF JobInit, WatcherTypeOK, WatcherType, RestTypeOK
<1>3. StopsAfterJob /\ SavedIsLast /\ LastPasses
    BY DEF JobInit, StopsAfterJob, SavedIsLast, LastPasses
<1>4. NewestIsExact
    <2>1. savedCkpt.torn = FALSE /\ torn = FALSE /\ ckptWatcher.pc = "wait"
        BY DEF JobInit
    <2> QED BY <2>1 DEF NewestIsExact
<1> QED BY <1>2, <1>3, <1>4 DEF JobInv

\* A write makes the directory newer than all that the watcher has seen, and none comes in
\* the last passes.
LEMMA WriteKeepsInv ==
    ASSUME JobInv, NEW w, Alive(w), Modify, torn' \in BOOLEAN, writing' \in {"nobody", w},
           UNCHANGED <<job, stray, supervisor, dirty, ckptStop, savedCkpt>>
    PROVE  JobInv'
<1>0. WatcherTypeOK /\ RestTypeOK /\ StopsAfterJob /\ SavedIsLast /\ NewestIsExact /\ LastPasses
    BY DEF JobInv
<1>1. /\ mtime' = mtime + 1 /\ mtime' \in 0 .. MaxWrites /\ mtime \in Nat /\ age' = "fresh"
      /\ w \in {"job", "stray"}
    <2>1. mtime \in 0 .. MaxWrites /\ mtime' = mtime + 1 /\ mtime < MaxWrites /\ age' = "fresh"
        BY <1>0 DEF Modify, RestTypeOK
    <2>2. w \in {"job", "stray"}
        BY DEF Alive
    <2> QED BY <2>1, <2>2, JobAssumption
<1>2. /\ ckptWatcher \in WatcherType
      /\ ckptWatcher' = [ckptWatcher EXCEPT !.half = ckptWatcher'.half]
      /\ ckptWatcher'.half \in BOOLEAN
    <2>1. ckptWatcher \in WatcherType
        BY <1>0 DEF WatcherTypeOK
    <2>2. ckptWatcher' = [ckptWatcher EXCEPT !.half = (ckptWatcher.half \/ ckptWatcher.pc = "upload")]
        BY DEF Modify
    <2>3. (ckptWatcher.half \/ ckptWatcher.pc = "upload") \in BOOLEAN
        OBVIOUS
    <2> QED BY <2>1, <2>2, <2>3 DEF WatcherType
<1>3. ckptWatcher' \in WatcherType
    BY <1>2 DEF WatcherType
<1>4. /\ ckptWatcher'.pc = ckptWatcher.pc /\ ckptWatcher'.stopping = ckptWatcher.stopping
      /\ ckptWatcher'.last = ckptWatcher.last /\ ckptWatcher'.snap = ckptWatcher.snap
      /\ ckptWatcher'.failed = ckptWatcher.failed /\ ckptWatcher'.pass = ckptWatcher.pass
      /\ ckptWatcher.last \in Nat /\ ckptWatcher.snap \in Nat
    BY <1>2, JobAssumption DEF WatcherType
<1>5. WatcherTypeOK' /\ RestTypeOK'
    BY <1>0, <1>1, <1>3 DEF WatcherTypeOK, RestTypeOK
<1>6. StopsAfterJob' /\ SavedIsLast' /\ NewestIsExact'
    BY <1>0, <1>1, <1>4 DEF StopsAfterJob, SavedIsLast, NewestIsExact
<1>7. LastPasses'
    BY <1>0, <1>4 DEF StopsAfterJob, LastPasses, Alive
<1> QED BY <1>5, <1>6, <1>7 DEF JobInv

\* A step that leaves the watcher and the directory alone, and may end a process.
LEMMA OthersKeepInv ==
    ASSUME JobInv, RestTypeOK', StopsAfterJob',
           UNCHANGED <<mtime, torn, ckptWatcher, savedCkpt>>,
           dirty => dirty',
           stray' = "none" => stray = "none"
    PROVE  JobInv'
<1>1. WatcherTypeOK' /\ SavedIsLast' /\ NewestIsExact'
    BY DEF JobInv, WatcherTypeOK, SavedIsLast, NewestIsExact
<1>2. LastPasses'
    BY DEF JobInv, LastPasses
<1> QED BY <1>1, <1>2 DEF JobInv

\* The watcher stops when it is told to, having failed or being up to date.
LEMMA NoMoreKeepsInv ==
    ASSUME JobInv, NEW f \in BOOLEAN,
           ckptWatcher' = [NoMore EXCEPT !.failed = f],
           f \/ f = ckptWatcher.failed,
           stray = "none" /\ ckptWatcher.stopping => f \/ dirty \/ ckptWatcher.last = mtime,
           UNCHANGED <<job, stray, directory, supervisor, dirty, ckptStop, savedCkpt>>
    PROVE  JobInv'
<1>0. WatcherTypeOK /\ RestTypeOK /\ StopsAfterJob /\ SavedIsLast /\ NewestIsExact /\ LastPasses
    BY DEF JobInv
<1>1. UNCHANGED <<job, stray, writing, mtime, torn, age, supervisor, dirty, ckptStop, savedCkpt>>
    BY DEF directory
<1>2. ckptWatcher \in WatcherType
    BY <1>0 DEF WatcherTypeOK
<1>3. ckptWatcher' \in WatcherType
    BY <1>2 DEF WatcherType, NoMore
<1>4. /\ ckptWatcher'.pc = IF ckptWatcher.stopping THEN "done" ELSE "wait"
      /\ ckptWatcher'.stopping = ckptWatcher.stopping
      /\ ckptWatcher'.last = ckptWatcher.last /\ ckptWatcher'.snap = ckptWatcher.snap
      /\ ckptWatcher'.failed = f
    BY <1>2 DEF WatcherType, NoMore
<1>5. WatcherTypeOK' /\ RestTypeOK'
    BY <1>0, <1>1, <1>3, ZenonT(30) DEF WatcherTypeOK, RestTypeOK
<1>6. StopsAfterJob'
    BY <1>0, <1>1, <1>4 DEF StopsAfterJob
<1>7. SavedIsLast' /\ NewestIsExact'
    BY <1>0, <1>1, <1>4 DEF SavedIsLast, NewestIsExact
<1>8. LastPasses'
    BY <1>0, <1>1, <1>4 DEF LastPasses
<1> QED BY <1>5, <1>6, <1>7, <1>8 DEF JobInv

LEMMA JobInvStep == JobInv /\ [JobNext]_jobVars => JobInv'
<1> SUFFICES ASSUME JobInv, [JobNext]_jobVars PROVE JobInv'
    OBVIOUS
<1>0. WatcherTypeOK /\ RestTypeOK /\ StopsAfterJob /\ SavedIsLast /\ NewestIsExact /\ LastPasses
    BY DEF JobInv
<1>t. /\ ckptWatcher \in WatcherType /\ ckptWatcher.stopping \in BOOLEAN
      /\ ckptStop \in BOOLEAN /\ dirty \in BOOLEAN /\ mtime \in 0 .. MaxWrites /\ mtime \in Nat
    <2>1. ckptWatcher \in WatcherType
        BY <1>0 DEF WatcherTypeOK
    <2>2. ckptStop \in BOOLEAN /\ dirty \in BOOLEAN /\ mtime \in 0 .. MaxWrites
        BY <1>0 DEF RestTypeOK
    <2>3. mtime \in Nat
        BY <2>2, JobAssumption
    <2> QED BY <2>1, <2>2, <2>3 DEF WatcherType
<1>1. ASSUME NEW w \in {"job", "stray"}, BeginCheckpoint(w) \/ FinishCheckpoint(w) PROVE JobInv'
    BY <1>1, WriteKeepsInv DEF BeginCheckpoint, FinishCheckpoint
<1>2. CASE LeaveStray \/ StrayEnds
    <2>1. /\ UNCHANGED <<job, mtime, torn, age, supervisor, dirty, ckptStop, ckptWatcher, savedCkpt>>
          /\ writing' \in {writing, "nobody"} /\ stray' \in {"alive", "ended"}
        BY <1>2 DEF LeaveStray, StrayEnds, Dies, directory
    <2>2. RestTypeOK' /\ StopsAfterJob'
        BY <1>0, <2>1, ZenonT(30) DEF RestTypeOK, StopsAfterJob
    <2> QED BY <2>1, <2>2, OthersKeepInv
<1>3. CASE JobEnds \/ ForceKill
    <2>1. /\ UNCHANGED <<stray, mtime, torn, age, ckptStop, ckptWatcher, savedCkpt>>
          /\ job' = "ended" /\ writing' \in {writing, "nobody"}
          /\ supervisor' \in {supervisor, "drain"} /\ dirty' \in BOOLEAN /\ (dirty => dirty')
        BY <1>3, <1>t DEF JobEnds, ForceKill, Dies
    <2>2. RestTypeOK' /\ StopsAfterJob'
        BY <1>0, <2>1, ZenonT(30) DEF RestTypeOK, StopsAfterJob
    <2> QED BY <2>1, <2>2, OthersKeepInv
<1>4. CASE TimePasses
    <2>1. /\ UNCHANGED <<job, stray, writing, mtime, torn, supervisor, dirty, ckptStop, ckptWatcher,
                         savedCkpt>>
          /\ age' \in {"settled", "quiet"}
        BY <1>4 DEF TimePasses
    <2>2. RestTypeOK' /\ StopsAfterJob'
        BY <1>0, <2>1, ZenonT(30) DEF RestTypeOK, StopsAfterJob
    <2> QED BY <2>1, <2>2, OthersKeepInv
<1>5. CASE AskedToStop \/ ExecStep
    <2>1. /\ UNCHANGED <<job, stray, writing, mtime, torn, age, dirty, ckptWatcher, savedCkpt>>
          /\ supervisor' \in {"grace", "drain", "stop watcher", "join", "done"}
          /\ ckptStop' \in BOOLEAN
        BY <1>5, <1>t DEF AskedToStop, ExecStep, Waited, FinishCapture, StopWatcher, StopNotify, Join, directory
    <2>2. supervisor' # "grace" => job = "ended"
        BY <1>0, <1>5
           DEF StopsAfterJob, AskedToStop, ExecStep, Waited, FinishCapture, StopWatcher, Join
    <2>3. ckptStop' => ckptStop \/ job = "ended"
        BY <1>0, <1>5
           DEF StopsAfterJob, AskedToStop, ExecStep, Waited, FinishCapture, StopWatcher, Join
    <2>4. RestTypeOK' /\ StopsAfterJob'
        BY <1>0, <2>1, <2>2, <2>3 DEF RestTypeOK, StopsAfterJob
    <2> QED BY <2>1, <2>4, OthersKeepInv
<1>6. CASE Interval \/ HearStop
    <2>1. /\ UNCHANGED <<job, stray, writing, mtime, torn, age, supervisor, dirty, savedCkpt>>
          /\ ckptStop' \in BOOLEAN /\ (ckptStop' => ckptStop)
        <3>1. CASE Interval
            BY <1>t, <3>1 DEF Interval, directory
        <3>2. CASE HearStop
            BY <3>2 DEF HearStop, directory
        <3> QED BY <1>6, <3>1, <3>2
    <2>2. /\ ckptWatcher' \in WatcherType /\ ckptWatcher'.pc = "pass"
          /\ ckptWatcher'.last = ckptWatcher.last /\ ckptWatcher'.snap = ckptWatcher.snap
          /\ ckptWatcher'.stopping => ckptWatcher.stopping \/ ckptStop
        <3>0. 1 \in 1 .. FinalPasses
            BY JobAssumption
        <3>1. CASE Interval
            <4>1. ckptWatcher' = [ckptWatcher EXCEPT !.pc = "pass", !.pass = 1]
                BY <3>1 DEF Interval
            <4> QED BY <1>t, <3>0, <4>1 DEF WatcherType
        <3>2. CASE HearStop
            <4>1. ckptWatcher' = [ckptWatcher EXCEPT !.pc = "pass", !.pass = 1, !.stopping = TRUE]
                BY <3>2 DEF HearStop
            <4>2. ckptStop
                BY <3>2 DEF HearStop
            <4>3. /\ ckptWatcher' \in WatcherType /\ ckptWatcher'.pc = "pass"
                  /\ ckptWatcher'.last = ckptWatcher.last /\ ckptWatcher'.snap = ckptWatcher.snap
                BY <1>t, <3>0, <4>1 DEF WatcherType
            <4> QED BY <4>2, <4>3
        <3> QED BY <1>6, <3>1, <3>2
    <2>3. WatcherTypeOK' /\ RestTypeOK'
        BY <1>0, <2>1, <2>2, ZenonT(30) DEF WatcherTypeOK, RestTypeOK
    <2>4. StopsAfterJob'
        BY <1>0, <2>1, <2>2 DEF StopsAfterJob
    <2>5. SavedIsLast' /\ NewestIsExact' /\ LastPasses'
        BY <1>0, <2>1, <2>2 DEF SavedIsLast, NewestIsExact, LastPasses
    <2> QED BY <2>3, <2>4, <2>5 DEF JobInv
<1>7. CASE Pass
    <2>0. ckptWatcher.pc = "pass" /\ UNCHANGED <<job, stray, directory, supervisor, dirty, ckptStop, savedCkpt>>
        BY <1>7 DEF Pass
    <2>1. CASE Changed /\ ~TornStop /\ Quiescent
        <3>1. ckptWatcher' = [ckptWatcher EXCEPT !.pc = "upload", !.snap = mtime, !.half = torn]
            BY <1>7, <2>1 DEF Pass
        <3>2. UNCHANGED <<job, stray, writing, mtime, torn, age, supervisor, dirty, ckptStop, savedCkpt>>
            BY <2>0 DEF directory
        <3>3. ckptWatcher' \in WatcherType
            BY <1>0, <1>t, <3>1 DEF WatcherType, RestTypeOK
        <3>4. /\ ckptWatcher'.pc = "upload" /\ ckptWatcher'.stopping = ckptWatcher.stopping
              /\ ckptWatcher'.last = ckptWatcher.last /\ ckptWatcher'.snap = mtime
              /\ ckptWatcher'.half = torn
            BY <1>t, <3>1 DEF WatcherType
        <3>5. WatcherTypeOK' /\ RestTypeOK'
            BY <1>0, <3>2, <3>3, ZenonT(30) DEF WatcherTypeOK, RestTypeOK
        <3>6. StopsAfterJob' /\ SavedIsLast' /\ NewestIsExact' /\ LastPasses'
            BY <1>0, <1>t, <3>2, <3>4 DEF StopsAfterJob, SavedIsLast, NewestIsExact, LastPasses
        <3> QED BY <3>5, <3>6 DEF JobInv
    <2>2. CASE ~(Changed /\ ~TornStop /\ Quiescent)
        <3>1. ckptWatcher' = [NoMore EXCEPT !.failed = ckptWatcher.failed]
            BY <1>7, <1>t, <2>2 DEF Pass, NoMore, WatcherType
        <3>2. ckptWatcher.stopping => dirty \/ ckptWatcher.last = mtime
            <4>1. ckptWatcher.last \in Nat
                BY <1>t, JobAssumption DEF WatcherType
            <4> QED BY <1>0, <1>t, <2>2, <4>1 DEF Changed, TornStop, Quiescent, SavedIsLast
        <3>3. ckptWatcher.failed \in BOOLEAN
            BY <1>t DEF WatcherType
        <3> QED BY <2>0, <3>1, <3>2, <3>3, NoMoreKeepsInv
    <2> QED BY <2>1, <2>2
<1>8. CASE Uploaded
    <2>1. /\ UNCHANGED <<job, stray, writing, mtime, torn, age, supervisor, dirty, ckptStop>>
          /\ ckptWatcher.pc = "upload"
          /\ savedCkpt' = [of |-> ckptWatcher.snap, torn |-> ckptWatcher.half]
          /\ ckptWatcher' = [ckptWatcher EXCEPT !.pc = "again", !.last = ckptWatcher.snap]
        BY <1>8 DEF Uploaded, Seen, directory
    <2>2. ckptWatcher' \in WatcherType /\ savedCkpt' \in [of: 0 .. MaxWrites, torn: BOOLEAN]
        BY <1>t, <2>1 DEF WatcherType
    <2>3. /\ ckptWatcher'.pc = "again" /\ ckptWatcher'.stopping = ckptWatcher.stopping
          /\ ckptWatcher'.last = ckptWatcher.snap /\ ckptWatcher'.snap = ckptWatcher.snap
          /\ savedCkpt'.of = ckptWatcher.snap /\ savedCkpt'.torn = ckptWatcher.half
        BY <1>t, <2>1 DEF WatcherType
    <2>4. WatcherTypeOK' /\ RestTypeOK'
        BY <1>0, <2>1, <2>2, ZenonT(30) DEF WatcherTypeOK, RestTypeOK
    <2>5. StopsAfterJob' /\ SavedIsLast' /\ NewestIsExact' /\ LastPasses'
        BY <1>0, <2>1, <2>3 DEF StopsAfterJob, SavedIsLast, NewestIsExact, LastPasses
    <2> QED BY <2>4, <2>5 DEF JobInv
<1>9. CASE UploadFails
    BY <1>9, NoMoreKeepsInv DEF UploadFails
<1>10. CASE AfterUpload
    <2>0. ckptWatcher.pc = "again" /\ UNCHANGED <<job, stray, directory, supervisor, dirty, ckptStop, savedCkpt>>
        BY <1>10 DEF AfterUpload
    <2>1. CASE /\ ckptWatcher.pass < FinalPasses
               /\ ckptWatcher' = [ckptWatcher EXCEPT !.pc = "pause"]
        <3>1. UNCHANGED <<job, stray, writing, mtime, torn, age, supervisor, dirty, ckptStop, savedCkpt>>
            BY <2>0 DEF directory
        <3>2. /\ ckptWatcher' \in WatcherType
              /\ ckptWatcher'.pc = "pause" /\ ckptWatcher'.stopping = ckptWatcher.stopping
              /\ ckptWatcher'.last = ckptWatcher.last /\ ckptWatcher'.snap = ckptWatcher.snap
              /\ ckptWatcher'.pass = ckptWatcher.pass
            BY <1>t, <2>1 DEF WatcherType
        <3>3. WatcherTypeOK' /\ RestTypeOK'
            BY <1>0, <3>1, <3>2, ZenonT(30) DEF WatcherTypeOK, RestTypeOK
        <3>4. StopsAfterJob' /\ SavedIsLast' /\ NewestIsExact' /\ LastPasses'
            BY <1>0, <2>1, <3>1, <3>2 DEF StopsAfterJob, SavedIsLast, NewestIsExact, LastPasses
        <3> QED BY <3>3, <3>4 DEF JobInv
    <2>2. CASE ckptWatcher' = NoMore
        <3>1. ckptWatcher' = [NoMore EXCEPT !.failed = ckptWatcher.failed]
            BY <1>t, <2>2 DEF NoMore, WatcherType
        <3>2. stray = "none" /\ ckptWatcher.stopping => ckptWatcher.last = mtime
            BY <1>0, <2>0 DEF SavedIsLast, LastPasses
        <3>3. ckptWatcher.failed \in BOOLEAN
            BY <1>t DEF WatcherType
        <3> QED BY <2>0, <3>1, <3>2, <3>3, NoMoreKeepsInv
    <2> QED BY <1>10, <2>1, <2>2 DEF AfterUpload
<1>11. CASE Pause
    <2>1. /\ UNCHANGED <<job, stray, writing, mtime, torn, age, supervisor, dirty, ckptStop, savedCkpt>>
          /\ ckptWatcher.pc = "pause"
          /\ ckptWatcher' = [ckptWatcher EXCEPT !.pc = "pass", !.pass = ckptWatcher.pass + 1]
        BY <1>11 DEF Pause, directory
    <2>2. ckptWatcher.pass + 1 \in 1 .. FinalPasses
        BY <1>0, <1>t, <2>1, JobAssumption DEF LastPasses, WatcherType
    <2>3. /\ ckptWatcher' \in WatcherType
          /\ ckptWatcher'.pc = "pass" /\ ckptWatcher'.stopping = ckptWatcher.stopping
          /\ ckptWatcher'.last = ckptWatcher.last /\ ckptWatcher'.snap = ckptWatcher.snap
        BY <1>t, <2>1, <2>2 DEF WatcherType
    <2>4. WatcherTypeOK' /\ RestTypeOK'
        BY <1>0, <2>1, <2>3, ZenonT(30) DEF WatcherTypeOK, RestTypeOK
    <2>5. StopsAfterJob' /\ SavedIsLast' /\ NewestIsExact' /\ LastPasses'
        BY <1>0, <2>1, <2>3 DEF StopsAfterJob, SavedIsLast, NewestIsExact, LastPasses
    <2> QED BY <2>4, <2>5 DEF JobInv
<1>12. CASE UNCHANGED jobVars
    <2>1. RestTypeOK' /\ StopsAfterJob'
        BY <1>0, <1>12, ZenonT(30) DEF jobVars, directory, RestTypeOK, StopsAfterJob
    <2> QED BY <1>12, <2>1, OthersKeepInv DEF jobVars, directory
<1> QED
    BY <1>1, <1>2, <1>3, <1>4, <1>5, <1>6, <1>7, <1>8, <1>9, <1>10, <1>11, <1>12
       DEF JobNext, ExecStep, WatcherStep

\* run.rs exec and checkpoint.rs watch_loop, for any number of writes and of final passes: when
\* the watcher of a job that left nobody behind has ended, without a failed upload or a
\* kill, the directory is stored as the job left it.
THEOREM LastWriteSaved == JobSpec => []LastWriteIsSaved
<1>1. JobInv => LastWriteIsSaved
    <2> SUFFICES ASSUME JobInv, ckptWatcher.pc = "done", ~ckptWatcher.failed, ~dirty, stray = "none"
                 PROVE  savedCkpt = [of |-> mtime, torn |-> torn]
        BY DEF LastWriteIsSaved
    <2>1. savedCkpt \in [of: 0 .. MaxWrites, torn: BOOLEAN]
        BY DEF JobInv, RestTypeOK
    <2>2. savedCkpt.of = mtime /\ savedCkpt.torn = torn
        BY DEF JobInv, SavedIsLast, NewestIsExact, LastPasses
    <2> QED BY <2>1, <2>2
<1> QED BY InitJobInv, JobInvStep, <1>1, PTL DEF JobSpec
-----------------------------------------------------------------------------
(***************************************************************************)
(* The log owns up to its gaps. The argument: what was pushed is the head, *)
(* what was dropped and the ring, in this order and without a byte between *)
(* them; the file is a run of bytes from the first until the marker ends   *)
(* it or the ring follows the marker or a whole head, and an error that is *)
(* seen late puts the marker there too.                                    *)
(***************************************************************************)

\* Consecutive bytes, from the one after `start` on.
Counts(s, start) == \A i \in 1 .. Len(s) : s[i] = start + i

\* What the property says of a text that is complete up to `last`.
OwnsUp(text, last) ==
    /\ text = <<>> => last = 0
    /\ \A i \in 1 .. Len(text) :
         text[i] # Marker =>
            /\ i = 1 => text[i] = 1
            /\ i > 1 => text[i - 1] \in {Marker, text[i] - 1}
            /\ i = Len(text) => text[i] = last

\* How much of the head has come.
HeadBytes == HeadCap - capture.headLeft

\* The chunk in hand follows what was pushed.
ChunkIsNext == Counts(tee.chunk, pushed) /\ pushed + Len(tee.chunk) <= wrote

\* What was pushed is in the file, dropped, or in the ring; the ring comes after the head.
Accounted ==
    ~capture.failed =>
        /\ pushed = HeadBytes + capture.dropped + Len(capture.tail)
        /\ Counts(capture.tail, pushed - Len(capture.tail))
        /\ capture.headLeft > 0 => capture.tail = <<>>
        /\ capture.tail = <<>> => capture.dropped = 0

\* The file has the head from its first byte on, all of it unless an error is pending or
\* was seen.
HeadOnly ==
    /\ Counts(file, 0) /\ Len(file) <= pushed
    /\ ~capture.failed /\ ~lateError => Len(file) = HeadBytes
WithMarker ==
    Len(file) > 0 /\ file[Len(file)] = Marker /\ \A i \in 1 .. Len(file) - 1 : file[i] = i

\* No error is pending once one was seen, until the marker is written.
FileSoFar ==
    /\ final \in {"draining", "marker"} => HeadOnly /\ (capture.failed => ~lateError)
    /\ final = "marker" => capture.failed \/ (capture.tail # <<>> /\ capture.dropped > 0)
    /\ final = "tail" =>
          /\ ~capture.failed /\ capture.tail # <<>>
          /\ ~lateError => WithMarker \/ (HeadOnly /\ capture.dropped = 0)
    /\ final = "flush" /\ ~lateError => OwnsUp(file, pushed)
    /\ final \in {"log", "shipped"} => OwnsUp(file, pushed)

\* Nothing is pushed once the log is finished.
Finished ==
    final # "draining" =>
        ~tee.live \/ (holders = "nobody" /\ tee.chunk = <<>> /\ pushed = wrote)

\* What the log object holds.
ShippedOwnsUp == logObject.there => final = "shipped" /\ OwnsUp(logObject.bytes, pushed)

\* The types, exactly, and the inductive invariant.
CaptureRecord ==
    [headLeft: 0 .. HeadCap, tail: Seq(Bytes), dropped: Nat, failed: BOOLEAN]

CaptureInv ==
    /\ CaptureTypeOK /\ capture \in CaptureRecord /\ tee \in [live: BOOLEAN, chunk: Seq(Bytes)]
    /\ ChunkIsNext /\ Accounted /\ FileSoFar /\ Finished /\ ShippedOwnsUp

\* The constants, spelled out.
LEMMA Sizes ==
    /\ HeadCap \in Nat /\ TailCap \in Nat /\ TailCap > 0 /\ Buf \in Nat /\ Buf > 0
    /\ MaxOutput \in Nat /\ Marker = 0 /\ Marker \notin Bytes /\ \A b \in Bytes : b \in Nat /\ b > 0
BY CaptureAssumption DEF Marker, Bytes

\* Runs of consecutive bytes: joined, and cut.
LEMMA CountsJoin ==
    ASSUME NEW S, NEW s \in Seq(S), NEW t \in Seq(S), NEW k \in Nat,
           Counts(s, k), Counts(t, k + Len(s))
    PROVE  Counts(s \o t, k) /\ s \o t \in Seq(S) /\ Len(s \o t) = Len(s) + Len(t)
<1>1. s \o t \in Seq(S) /\ Len(s \o t) = Len(s) + Len(t) /\ Len(s) \in Nat /\ Len(t) \in Nat
    OBVIOUS
<1>2. ASSUME NEW i \in 1 .. Len(s) + Len(t) PROVE (s \o t)[i] = k + i
    <2>1. CASE i <= Len(s)
        <3>1. i \in 1 .. Len(s) /\ (s \o t)[i] = s[i]
            BY <1>1, <2>1
        <3> QED BY <3>1 DEF Counts
    <2>2. CASE i > Len(s)
        <3> DEFINE j == i - Len(s)
        <3>1. j \in 1 .. Len(t) /\ (s \o t)[i] = t[j]
            BY <1>1, <2>2
        <3>2. t[j] = k + Len(s) + j
            BY <3>1 DEF Counts
        <3> QED BY <1>1, <3>1, <3>2
    <2> QED BY <1>1, <2>1, <2>2
<1> QED BY <1>1, <1>2 DEF Counts

\* A part of consecutive bytes is consecutive bytes.
LEMMA CountsCut ==
    ASSUME NEW S, NEW s \in Seq(S), NEW k \in Nat, Counts(s, k),
           NEW a \in 0 .. Len(s), NEW b \in a .. Len(s)
    PROVE  /\ SubSeq(s, a + 1, b) \in Seq(S) /\ Len(SubSeq(s, a + 1, b)) = b - a
           /\ Counts(SubSeq(s, a + 1, b), k + a)
<1> DEFINE c == SubSeq(s, a + 1, b)
<1>1. Len(s) \in Nat /\ a \in Nat /\ b \in Nat /\ a <= b /\ b <= Len(s)
    OBVIOUS
<1>2. c \in Seq(S) /\ Len(c) = b - a
    BY <1>1
<1>3. ASSUME NEW i \in 1 .. b - a PROVE c[i] = k + a + i
    <2> DEFINE j == a + i
    <2>1. j \in 1 .. Len(s) /\ c[i] = s[j]
        BY <1>1
    <2>2. s[j] = k + j
        BY <2>1 DEF Counts
    <2> QED BY <1>1, <2>1, <2>2
<1> QED BY <1>2, <1>3 DEF Counts

\* write_all of bytes that follow the file: they are all there, or an error is pending.
LEMMA WriteAllIs ==
    ASSUME file \in Seq(Bytes \cup {Marker}), Counts(file, 0), NEW items \in Seq(Bytes),
           Counts(items, Len(file)), WriteAll(items), lateError \in BOOLEAN, disk \in {"room", "full"}
    PROVE  /\ file' \in Seq(Bytes \cup {Marker}) /\ Counts(file, 0)'
           /\ Len(file') <= Len(file) + Len(items)
           /\ lateError' \in BOOLEAN /\ disk' \in {"room", "full"}
           /\ ~lateError' => Len(file') = Len(file) + Len(items)
<1>0. /\ Len(file) \in Nat /\ Len(items) \in Nat /\ items \in Seq(Bytes \cup {Marker})
      /\ <<>> \in Seq(Bytes \cup {Marker}) /\ Len(<<>>) = 0 /\ Counts(<<>>, Len(file))
    BY DEF Counts
<1>1. PICK m \in Seq(Bytes \cup {Marker}) :
        /\ file' = file \o m /\ Len(m) <= Len(items) /\ Counts(m, Len(file))
        /\ (lateError' = lateError /\ ~lateError /\ disk' = disk /\ m = items)
           \/ (lateError' = TRUE /\ disk' = "full")
    <2>1. CASE ~lateError /\ file' = file \o items /\ disk = "room" /\ UNCHANGED <<lateError, disk>>
        BY <1>0, <2>1
    <2>2. ASSUME lateError' = TRUE, disk' = "full", NEW n \in 0 .. Len(items) - 1,
                 file' = file \o (IF disk = "room" THEN SubSeq(items, 1, n) ELSE <<>>)
          PROVE  \E m \in Seq(Bytes \cup {Marker}) :
                    /\ file' = file \o m /\ Len(m) <= Len(items) /\ Counts(m, Len(file))
                    /\ (lateError' = lateError /\ ~lateError /\ disk' = disk /\ m = items)
                       \/ (lateError' = TRUE /\ disk' = "full")
        <3>1. /\ SubSeq(items, 1, n) \in Seq(Bytes \cup {Marker}) /\ Len(SubSeq(items, 1, n)) = n
              /\ Counts(SubSeq(items, 1, n), Len(file))
            <4>1. 0 \in 0 .. Len(items) /\ n \in 0 .. Len(items)
                BY <1>0
            <4>2. /\ SubSeq(items, 0 + 1, n) \in Seq(Bytes \cup {Marker})
                  /\ Len(SubSeq(items, 0 + 1, n)) = n - 0
                  /\ Counts(SubSeq(items, 0 + 1, n), Len(file) + 0)
                BY <1>0, <4>1, CountsCut
            <4> QED BY <1>0, <4>2
        <3>2. PICK m \in Seq(Bytes \cup {Marker}) :
                 file' = file \o m /\ Len(m) <= Len(items) /\ Counts(m, Len(file))
            <4>1. CASE disk = "room"
                <5>1. file' = file \o SubSeq(items, 1, n) /\ n <= Len(items)
                    BY <2>2, <4>1, <1>0
                <5> QED BY <3>1, <5>1
            <4>2. CASE disk # "room"
                <5> DEFINE none == <<>>
                <5>1. file' = file \o none
                    BY <2>2, <4>2
                <5>2. none \in Seq(Bytes \cup {Marker}) /\ Len(none) <= Len(items) /\ Counts(none, Len(file))
                    BY <1>0
                <5> HIDE DEF none
                <5> QED BY <5>1, <5>2
            <4> QED BY <4>1, <4>2
        <3> QED BY <2>2, <3>2, Zenon
    <2> QED BY <2>1, <2>2 DEF WriteAll
<1>2. /\ file' \in Seq(Bytes \cup {Marker}) /\ Counts(file', 0)
      /\ Len(file') = Len(file) + Len(m)
    BY <1>0, <1>1, CountsJoin
<1>3. Counts(file, 0)' /\ Len(file') <= Len(file) + Len(items)
    BY <1>0, <1>1, <1>2 DEF Counts
<1>4. lateError' \in BOOLEAN /\ (lateError' \/ m = items)
    BY <1>1, Zenon
<1>5. disk' \in {"room", "full"}
    BY <1>1
<1> QED BY <1>2, <1>3, <1>4, <1>5

\* Capture::push into the ring: what is pushed out of it is counted.
LEMMA ToRingIs ==
    ASSUME NEW c \in CaptureRecord, NEW bytes \in Seq(Bytes), NEW k \in Nat,
           Len(c.tail) <= TailCap, Counts(c.tail, k), Counts(bytes, k + Len(c.tail)),
           c.tail = <<>> => c.dropped = 0
    PROVE  /\ ToRing(c, bytes) \in CaptureRecord /\ Len(ToRing(c, bytes).tail) <= TailCap
           /\ ToRing(c, bytes).failed = c.failed /\ ToRing(c, bytes).headLeft = c.headLeft
           /\ ToRing(c, bytes).dropped + Len(ToRing(c, bytes).tail)
                 = c.dropped + Len(c.tail) + Len(bytes)
           /\ Counts(ToRing(c, bytes).tail,
                     (k + Len(c.tail) + Len(bytes)) - Len(ToRing(c, bytes).tail))
           /\ ToRing(c, bytes).tail = <<>> => ToRing(c, bytes).dropped = 0
           /\ bytes = <<>> /\ c.tail = <<>> => ToRing(c, bytes).tail = <<>>
<1> DEFINE all == c.tail \o bytes
           extra == IF Len(all) > TailCap THEN Len(all) - TailCap ELSE 0
           tail == SubSeq(all, extra + 1, Len(all))
           dropped == c.dropped + extra
<1>0. c.tail \in Seq(Bytes) /\ c.dropped \in Nat /\ c.headLeft \in 0 .. HeadCap
    BY DEF CaptureRecord
<1>1. all \in Seq(Bytes) /\ Len(all) = Len(c.tail) + Len(bytes) /\ Counts(all, k)
      /\ Len(c.tail) \in Nat /\ Len(bytes) \in Nat /\ Len(all) \in Nat
    <2> DEFINE old == c.tail
    <2>1. old \in Seq(Bytes) /\ Counts(old, k) /\ Counts(bytes, k + Len(old))
        BY <1>0
    <2> HIDE DEF old
    <2>2. old \o bytes \in Seq(Bytes) /\ Len(old \o bytes) = Len(old) + Len(bytes)
          /\ Counts(old \o bytes, k)
        BY <2>1, CountsJoin
    <2>3. Len(old) \in Nat /\ Len(bytes) \in Nat
        BY <2>1
    <2> QED BY <2>2, <2>3 DEF old
<1> HIDE DEF all
<1>2. extra \in 0 .. Len(all) /\ Len(all) \in extra .. Len(all) /\ extra \in Nat
      /\ (extra > 0 => Len(all) - extra = TailCap) /\ Len(all) - extra <= TailCap
    BY <1>1, Sizes
<1>3. ToRing(c, bytes) = [c EXCEPT !.tail = tail, !.dropped = dropped]
    BY DEF ToRing, all
<1> HIDE DEF extra
<1>4. tail \in Seq(Bytes) /\ Len(tail) = Len(all) - extra /\ Counts(tail, k + extra)
    BY <1>1, <1>2, CountsCut
<1>5. dropped \in Nat
    BY <1>0, <1>2
<1> HIDE DEF tail
<1>6. dropped + Len(tail) = c.dropped + Len(c.tail) + Len(bytes) /\ Len(tail) <= TailCap
      /\ k + extra = (k + Len(c.tail) + Len(bytes)) - Len(tail)
    <2> DEFINE a == Len(c.tail)
               b == Len(bytes)
               l == Len(tail)
               d == c.dropped
    <2>1. /\ a \in Nat /\ b \in Nat /\ d \in Nat /\ extra \in Nat /\ k \in Nat
          /\ l = (a + b) - extra /\ l <= TailCap
        BY <1>0, <1>1, <1>2, <1>4
    <2> HIDE DEF a, b, l, d
    <2>2. l \in Int /\ (d + extra) + l = d + a + b /\ k + extra = (k + a + b) - l
        BY <2>1
    <2> QED BY <2>1, <2>2 DEF a, b, l, d
<1>7. tail = <<>> => dropped = 0
    <2> SUFFICES ASSUME tail = <<>> PROVE dropped = 0
        OBVIOUS
    <2>1. Len(all) = extra
        BY <1>1, <1>2, <1>4
    <2>2. extra = 0 /\ Len(c.tail) = 0
        BY <1>1, <1>2, <2>1, Sizes
    <2> QED BY <1>0, <2>2
<1>8. bytes = <<>> /\ c.tail = <<>> => tail = <<>>
    BY <1>1, <1>2, <1>4
<1>9. ToRing(c, bytes) \in CaptureRecord /\ ToRing(c, bytes).tail = tail
      /\ ToRing(c, bytes).dropped = dropped
      /\ ToRing(c, bytes).headLeft = c.headLeft /\ ToRing(c, bytes).failed = c.failed
    <2> HIDE DEF dropped
    <2> QED BY <1>3, <1>4, <1>5 DEF CaptureRecord
<1> HIDE DEF dropped
<1> QED BY <1>4, <1>6, <1>7, <1>8, <1>9

-----------------------------------------------------------------------------
\* A text that is complete, and one that breaks off at a marker.
LEMMA CompleteOwnsUp ==
    ASSUME NEW s \in Seq(Bytes \cup {Marker}), Counts(s, 0)
    PROVE  OwnsUp(s, Len(s))
<1>1. Len(s) \in Nat /\ \A i \in 1 .. Len(s) : s[i] = i
    BY DEF Counts
<1>2. s = <<>> => Len(s) = 0
    OBVIOUS
<1>3. ASSUME NEW i \in 1 .. Len(s)
      PROVE  /\ i = 1 => s[i] = 1
             /\ i > 1 => s[i - 1] \in {Marker, s[i] - 1}
             /\ i = Len(s) => s[i] = Len(s)
    <2>1. s[i] = i
        BY <1>1
    <2>2. i > 1 => i - 1 \in 1 .. Len(s)
        BY <1>1
    <2>3. i > 1 => s[i - 1] = i - 1
        BY <1>1, <2>2
    <2> QED BY <1>1, <2>1, <2>3
<1> QED BY <1>2, <1>3 DEF OwnsUp

\* A log that ends in the marker owns up to whatever is missing after it.
LEMMA MarkedOwnsUp ==
    ASSUME NEW s \in Seq(Bytes \cup {Marker}), Counts(s, 0), NEW last
    PROVE  /\ OwnsUp(s \o <<Marker>>, last)
           /\ Len(s \o <<Marker>>) > 0 /\ (s \o <<Marker>>)[Len(s \o <<Marker>>)] = Marker
           /\ \A i \in 1 .. Len(s \o <<Marker>>) - 1 : (s \o <<Marker>>)[i] = i
<1> DEFINE t == s \o <<Marker>>
<1>1. /\ Len(s) \in Nat /\ t \in Seq(Bytes \cup {Marker}) /\ Len(t) = Len(s) + 1
      /\ t[Len(s) + 1] = Marker /\ \A i \in 1 .. Len(s) : t[i] = s[i]
    OBVIOUS
<1>2. \A i \in 1 .. Len(s) : t[i] = i
    BY <1>1 DEF Counts
<1> HIDE DEF t
<1>3. t # <<>>
    BY <1>1
<1>4. ASSUME NEW i \in 1 .. Len(t), t[i] # Marker
      PROVE  /\ i = 1 => t[i] = 1
             /\ i > 1 => t[i - 1] \in {Marker, t[i] - 1}
             /\ i = Len(t) => t[i] = last
    <2>1. i \in 1 .. Len(s)
        BY <1>1, <1>4
    <2>2. t[i] = i /\ (i > 1 => t[i - 1] = i - 1) /\ i # Len(t)
        BY <1>1, <1>2, <2>1
    <2> QED BY <2>1, <2>2
<1>5. OwnsUp(t, last)
    BY <1>3, <1>4 DEF OwnsUp
<1> QED BY <1>1, <1>2, <1>5 DEF t

\* The head, a marker, and the last bytes.
LEMMA TailOwnsUp ==
    ASSUME NEW s \in Seq(Bytes \cup {Marker}), Len(s) > 0, s[Len(s)] = Marker,
           \A i \in 1 .. Len(s) - 1 : s[i] = i,
           NEW u \in Seq(Bytes), u # <<>>, NEW k \in Nat, Counts(u, k)
    PROVE  OwnsUp(s \o u, k + Len(u))
<1> DEFINE t == s \o u
<1>1. /\ Len(s) \in Nat /\ Len(u) \in Nat /\ Len(u) > 0 /\ Len(t) = Len(s) + Len(u)
      /\ \A i \in 1 .. Len(s) : t[i] = s[i]
      /\ \A i \in 1 .. Len(u) : t[Len(s) + i] = u[i]
    OBVIOUS
<1>2. /\ \A i \in 1 .. Len(s) - 1 : t[i] = i
      /\ t[Len(s)] = Marker
      /\ \A i \in 1 .. Len(u) : t[Len(s) + i] = k + i
    BY <1>1 DEF Counts
<1> HIDE DEF t
<1>3. t # <<>>
    BY <1>1
<1>4. ASSUME NEW i \in 1 .. Len(t), t[i] # Marker
      PROVE  /\ i = 1 => t[i] = 1
             /\ i > 1 => t[i - 1] \in {Marker, t[i] - 1}
             /\ i = Len(t) => t[i] = k + Len(u)
    <2>1. CASE i < Len(s)
        <3>1. i \in 1 .. Len(s) - 1 /\ i # Len(t) /\ (i > 1 => i - 1 \in 1 .. Len(s) - 1)
            BY <1>1, <2>1
        <3>2. t[i] = i /\ (i > 1 => t[i - 1] = i - 1)
            BY <1>2, <3>1
        <3> QED BY <3>1, <3>2
    <2>2. CASE i = Len(s)
        BY <1>2, <1>4, <2>2
    <2>3. CASE i > Len(s)
        <3> DEFINE j == i - Len(s)
        <3>1. j \in 1 .. Len(u) /\ i = Len(s) + j /\ i > 1 /\ (i = Len(t) => j = Len(u))
            BY <1>1, <2>3
        <3>2. t[i] = k + j
            BY <1>2, <3>1
        <3> HIDE DEF j
        <3>3. CASE j = 1
            <4>1. i - 1 = Len(s)
                BY <1>1, <3>1, <3>3
            <4>2. t[i - 1] = Marker
                BY <1>2, <4>1
            <4>3. i # 1
                BY <1>1, <3>1
            <4>4. i = Len(t) => t[i] = k + Len(u)
                BY <3>1, <3>2, Zenon
            <4> QED BY <4>2, <4>3, <4>4
        <3>4. CASE j # 1
            <4>1. j - 1 \in 1 .. Len(u) /\ i - 1 = Len(s) + (j - 1)
                BY <1>1, <3>1, <3>4
            <4>2. t[i - 1] = k + (j - 1)
                BY <1>2, <4>1
            <4>3. t[i - 1] = t[i] - 1
                BY <3>1, <3>2, <4>2
            <4> QED BY <3>1, <3>2, <4>3
        <3> QED BY <3>3, <3>4
    <2> QED BY <1>1, <2>1, <2>2, <2>3
<1> QED BY <1>3, <1>4 DEF OwnsUp, t
-----------------------------------------------------------------------------

\* Nothing is written at first.
LEMMA InitCaptureInv == CaptureInit => CaptureInv
<1> SUFFICES ASSUME CaptureInit PROVE CaptureInv
    OBVIOUS
<1>1. Len(<<>>) = 0 /\ <<>> \in Seq(Bytes) /\ <<>> \in Seq(Bytes \cup {Marker})
    OBVIOUS
<1>2. CaptureTypeOK
    <2>1. wrote \in 0 .. MaxOutput /\ pushed \in 0 .. wrote /\ Len(<<>>) <= Buf /\ Len(<<>>) <= TailCap
          /\ HeadCap \in 0 .. HeadCap
        BY <1>1, Sizes DEF CaptureInit
    <2>2. /\ tee.live \in BOOLEAN /\ tee.chunk = <<>>
          /\ capture.headLeft = HeadCap /\ capture.dropped \in Nat
          /\ capture.tail = <<>> /\ capture.failed \in BOOLEAN
          /\ logObject.there \in BOOLEAN /\ logObject.bytes = <<>>
        BY Sizes DEF CaptureInit
    <2>3. /\ holders \in {"child", "stray", "nobody"} /\ lateError \in BOOLEAN /\ disk \in {"room", "full"}
          /\ final \in {"draining", "marker", "tail", "flush", "log", "noLog", "shipped"}
          /\ file = <<>>
        BY DEF CaptureInit
    <2> QED BY <1>1, <2>1, <2>2, <2>3 DEF CaptureTypeOK
<1>3. capture \in CaptureRecord /\ tee \in [live: BOOLEAN, chunk: Seq(Bytes)]
    BY <1>1, Sizes DEF CaptureInit, CaptureRecord
<1>4. ChunkIsNext /\ Accounted
    BY <1>1, Sizes DEF CaptureInit, ChunkIsNext, Accounted, HeadBytes, Counts
<1>5. FileSoFar
    BY <1>1, Sizes DEF CaptureInit, FileSoFar, HeadOnly, HeadBytes, Counts
<1>6. Finished /\ ShippedOwnsUp
    BY DEF CaptureInit, Finished, ShippedOwnsUp
<1> QED BY <1>2, <1>3, <1>4, <1>5, <1>6 DEF CaptureInv

\* The child writes.
LEMMA ChildWritesStep == ASSUME CaptureInv, ChildWrites PROVE CaptureInv'
<1>1. wrote \in Nat /\ pushed \in 0 .. wrote /\ wrote + 1 \in 0 .. MaxOutput /\ pushed \in 0 .. wrote + 1
    BY Sizes DEF CaptureInv, CaptureTypeOK, ChildWrites
<1>2. CaptureTypeOK'
    BY <1>1 DEF CaptureInv, CaptureTypeOK, ChildWrites
<1>3. /\ UNCHANGED <<tee, pushed, holders, capture, file, lateError, disk, final, logObject>>
      /\ wrote' = wrote + 1 /\ holders # "nobody"
    BY DEF ChildWrites
<1>4. ChunkIsNext'
    <2>1. Len(tee.chunk) \in Nat
        BY DEF CaptureInv
    <2> QED BY <1>1, <1>3, <2>1 DEF CaptureInv, ChunkIsNext, Counts
<1>5. Accounted' /\ FileSoFar' /\ ShippedOwnsUp'
    BY <1>3 DEF CaptureInv, Accounted, HeadBytes, FileSoFar, HeadOnly, WithMarker, ShippedOwnsUp, OwnsUp, Counts
<1>6. Finished'
    BY <1>3 DEF CaptureInv, Finished
<1> QED BY <1>2, <1>3, <1>4, <1>5, <1>6 DEF CaptureInv

\* The child and what it left behind let go of the pipe.
LEMMA ReleaseStep == ASSUME CaptureInv, Release PROVE CaptureInv'
<1>1. /\ UNCHANGED <<wrote, tee, pushed, capture, file, lateError, disk, final, logObject>>
      /\ holders # "nobody" /\ holders' \in {"stray", "nobody"}
    BY DEF Release
<1>2. CaptureTypeOK' /\ capture' \in CaptureRecord /\ tee' \in [live: BOOLEAN, chunk: Seq(Bytes)]
    BY <1>1 DEF CaptureInv, CaptureTypeOK, CaptureRecord
<1>3. Accounted' /\ FileSoFar' /\ ShippedOwnsUp' /\ ChunkIsNext'
    BY <1>1 DEF CaptureInv, Accounted, HeadBytes, FileSoFar, HeadOnly, WithMarker, ShippedOwnsUp, OwnsUp, Counts, ChunkIsNext
<1>4. Finished'
    BY <1>1 DEF CaptureInv, Finished
<1> QED BY <1>2, <1>3, <1>4 DEF CaptureInv

\* The disk has room again.
LEMMA DiskFreesStep == ASSUME CaptureInv, DiskFrees PROVE CaptureInv'
<1>1. /\ UNCHANGED <<wrote, tee, pushed, holders, capture, file, lateError, final, logObject>>
      /\ disk' = "room"
    BY DEF DiskFrees
<1>2. CaptureTypeOK' /\ capture' \in CaptureRecord /\ tee' \in [live: BOOLEAN, chunk: Seq(Bytes)]
    BY <1>1 DEF CaptureInv, CaptureTypeOK, CaptureRecord
<1>3. Accounted' /\ FileSoFar' /\ ShippedOwnsUp' /\ ChunkIsNext' /\ Finished'
    BY <1>1 DEF CaptureInv, Accounted, HeadBytes, FileSoFar, HeadOnly, WithMarker, ShippedOwnsUp, OwnsUp, Counts, ChunkIsNext, Finished
<1> QED BY <1>2, <1>3 DEF CaptureInv

\* The pump reads the bytes that follow those it has pushed.
LEMMA TeeReadStep == ASSUME CaptureInv, TeeRead PROVE CaptureInv'
<1>0. wrote \in 0 .. MaxOutput /\ pushed \in 0 .. wrote /\ wrote > pushed /\ tee.live
      /\ wrote - pushed \in Nat /\ tee.chunk = <<>>
    BY Sizes DEF CaptureInv, CaptureTypeOK, TeeRead
<1>1. Pending \in Seq(Bytes) /\ Len(Pending) = wrote - pushed /\ Counts(Pending, pushed)
    <2>1. \A i \in 1 .. wrote - pushed : pushed + i \in Bytes
        BY <1>0, Sizes DEF Bytes
    <2> QED BY <1>0, <2>1 DEF Pending, Counts
<1>2. PICK n \in 1 .. Buf :
        n <= wrote - pushed /\ tee' = [tee EXCEPT !.chunk = SubSeq(Pending, 1, n)]
    BY DEF TeeRead
<1> DEFINE c == SubSeq(Pending, 1, n)
<1>3. c \in Seq(Bytes) /\ Len(c) = n /\ Counts(c, pushed) /\ n \in Nat /\ n <= Buf
    <2>1. 0 \in 0 .. Len(Pending) /\ n \in 0 .. Len(Pending)
        BY <1>0, <1>1, <1>2, Sizes
    <2>2. SubSeq(Pending, 0 + 1, n) \in Seq(Bytes) /\ Len(SubSeq(Pending, 0 + 1, n)) = n - 0
          /\ Counts(SubSeq(Pending, 0 + 1, n), pushed + 0)
        <3>1. /\ Pending \in Seq(Bytes) /\ pushed \in Nat /\ Counts(Pending, pushed)
              /\ 0 \in 0 .. Len(Pending) /\ n \in 0 .. Len(Pending)
            BY <1>0, <1>1, <2>1
        <3> HIDE DEF Pending, c
        <3> QED BY ONLY <3>1, CountsCut
    <2>3. 0 + 1 = 1 /\ n - 0 = n /\ pushed + 0 = pushed /\ n \in Nat /\ n <= Buf
        BY <1>0, Sizes
    <2> HIDE DEF Pending
    <2> QED BY <2>2, <2>3
<1> HIDE DEF c
<1>4. tee' \in [live: BOOLEAN, chunk: Seq(Bytes)] /\ tee'.chunk = c /\ tee'.live
    BY <1>0, <1>2, <1>3 DEF c, CaptureInv
<1>5. UNCHANGED <<wrote, pushed, holders, capture, file, lateError, disk, final, logObject>>
    BY DEF TeeRead
<1>6. CaptureTypeOK' /\ capture' \in CaptureRecord
    BY <1>3, <1>4, <1>5 DEF CaptureInv, CaptureTypeOK, CaptureRecord
<1>7. ChunkIsNext'
    BY <1>0, <1>2, <1>3, <1>4, <1>5 DEF ChunkIsNext, Counts
<1>8. Accounted' /\ FileSoFar' /\ ShippedOwnsUp'
    BY <1>5 DEF CaptureInv, Accounted, HeadBytes, FileSoFar, HeadOnly, WithMarker, ShippedOwnsUp, OwnsUp, Counts
<1>9. final = "draining"
    BY <1>0 DEF CaptureInv, Finished
<1>10. Finished'
    BY <1>5, <1>9 DEF Finished
<1> QED BY <1>4, <1>6, <1>7, <1>8, <1>10 DEF CaptureInv

\* What finish_capture starts with is what the capture it found asks for.
LEMMA BeginFinishIs ==
    ASSUME CaptureInv, final = "draining"
    PROVE  /\ BeginFinish \in {"marker", "tail", "flush"}
           /\ HeadOnly /\ (capture.failed => ~lateError)
           /\ BeginFinish = "marker" => capture.failed \/ (capture.tail # <<>> /\ capture.dropped > 0)
           /\ BeginFinish = "tail" => ~capture.failed /\ capture.tail # <<>> /\ capture.dropped = 0
           /\ BeginFinish = "flush" /\ ~lateError => OwnsUp(file, pushed)
<1>1. HeadOnly /\ (capture.failed => ~lateError) /\ capture.dropped \in Nat
    BY DEF CaptureInv, FileSoFar, CaptureTypeOK
<1>2. /\ BeginFinish \in {"marker", "tail", "flush"}
      /\ BeginFinish = "marker" => capture.failed \/ (capture.tail # <<>> /\ capture.dropped > 0)
      /\ BeginFinish = "tail" => ~capture.failed /\ capture.tail # <<>> /\ ~(capture.dropped > 0)
      /\ BeginFinish = "flush" => ~capture.failed /\ capture.tail = <<>>
    BY DEF BeginFinish
<1>3. ASSUME BeginFinish = "flush", ~lateError PROVE OwnsUp(file, pushed)
    <2>1. ~capture.failed /\ capture.tail = <<>> /\ Len(capture.tail) = 0
        BY <1>2, <1>3
    <2>2. pushed = HeadBytes + capture.dropped + Len(capture.tail) /\ capture.dropped = 0
        BY <2>1 DEF CaptureInv, Accounted
    <2>3. HeadBytes \in Nat
        BY Sizes DEF CaptureInv, CaptureTypeOK, HeadBytes
    <2>4. Len(file) = pushed /\ Counts(file, 0) /\ file \in Seq(Bytes \cup {Marker})
        BY <1>1, <1>3, <2>1, <2>2, <2>3 DEF HeadOnly, CaptureInv, CaptureTypeOK
    <2> QED BY <2>4, CompleteOwnsUp
<1> QED BY <1>1, <1>2, <1>3

\* finish_capture begins with what the head and the ring hold.
LEMMA BeginStep ==
    ASSUME CaptureInv, final = "draining", final' = BeginFinish,
           UNCHANGED <<wrote, pushed, holders, capture, file, lateError, disk, logObject>>
    PROVE  FileSoFar' /\ Accounted' /\ ShippedOwnsUp' /\ capture' \in CaptureRecord
<1>1. /\ final' \in {"marker", "tail", "flush"}
      /\ HeadOnly /\ (capture.failed => ~lateError)
      /\ final' = "marker" => capture.failed \/ (capture.tail # <<>> /\ capture.dropped > 0)
      /\ final' = "tail" => ~capture.failed /\ capture.tail # <<>> /\ capture.dropped = 0
      /\ final' = "flush" /\ ~lateError => OwnsUp(file, pushed)
    BY BeginFinishIs
<1>2. HeadOnly'
    BY <1>1 DEF HeadOnly, HeadBytes, Counts
<1>3. OwnsUp(file, pushed) => OwnsUp(file, pushed)'
    BY DEF OwnsUp
<1>4. FileSoFar'
    BY <1>1, <1>2, <1>3 DEF FileSoFar
<1>5. Accounted' /\ capture' \in CaptureRecord
    BY DEF CaptureInv, Accounted, HeadBytes, Counts
<1>6. ~logObject.there
    BY DEF CaptureInv, ShippedOwnsUp
<1>7. ShippedOwnsUp'
    BY <1>6 DEF ShippedOwnsUp
<1> QED BY <1>4, <1>5, <1>7

\* The tee ends at the end of the pipe.
LEMMA AllReadStep == ASSUME CaptureInv, AllRead PROVE CaptureInv'
<1>1. /\ UNCHANGED <<wrote, tee, pushed, holders, capture, file, lateError, disk, logObject>>
      /\ final = "draining" /\ final' = BeginFinish
      /\ holders = "nobody" /\ tee.chunk = <<>> /\ pushed = wrote
    BY DEF AllRead
<1>2. FileSoFar' /\ Accounted' /\ ShippedOwnsUp' /\ capture' \in CaptureRecord
    BY <1>1, BeginStep
<1>3. final' \in {"marker", "tail", "flush"}
    BY <1>1, BeginFinishIs
<1>4. CaptureTypeOK' /\ tee' \in [live: BOOLEAN, chunk: Seq(Bytes)]
    BY <1>1, <1>3 DEF CaptureInv, CaptureTypeOK
<1>5. ChunkIsNext' /\ Finished'
    BY <1>1 DEF CaptureInv, ChunkIsNext, Counts, Finished
<1> QED BY <1>2, <1>4, <1>5 DEF CaptureInv

\* The tee is cut off after the grace, wherever it is.
LEMMA DrainGraceStep == ASSUME CaptureInv, DrainGrace PROVE CaptureInv'
<1>1. /\ UNCHANGED <<wrote, pushed, holders, capture, file, lateError, disk, logObject>>
      /\ final = "draining" /\ final' = BeginFinish
      /\ tee' = [live |-> FALSE, chunk |-> <<>>]
    BY DEF DrainGrace
<1>2. FileSoFar' /\ Accounted' /\ ShippedOwnsUp' /\ capture' \in CaptureRecord
    BY <1>1, BeginStep
<1>3. final' \in {"marker", "tail", "flush"}
    BY <1>1, BeginFinishIs
<1>4. /\ tee' \in [live: BOOLEAN, chunk: Seq(Bytes)] /\ tee'.chunk = <<>> /\ ~tee'.live
      /\ Len(<<>>) = 0 /\ <<>> \in Seq(Bytes)
    BY <1>1
<1>5. CaptureTypeOK'
    BY <1>1, <1>3, <1>4, Sizes DEF CaptureInv, CaptureTypeOK
<1>6. ChunkIsNext'
    <2>1. pushed \in 0 .. wrote /\ wrote \in 0 .. MaxOutput
        BY DEF CaptureInv, CaptureTypeOK
    <2> QED BY <1>1, <1>4, <2>1, Sizes DEF ChunkIsNext, Counts
<1>7. Finished'
    BY <1>4 DEF Finished
<1> QED BY <1>2, <1>4, <1>5, <1>6, <1>7 DEF CaptureInv

\* The log is closed, and an error that was pending is seen.
LEMMA FlushStep == ASSUME CaptureInv, Flush PROVE CaptureInv'
<1>1. /\ UNCHANGED <<wrote, tee, pushed, holders, capture, file, disk, logObject>>
      /\ final = "flush" /\ lateError' = FALSE
      /\ final' = "noLog" \/ (final' = "log" /\ ~lateError)
    BY DEF Flush, FinishFlush, CaptureInv, CaptureTypeOK
<1>2. CaptureTypeOK' /\ capture' \in CaptureRecord /\ tee' \in [live: BOOLEAN, chunk: Seq(Bytes)]
    BY <1>1 DEF CaptureInv, CaptureTypeOK
<1>3. Accounted' /\ ChunkIsNext' /\ Finished'
    BY <1>1 DEF CaptureInv, Accounted, HeadBytes, Counts, ChunkIsNext, Finished
<1>4. FileSoFar'
    BY <1>1 DEF CaptureInv, FileSoFar, OwnsUp
<1>5. ~logObject.there
    BY <1>1 DEF CaptureInv, ShippedOwnsUp
<1>6. ShippedOwnsUp'
    BY <1>1, <1>5 DEF ShippedOwnsUp
<1> QED BY <1>2, <1>3, <1>4, <1>6 DEF CaptureInv

\* The log is put as it is.
LEMMA UploadLogStep == ASSUME CaptureInv, UploadLog PROVE CaptureInv'
<1>1. /\ UNCHANGED <<wrote, tee, pushed, holders, capture, file, lateError, disk>>
      /\ final = "log" /\ final' = "shipped"
      /\ logObject' = logObject \/ logObject' = [there |-> TRUE, bytes |-> file]
    BY DEF UploadLog
<1>2. ~logObject.there /\ OwnsUp(file, pushed)
    BY <1>1 DEF CaptureInv, ShippedOwnsUp, FileSoFar
<1>3. /\ logObject'.there \in BOOLEAN /\ logObject'.bytes \in Seq(Bytes \cup {Marker})
      /\ logObject'.there => logObject'.bytes = file
    <2>0. /\ logObject.there \in BOOLEAN /\ logObject.bytes \in Seq(Bytes \cup {Marker})
          /\ file \in Seq(Bytes \cup {Marker})
        BY DEF CaptureInv, CaptureTypeOK
    <2>1. CASE logObject' = logObject
        BY <1>2, <2>0, <2>1
    <2>2. CASE logObject' = [there |-> TRUE, bytes |-> file]
        BY <2>0, <2>2
    <2> QED BY <1>1, <2>1, <2>2
<1>4. CaptureTypeOK' /\ capture' \in CaptureRecord /\ tee' \in [live: BOOLEAN, chunk: Seq(Bytes)]
    BY <1>1, <1>3 DEF CaptureInv, CaptureTypeOK
<1>5. Accounted' /\ ChunkIsNext' /\ Finished'
    BY <1>1 DEF CaptureInv, Accounted, HeadBytes, Counts, ChunkIsNext, Finished
<1>6. FileSoFar'
    BY <1>1, <1>2 DEF FileSoFar, OwnsUp
<1>7. ShippedOwnsUp'
    BY <1>1, <1>2, <1>3 DEF ShippedOwnsUp, OwnsUp
<1> QED BY <1>4, <1>5, <1>6, <1>7 DEF CaptureInv

\* A failure that is noted was reported to it: no other is pending.
LEMMA FinishMarkerStep == ASSUME CaptureInv, FinishMarker PROVE CaptureInv'
<1>0. /\ UNCHANGED <<wrote, tee, pushed, holders, capture, logObject>>
      /\ final = "marker"
      /\ \/ WriteAll(<<Marker>>) /\ final' = IF capture.failed THEN "flush" ELSE "tail"
         \/ WriteErrs /\ final' = IF capture.failed THEN "flush" ELSE "noLog"
    BY DEF FinishMarker
<1>1. /\ HeadOnly /\ (capture.failed => ~lateError)
      /\ capture.failed \/ (capture.tail # <<>> /\ capture.dropped > 0)
      /\ file \in Seq(Bytes \cup {Marker}) /\ lateError \in BOOLEAN /\ disk \in {"room", "full"}
      /\ Counts(file, 0) /\ ~logObject.there
    BY <1>0 DEF CaptureInv, CaptureTypeOK, FileSoFar, HeadOnly, ShippedOwnsUp
<1> DEFINE marked == file \o <<Marker>>
<1>2. /\ OwnsUp(marked, pushed) /\ marked \in Seq(Bytes \cup {Marker})
      /\ Len(marked) > 0 /\ marked[Len(marked)] = Marker
      /\ \A i \in 1 .. Len(marked) - 1 : marked[i] = i
    <2>1. marked \in Seq(Bytes \cup {Marker})
        BY <1>1
    <2> QED BY <1>1, <2>1, MarkedOwnsUp
<1>3. /\ file' \in Seq(Bytes \cup {Marker}) /\ lateError' \in BOOLEAN /\ disk' \in {"room", "full"}
      /\ \/ final' = "noLog"
         \/ /\ final' = (IF capture.failed THEN "flush" ELSE "tail")
            /\ lateError' \/ file' = marked
    <2>1. CASE WriteErrs /\ final' = IF capture.failed THEN "flush" ELSE "noLog"
        BY <1>1, <2>1 DEF WriteErrs
    <2>2. CASE /\ file' = marked /\ UNCHANGED <<lateError, disk>>
               /\ final' = IF capture.failed THEN "flush" ELSE "tail"
        BY <1>1, <1>2, <2>2
    <2>3. ASSUME NEW n \in 0 .. Len(<<Marker>>) - 1, lateError' = TRUE, disk' = "full",
                 file' = file \o (IF disk = "room" THEN SubSeq(<<Marker>>, 1, n) ELSE <<>>),
                 final' = IF capture.failed THEN "flush" ELSE "tail"
          PROVE  <1>3!1 /\ <1>3!2
        <3>1. SubSeq(<<Marker>>, 1, n) \in Seq(Bytes \cup {Marker}) /\ <<>> \in Seq(Bytes \cup {Marker})
            OBVIOUS
        <3>2. file' \in Seq(Bytes \cup {Marker})
            BY <1>1, <2>3, <3>1
        <3> QED BY <2>3, <3>2
    <2> HIDE DEF marked
    <2> QED BY <1>0, <2>1, <2>2, <2>3 DEF WriteAll, marked
<1>4. CaptureTypeOK' /\ capture' \in CaptureRecord /\ tee' \in [live: BOOLEAN, chunk: Seq(Bytes)]
    BY <1>0, <1>3 DEF CaptureInv, CaptureTypeOK
<1>5. Accounted' /\ ChunkIsNext'
    BY <1>0 DEF CaptureInv, Accounted, HeadBytes, Counts, ChunkIsNext
<1>6. Finished' /\ ShippedOwnsUp'
    BY <1>0, <1>1 DEF CaptureInv, Finished, ShippedOwnsUp
<1>7. FileSoFar'
    <2>1. CASE final' = "noLog"
        BY <2>1 DEF FileSoFar
    <2>2. CASE capture.failed /\ final' = "flush" /\ (lateError' \/ file' = marked)
        BY <1>0, <1>2, <2>2 DEF FileSoFar, OwnsUp
    <2>3. CASE ~capture.failed /\ final' = "tail" /\ (lateError' \/ file' = marked)
        <3>1. ~lateError' => WithMarker'
            <4> HIDE DEF marked
            <4> QED BY <1>2, <2>3 DEF WithMarker
        <3> QED BY <1>0, <1>1, <2>3, <3>1 DEF FileSoFar
    <2> QED BY <1>3, <2>1, <2>2, <2>3
<1> QED BY <1>4, <1>5, <1>6, <1>7 DEF CaptureInv

\* The ring follows the marker, or the head.
LEMMA FinishTailStep == ASSUME CaptureInv, FinishTail PROVE CaptureInv'
<1>0. /\ UNCHANGED <<wrote, tee, pushed, holders, capture, logObject>>
      /\ final = "tail"
      /\ \/ WriteAll(capture.tail) /\ final' = "flush"
         \/ WriteErrs /\ final' = "noLog"
    BY DEF FinishTail
<1> DEFINE t == capture.tail
           at == pushed - Len(t)
<1>1. /\ ~capture.failed /\ t # <<>>
      /\ ~lateError => WithMarker \/ (HeadOnly /\ capture.dropped = 0)
      /\ file \in Seq(Bytes \cup {Marker}) /\ lateError \in BOOLEAN /\ disk \in {"room", "full"}
      /\ t \in Seq(Bytes) /\ ~logObject.there /\ pushed \in Nat
    BY <1>0, Sizes DEF CaptureInv, CaptureTypeOK, FileSoFar, ShippedOwnsUp
<1>2. /\ HeadBytes \in Nat /\ capture.dropped \in Nat /\ Len(t) \in Nat
      /\ pushed = HeadBytes + capture.dropped + Len(t) /\ Counts(t, at)
    <2>1. HeadBytes \in Nat /\ capture.dropped \in Nat /\ Len(t) \in Nat
        BY <1>1, Sizes DEF CaptureInv, CaptureTypeOK, HeadBytes
    <2> QED BY <1>1, <2>1 DEF CaptureInv, Accounted
<1> HIDE DEF t
<1>3. at \in Nat /\ at + Len(t) = pushed /\ (capture.dropped = 0 => at = HeadBytes)
    BY <1>1, <1>2
<1> HIDE DEF at
<1>4. ASSUME ~lateError PROVE OwnsUp(file \o t, pushed)
    <2>1. CASE WithMarker
        <3>1. OwnsUp(file \o t, at + Len(t))
            BY <1>1, <1>2, <1>3, <2>1, TailOwnsUp DEF WithMarker
        <3> QED BY <1>3, <3>1
    <2>2. CASE HeadOnly /\ capture.dropped = 0
        <3>1. Counts(file, 0) /\ Len(file) = HeadBytes /\ at = HeadBytes
            BY <1>1, <1>3, <1>4, <2>2 DEF HeadOnly
        <3>2. t \in Seq(Bytes \cup {Marker}) /\ 0 + Len(file) = at
            BY <1>1, <1>2, <3>1
        <3>3. Counts(file \o t, 0) /\ file \o t \in Seq(Bytes \cup {Marker})
              /\ Len(file \o t) = Len(file) + Len(t)
            BY <1>1, <1>2, <3>1, <3>2, CountsJoin
        <3>4. Len(file \o t) = pushed
            BY <1>3, <3>1, <3>3
        <3> QED BY <3>3, <3>4, CompleteOwnsUp
    <2> QED BY <1>1, <1>4, <2>1, <2>2
<1>5. /\ file' \in Seq(Bytes \cup {Marker}) /\ lateError' \in BOOLEAN /\ disk' \in {"room", "full"}
      /\ final' = "noLog" \/ (final' = "flush" /\ (lateError' \/ (~lateError /\ file' = file \o t)))
    <2>0. t \in Seq(Bytes \cup {Marker})
        BY <1>1
    <2>1. CASE WriteErrs /\ final' = "noLog"
        BY <1>1, <2>1 DEF WriteErrs
    <2>2. CASE ~lateError /\ file' = file \o t /\ UNCHANGED <<lateError, disk>> /\ final' = "flush"
        BY <1>1, <2>0, <2>2
    <2>3. ASSUME NEW n \in 0 .. Len(t) - 1, lateError' = TRUE, disk' = "full",
                 file' = file \o (IF disk = "room" THEN SubSeq(t, 1, n) ELSE <<>>),
                 final' = "flush"
          PROVE  <1>5!1 /\ <1>5!2
        <3>1. SubSeq(t, 1, n) \in Seq(Bytes \cup {Marker}) /\ <<>> \in Seq(Bytes \cup {Marker})
            <4>1. n \in Nat /\ n <= Len(t)
                BY <1>2
            <4> QED BY <2>0, <4>1
        <3>2. file' \in Seq(Bytes \cup {Marker})
            BY <1>1, <2>3, <3>1
        <3> QED BY <2>3, <3>2
    <2> QED BY <1>0, <2>1, <2>2, <2>3 DEF WriteAll, t
<1>6. CaptureTypeOK' /\ capture' \in CaptureRecord /\ tee' \in [live: BOOLEAN, chunk: Seq(Bytes)]
    BY <1>0, <1>5 DEF CaptureInv, CaptureTypeOK
<1>7. Accounted' /\ ChunkIsNext'
    BY <1>0 DEF CaptureInv, Accounted, HeadBytes, Counts, ChunkIsNext
<1>8. Finished' /\ ShippedOwnsUp'
    BY <1>0, <1>1 DEF CaptureInv, Finished, ShippedOwnsUp
<1>9. FileSoFar'
    <2>1. CASE final' = "noLog"
        BY <2>1 DEF FileSoFar
    <2>2. CASE final' = "flush" /\ lateError'
        BY <2>2 DEF FileSoFar
    <2>3. CASE final' = "flush" /\ ~lateError /\ file' = file \o t
        <3>1. OwnsUp(file', pushed')
            BY <1>0, <1>4, <2>3, Zenon
        <3>2. OwnsUp(file, pushed)'
            BY <3>1 DEF OwnsUp
        <3> QED BY <2>3, <3>2 DEF FileSoFar
    <2> QED BY <1>5, <2>1, <2>2, <2>3
<1> QED BY <1>6, <1>7, <1>8, <1>9 DEF CaptureInv

\* The pump hands a chunk on: its head to the file, the rest to the ring.
LEMMA CapturePushStep == ASSUME CaptureInv, CapturePush PROVE CaptureInv'
<1> DEFINE chunk == tee.chunk
           size == Len(chunk)
           n == IF Len(chunk) < capture.headLeft THEN Len(chunk) ELSE capture.headLeft
           rest == SubSeq(chunk, n + 1, Len(chunk))
           short == [capture EXCEPT !.headLeft = @ - n]
<1>0. /\ chunk \in Seq(Bytes) /\ chunk # <<>> /\ size \in Nat /\ size > 0
      /\ Counts(chunk, pushed) /\ pushed + size <= wrote
      /\ pushed \in Nat /\ wrote \in 0 .. MaxOutput /\ tee.live
      /\ capture \in CaptureRecord /\ capture.headLeft \in 0 .. HeadCap /\ capture.headLeft \in Nat
      /\ capture.dropped \in Nat /\ capture.tail \in Seq(Bytes) /\ Len(capture.tail) \in Nat
      /\ Len(capture.tail) <= TailCap /\ capture.failed \in BOOLEAN
      /\ file \in Seq(Bytes \cup {Marker}) /\ lateError \in BOOLEAN /\ disk \in {"room", "full"}
    <2>1. /\ wrote \in 0 .. MaxOutput /\ pushed \in 0 .. wrote /\ tee.chunk \in Seq(Bytes) /\ tee.chunk # <<>>
          /\ Counts(tee.chunk, pushed) /\ pushed + Len(tee.chunk) <= wrote /\ tee.live
        BY DEF CaptureInv, CaptureTypeOK, ChunkIsNext, CapturePush
    <2>2. pushed \in Nat /\ Len(tee.chunk) \in Nat /\ Len(tee.chunk) > 0
        BY <2>1, Sizes
    <2>3. /\ capture \in CaptureRecord /\ capture.headLeft \in 0 .. HeadCap
          /\ capture.dropped \in Nat /\ capture.tail \in Seq(Bytes)
          /\ Len(capture.tail) <= TailCap /\ capture.failed \in BOOLEAN
          /\ file \in Seq(Bytes \cup {Marker}) /\ lateError \in BOOLEAN /\ disk \in {"room", "full"}
        BY DEF CaptureInv, CaptureTypeOK
    <2>4. Len(capture.tail) \in Nat /\ capture.headLeft \in Nat
        BY <2>3, Sizes
    <2> QED BY <2>1, <2>2, <2>3, <2>4
<1>1. final = "draining" /\ HeadOnly /\ (capture.failed => ~lateError) /\ ~logObject.there
    <2>1. final = "draining"
        BY <1>0 DEF CaptureInv, Finished
    <2> QED BY <2>1 DEF CaptureInv, FileSoFar, ShippedOwnsUp
<1>2. /\ UNCHANGED <<wrote, holders, final, logObject>>
      /\ pushed' = pushed + size /\ tee' = [tee EXCEPT !.chunk = <<>>]
    BY DEF CapturePush
<1>3. /\ tee' \in [live: BOOLEAN, chunk: Seq(Bytes)] /\ tee'.live /\ tee'.chunk = <<>>
      /\ Len(tee'.chunk) = 0 /\ <<>> \in Seq(Bytes) /\ pushed' \in 0 .. wrote
    <2>1. tee \in [live: BOOLEAN, chunk: Seq(Bytes)] /\ <<>> \in Seq(Bytes) /\ tee.live
        BY <1>0 DEF CaptureInv
    <2>2. tee' \in [live: BOOLEAN, chunk: Seq(Bytes)] /\ tee'.chunk = <<>> /\ tee'.live
        BY ONLY <1>2, <2>1
    <2>3. Len(tee'.chunk) = 0
        BY <2>2
    <2>4. pushed' \in 0 .. wrote
        <3> HIDE DEF size
        <3> QED BY <1>0, <1>2, Sizes, SMTT(30)
    <2> QED BY <2>1, <2>2, <2>3, <2>4
<1>4. ChunkIsNext'
    BY <1>0, <1>2, <1>3 DEF ChunkIsNext, Counts
<1>5. Counts(file, 0) /\ Len(file) <= pushed /\ Len(file) \in Nat
    BY <1>0, <1>1 DEF HeadOnly
<1> HIDE DEF chunk
<1>6. n \in 0 .. size /\ n \in 0 .. capture.headLeft /\ n \in Nat /\ (n < size => n = capture.headLeft)
    BY <1>0
<1>7. SUFFICES
        /\ capture' \in CaptureRecord /\ Len(capture'.tail) <= TailCap /\ Accounted'
        /\ file' \in Seq(Bytes \cup {Marker}) /\ lateError' \in BOOLEAN /\ disk' \in {"room", "full"}
        /\ HeadOnly' /\ (capture'.failed => ~lateError')
    <2>1. CaptureTypeOK'
        <3>1. UNCHANGED <<wrote, holders, final, logObject>> /\ Len(tee'.chunk) <= Buf
            BY <1>2, <1>3, Sizes
        <3>2. /\ capture'.headLeft \in 0 .. HeadCap /\ capture'.dropped \in Nat
              /\ capture'.tail \in Seq(Bytes) /\ capture'.failed \in BOOLEAN
            BY <1>7 DEF CaptureRecord
        <3>3. tee'.live \in BOOLEAN /\ tee'.chunk \in Seq(Bytes) /\ pushed' \in 0 .. wrote
            BY <1>3
        <3> HIDE DEF n, size
        <3> QED BY <1>7, <3>1, <3>2, <3>3 DEF CaptureInv, CaptureTypeOK
    <2>2. FileSoFar' /\ Finished' /\ ShippedOwnsUp'
        BY <1>1, <1>2, <1>7 DEF FileSoFar, Finished, ShippedOwnsUp
    <2> QED BY <1>3, <1>4, <1>7, <2>1, <2>2 DEF CaptureInv
<1>8. CASE capture.failed /\ UNCHANGED <<capture, file, lateError, disk>>
    <2>1. HeadOnly'
        BY <1>0, <1>2, <1>5, <1>8 DEF HeadOnly, Counts
    <2> QED BY <1>0, <1>1, <1>8, <2>1 DEF Accounted
<1>9. CASE ~capture.failed /\ n > 0 /\ WriteErrs /\ capture' = NoteFailure(capture)
    <2>1. capture' \in CaptureRecord /\ capture'.failed /\ capture'.tail = capture.tail
        BY <1>0, <1>9 DEF NoteFailure, CaptureRecord
    <2>2. UNCHANGED <<file, disk>> /\ lateError' = FALSE
        BY <1>9 DEF WriteErrs
    <2>3. HeadOnly'
        BY <1>0, <1>2, <1>5, <2>1, <2>2 DEF HeadOnly, Counts
    <2> QED BY <1>0, <2>1, <2>2, <2>3 DEF Accounted
<1>10. ASSUME ~capture.failed
       PROVE  /\ HeadBytes \in Nat /\ pushed = HeadBytes + capture.dropped + Len(capture.tail)
              /\ capture.headLeft > 0 => capture.tail = <<>> /\ capture.dropped = 0 /\ pushed = HeadBytes
              /\ capture.tail = <<>> => capture.dropped = 0
              /\ Counts(capture.tail, pushed - Len(capture.tail))
    <2>1. HeadBytes \in Nat
        BY <1>0, Sizes DEF HeadBytes
    <2>2. /\ pushed = HeadBytes + capture.dropped + Len(capture.tail)
          /\ capture.headLeft > 0 => capture.tail = <<>>
          /\ capture.tail = <<>> => capture.dropped = 0
          /\ Counts(capture.tail, pushed - Len(capture.tail))
        BY <1>10 DEF CaptureInv, Accounted
    <2>3. capture.headLeft > 0 => Len(capture.tail) = 0
        BY <2>2
    <2> QED BY <1>0, <2>1, <2>2, <2>3
<1>11. CASE ~capture.failed /\ n = 0 /\ capture' = ToRing(capture, chunk)
            /\ UNCHANGED <<file, lateError, disk>>
    <2> DEFINE k == pushed - Len(capture.tail)
    <2>1. capture.headLeft = 0
        BY <1>0, <1>6, <1>11
    <2>2. k \in Nat /\ k + Len(capture.tail) = pushed
        BY <1>0, <1>10, <1>11
    <2>3. Counts(capture.tail, k) /\ Counts(chunk, k + Len(capture.tail))
        BY <1>0, <1>10, <1>11, <2>2 DEF chunk
    <2> HIDE DEF k
    <2>4. /\ ToRing(capture, chunk) \in CaptureRecord /\ Len(ToRing(capture, chunk).tail) <= TailCap
          /\ ToRing(capture, chunk).failed = capture.failed
          /\ ToRing(capture, chunk).headLeft = capture.headLeft
          /\ ToRing(capture, chunk).dropped + Len(ToRing(capture, chunk).tail)
                = capture.dropped + Len(capture.tail) + Len(chunk)
          /\ Counts(ToRing(capture, chunk).tail,
                    (k + Len(capture.tail) + Len(chunk)) - Len(ToRing(capture, chunk).tail))
          /\ ToRing(capture, chunk).tail = <<>> => ToRing(capture, chunk).dropped = 0
        BY <1>0, <1>10, <1>11, <2>2, <2>3, ToRingIs
    <2>5. /\ capture' \in CaptureRecord /\ Len(capture'.tail) <= TailCap /\ ~capture'.failed
          /\ capture'.headLeft = 0
          /\ capture'.dropped + Len(capture'.tail) = capture.dropped + Len(capture.tail) + size
          /\ Counts(capture'.tail, (pushed + size) - Len(capture'.tail))
          /\ capture'.tail = <<>> => capture'.dropped = 0
        BY <1>11, <2>1, <2>2, <2>4
    <2>6. /\ HeadBytes' = HeadBytes /\ HeadBytes \in Nat
          /\ pushed' = HeadBytes' + capture'.dropped + Len(capture'.tail)
        <3>1. HeadBytes' = HeadBytes
            BY <2>1, <2>5 DEF HeadBytes
        <3>2. capture'.dropped \in Nat /\ Len(capture'.tail) \in Nat
            BY <2>5 DEF CaptureRecord
        <3> DEFINE h == HeadBytes
                   d == capture.dropped
                   l == Len(capture.tail)
                   d2 == capture'.dropped
                   l2 == Len(capture'.tail)
        <3>3. /\ h \in Nat /\ d \in Nat /\ l \in Nat /\ d2 \in Nat /\ l2 \in Nat /\ size \in Nat
              /\ d2 + l2 = d + l + size /\ pushed = h + d + l /\ pushed' = pushed + size
            BY <1>0, <1>2, <1>10, <1>11, <2>5, <3>2
        <3> HIDE DEF h, d, l, d2, l2, size
        <3>4. pushed' = h + d2 + l2
            BY ONLY <3>3
        <3> QED BY <1>10, <1>11, <3>1, <3>4 DEF h, d2, l2
    <2>7. Accounted'
        <3>1. Counts(capture.tail, pushed - Len(capture.tail))'
            <4> HIDE DEF size
            <4>1. Counts(capture'.tail, pushed' - Len(capture'.tail))
                BY <1>2, <2>5
            <4> QED BY <4>1 DEF Counts
        <3> QED BY <2>5, <2>6, <3>1 DEF Accounted
    <2>8. HeadOnly'
        BY <1>0, <1>1, <1>2, <1>5, <1>11, <2>5, <2>6 DEF HeadOnly, Counts
    <2> QED BY <1>0, <1>11, <2>5, <2>7, <2>8
<1>12. CASE /\ ~capture.failed /\ n > 0 /\ WriteAll(SubSeq(chunk, 1, n))
            /\ capture' = ToRing(short, rest)
    <2> DEFINE items == SubSeq(chunk, 1, n)
               k == pushed + n
    <2>1. capture.headLeft > 0 /\ capture.tail = <<>> /\ capture.dropped = 0 /\ pushed = HeadBytes
        BY <1>0, <1>6, <1>10, <1>12
    <2>2. ~lateError /\ Len(file) = pushed
        BY <1>1, <1>12, <2>1 DEF WriteAll, HeadOnly
    <2>3. items \in Seq(Bytes) /\ Len(items) = n /\ Counts(items, Len(file))
        <3>1. 0 \in 0 .. Len(chunk) /\ n \in 0 .. Len(chunk)
            BY <1>0, <1>6
        <3>2. SubSeq(chunk, 0 + 1, n) \in Seq(Bytes) /\ Len(SubSeq(chunk, 0 + 1, n)) = n - 0
              /\ Counts(SubSeq(chunk, 0 + 1, n), pushed + 0)
            <4>1. chunk \in Seq(Bytes) /\ Counts(chunk, pushed) /\ pushed \in Nat
                BY <1>0 DEF chunk
            <4> HIDE DEF chunk, n, items
            <4> QED BY ONLY <3>1, <4>1, CountsCut
        <3> QED BY <1>0, <1>6, <2>2, <3>2
    <2>4. rest \in Seq(Bytes) /\ Len(rest) = size - n /\ Counts(rest, k)
        <3>1. n \in 0 .. Len(chunk) /\ Len(chunk) \in n .. Len(chunk)
            BY <1>0, <1>6
        <3>2. chunk \in Seq(Bytes) /\ Counts(chunk, pushed) /\ pushed \in Nat
            BY <1>0 DEF chunk
        <3> HIDE DEF n
        <3> QED BY <3>1, <3>2, CountsCut
    <2> HIDE DEF rest, items
    <2>5. /\ file' \in Seq(Bytes \cup {Marker}) /\ Counts(file, 0)'
          /\ Len(file') <= Len(file) + Len(items)
          /\ lateError' \in BOOLEAN /\ disk' \in {"room", "full"}
          /\ ~lateError' => Len(file') = Len(file) + Len(items)
        <3>1. WriteAll(items)
            BY <1>12 DEF items
        <3> QED BY <1>0, <1>5, <2>3, <3>1, WriteAllIs
    <2>6. /\ short \in CaptureRecord /\ short.tail = <<>> /\ short.dropped = 0
          /\ short.failed = capture.failed /\ short.headLeft = capture.headLeft - n
        <3> DEFINE left == capture.headLeft - n
        <3>1. left \in 0 .. HeadCap
            BY <1>0, <1>6, Sizes
        <3>2. short = [capture EXCEPT !.headLeft = left]
            BY DEF CaptureRecord
        <3> HIDE DEF left, short, n
        <3>3. /\ short \in CaptureRecord /\ short.tail = <<>> /\ short.dropped = 0
              /\ short.failed = capture.failed /\ short.headLeft = left
            BY <1>0, <2>1, <3>1, <3>2 DEF CaptureRecord
        <3> QED BY <3>3 DEF left
    <2>61. k \in Nat
        <3> HIDE DEF n
        <3> QED BY <1>0, <1>6
    <2> HIDE DEF k, short
    <2>7. k \in Nat /\ Len(short.tail) = 0 /\ Counts(short.tail, k) /\ Counts(rest, k + Len(short.tail))
          /\ Len(short.tail) <= TailCap
        <3>1. Len(short.tail) = 0 /\ k + 0 = k
            BY <2>6, <2>61
        <3>2. Counts(short.tail, k)
            BY <3>1 DEF Counts
        <3> QED BY <2>4, <2>61, <3>1, <3>2, Sizes
    <2>8. /\ ToRing(short, rest) \in CaptureRecord /\ Len(ToRing(short, rest).tail) <= TailCap
          /\ ToRing(short, rest).failed = short.failed
          /\ ToRing(short, rest).headLeft = short.headLeft
          /\ ToRing(short, rest).dropped + Len(ToRing(short, rest).tail)
                = short.dropped + Len(short.tail) + Len(rest)
          /\ Counts(ToRing(short, rest).tail,
                    (k + Len(short.tail) + Len(rest)) - Len(ToRing(short, rest).tail))
          /\ ToRing(short, rest).tail = <<>> => ToRing(short, rest).dropped = 0
          /\ rest = <<>> /\ short.tail = <<>> => ToRing(short, rest).tail = <<>>
        BY <2>4, <2>6, <2>7, ToRingIs
    <2>9. k + Len(short.tail) + Len(rest) = pushed + size
        BY <1>0, <1>6, <2>4, <2>7 DEF k
    <2>10. /\ capture' \in CaptureRecord /\ Len(capture'.tail) <= TailCap /\ ~capture'.failed
           /\ capture'.headLeft = capture.headLeft - n
           /\ capture'.dropped + Len(capture'.tail) = size - n
           /\ Counts(capture'.tail, (pushed + size) - Len(capture'.tail))
           /\ capture'.tail = <<>> => capture'.dropped = 0
           /\ rest = <<>> => capture'.tail = <<>>
        <3>1. short.dropped + Len(short.tail) + Len(rest) = size - n
            BY <1>0, <1>6, <2>4, <2>6, <2>7
        <3> DEFINE t == ToRing(short, rest)
        <3>2. capture' = t
            BY <1>12 DEF short, rest
        <3>3. /\ t \in CaptureRecord /\ Len(t.tail) <= TailCap
              /\ t.failed = short.failed /\ t.headLeft = short.headLeft
              /\ t.dropped + Len(t.tail) = size - n
              /\ Counts(t.tail, (pushed + size) - Len(t.tail))
              /\ t.tail = <<>> => t.dropped = 0
              /\ rest = <<>> => t.tail = <<>>
            <4> HIDE DEF n, size
            <4>1. Counts(t.tail, (k + Len(short.tail) + Len(rest)) - Len(t.tail))
                BY <2>8
            <4>2. Counts(t.tail, (pushed + size) - Len(t.tail))
                <5> HIDE DEF t
                <5> QED BY <2>9, <4>1, Zenon
            <4>3. rest = <<>> => t.tail = <<>>
                BY <2>6, <2>8
            <4>4. t.dropped + Len(t.tail) = size - n
                <5>1. t.dropped + Len(t.tail) = short.dropped + Len(short.tail) + Len(rest)
                    BY <2>8
                <5> HIDE DEF t
                <5> QED BY <3>1, <5>1, Zenon
            <4>5. /\ t \in CaptureRecord /\ Len(t.tail) <= TailCap
                  /\ t.failed = short.failed /\ t.headLeft = short.headLeft
                  /\ t.tail = <<>> => t.dropped = 0
                BY <2>8
            <4> QED BY <4>2, <4>3, <4>4, <4>5
        <3>4. ~t.failed /\ t.headLeft = capture.headLeft - n
            <4> HIDE DEF t, n
            <4> QED BY <1>12, <2>6, <3>3
        <3> HIDE DEF t, n, size
        <3> QED BY <3>2, <3>3, <3>4
    <2>11. capture'.headLeft > 0 => capture'.tail = <<>>
        <3>1. capture'.headLeft > 0 => size - n = 0
            BY <1>0, <1>6, <2>10
        <3> QED BY <2>4, <2>10, <3>1
    <2>12. HeadBytes' = HeadBytes + n /\ HeadBytes \in Nat
        BY <1>0, <1>6, <1>10, <1>12, <2>10, Sizes, SMTT(30) DEF HeadBytes
    <2>13. pushed' = HeadBytes' + capture'.dropped + Len(capture'.tail)
        <3>1. capture'.dropped \in Nat /\ Len(capture'.tail) \in Nat
            BY <2>10 DEF CaptureRecord
        <3>2. pushed' = HeadBytes + size
            BY <1>2, <2>1
        <3> DEFINE h == HeadBytes
                   d2 == capture'.dropped
                   l2 == Len(capture'.tail)
        <3>3. /\ h \in Nat /\ n \in Nat /\ d2 \in Nat /\ l2 \in Nat /\ size \in Nat
              /\ d2 + l2 = size - n /\ pushed' = h + size
            BY <1>0, <1>6, <2>10, <2>12, <3>1, <3>2
        <3> HIDE DEF h, d2, l2, size, n
        <3>4. pushed' = (h + n) + d2 + l2
            BY ONLY <3>3
        <3> QED BY <2>12, <3>4 DEF h, d2, l2
    <2>14. Accounted'
        <3>1. Counts(capture.tail, pushed - Len(capture.tail))'
            <4> HIDE DEF size, n
            <4>1. Counts(capture'.tail, pushed' - Len(capture'.tail))
                BY <1>2, <2>10
            <4> QED BY <4>1 DEF Counts
        <3> QED BY <2>10, <2>11, <2>13, <3>1 DEF Accounted
    <2>15. HeadOnly'
        <3>1. Len(file') <= pushed'
            BY <1>0, <1>2, <1>6, <2>2, <2>3, <2>5
        <3>2. ~lateError' => Len(file') = HeadBytes'
            BY <2>1, <2>2, <2>3, <2>5, <2>12
        <3> QED BY <2>5, <3>1, <3>2 DEF HeadOnly
    <2> QED BY <2>5, <2>10, <2>14, <2>15
<1> QED BY <1>8, <1>9, <1>11, <1>12 DEF CapturePush, chunk

\* The child, the tee and the end of a capture keep the invariant.
LEMMA CaptureInvStep == CaptureInv /\ [CaptureNext]_captureVars => CaptureInv'
<1> SUFFICES ASSUME CaptureInv, [CaptureNext]_captureVars PROVE CaptureInv'
    OBVIOUS
<1>1. CASE UNCHANGED captureVars
    <2>1. UNCHANGED <<wrote, tee, pushed, holders, capture, file, lateError, disk, final, logObject>>
        BY <1>1 DEF captureVars
    <2>2. CaptureTypeOK' /\ capture' \in CaptureRecord /\ tee' \in [live: BOOLEAN, chunk: Seq(Bytes)]
        BY <2>1 DEF CaptureInv, CaptureTypeOK, CaptureRecord
    <2>3. Accounted' /\ FileSoFar' /\ ShippedOwnsUp' /\ ChunkIsNext' /\ Finished'
        BY <2>1 DEF CaptureInv, Accounted, HeadBytes, FileSoFar, HeadOnly, WithMarker, ShippedOwnsUp,
                    OwnsUp, Counts, ChunkIsNext, Finished
    <2> QED BY <2>2, <2>3 DEF CaptureInv
<1>2. CASE CaptureNext
    BY <1>2, ChildWritesStep, ReleaseStep, DiskFreesStep, TeeReadStep, CapturePushStep, AllReadStep,
       DrainGraceStep, FinishMarkerStep, FinishTailStep, FlushStep, UploadLogStep, Zenon DEF CaptureNext
<1> QED BY <1>1, <1>2

\* Every reachable state satisfies CaptureInv.
THEOREM CaptureInvariant == CaptureSpec => []CaptureInv
BY InitCaptureInv, CaptureInvStep, PTL DEF CaptureSpec

\* A log that is put has every byte that was pushed or a marker where some are missing
\* (Capture::push, tee, finish_capture), for caps, buffers and outputs of any size.
THEOREM LogOwnsUp == CaptureSpec => []LogOwnsUpToGaps
<1>1. CaptureInv => LogOwnsUpToGaps
    <2> SUFFICES ASSUME CaptureInv, logObject.there PROVE LogOwnsUpToGaps
        BY DEF LogOwnsUpToGaps, LogsUploaded
    <2> DEFINE text == logObject.bytes
    <2>1. OwnsUp(text, pushed) /\ text \in Seq(Bytes \cup {Marker})
        BY DEF CaptureInv, ShippedOwnsUp, CaptureTypeOK
    <2>2. DOMAIN text = 1 .. Len(text)
        BY <2>1
    <2>3. LogsUploaded = {text}
        BY DEF LogsUploaded
    <2> HIDE DEF text
    <2>4. text = <<>> => pushed = 0
        BY <2>1 DEF OwnsUp
    <2> QED BY <2>1, <2>2, <2>3, <2>4 DEF LogOwnsUpToGaps, OwnsUp
<1> QED BY CaptureInvariant, <1>1, PTL
-----------------------------------------------------------------------------
(***************************************************************************)
(* The outputs arrive whole. The argument: the paths that a glob returns   *)
(* are the topmost of those it matches, and every path is at or below one  *)
(* of them, so an archive has what its pattern asks for, once; the parts   *)
(* of an archive stay as they were put because no other output has the     *)
(* key; so the digest of what is fetched is right.                         *)
(***************************************************************************)

\* The workdir is a tree: what is in a directory has the directory.
TreeIsWhole ==
    /\ tree \in [TreePaths -> {"none", "file", "dir"}] /\ tree[<<>>] = "dir"
    /\ \A n \in TopNames, k \in SubNames : tree[<<n, k>>] # "none" => tree[<<n>>] = "dir"

\* What the agent ships for an output, and the record of it that the envelope gets.
Archive(k) == Compress(GlobOutputs(declared[k].pattern))
RecordOf(k) ==
    [name |-> declared[k].name, parts |-> PartCount(Archive(k)), sha256 |-> Archive(k)]

\* What the envelope may list and the spool may hold.
Records == {RecordOf(k) : k \in 1 .. OutputCount}
Spooled == {{}} \cup {Archive(k) : k \in 1 .. OutputCount}

\* The first parts of an output are in the store.
PartsArePut(k, end) ==
    \A i \in 0 .. end - 1 : parts[<<declared[k].name, i>>] = [of |-> Archive(k), index |-> i]

\* The agent: what it has put of the output it is at; no upload is listed when it failed.
ShipInv ==
    /\ shipped \in [pc: {"glob", "put", "ended"}, at: 1 .. OutputCount + 1, part: Nat,
                    spool: Spooled]
    /\ shipped.pc = "put" =>
         /\ shipped.at <= OutputCount /\ shipped.spool = Archive(shipped.at)
         /\ PartCount(shipped.spool) <= PartLimit /\ shipped.part < PartCount(shipped.spool)
         /\ PartsArePut(shipped.at, shipped.part)
    /\ shipped.pc \in {"glob", "put"} => Len(envelope) = shipped.at - 1
    /\ shipped.pc = "ended" => Len(envelope) \in {0, OutputCount}

\* The envelope lists the outputs in their order, and of one whose name no other has the
\* parts are those of its archive.
EnvelopeInv ==
    /\ envelope \in Seq(Records) /\ Len(envelope) <= OutputCount
    /\ \A k \in 1 .. Len(envelope) :
         /\ envelope[k] = RecordOf(k) /\ PartCount(Archive(k)) <= PartLimit
         /\ ~SameName(k) => PartsArePut(k, PartCount(Archive(k)))

\* The CLI: what has been collected of the records it is past.
CollectInv ==
    /\ fetched \in [pc: {"await", "admit", "fetch", "done"}, at: 1 .. OutputCount + 1, part: Nat]
    /\ fetched.pc = "await" => fetched.at = 1
    /\ fetched.pc \in {"await", "admit"} => fetched.part = 0
    /\ fetched.pc # "await" => shipped.pc = "ended" /\ fetched.at <= Len(envelope) + 1
    /\ fetched.pc = "fetch" => /\ fetched.at <= Len(envelope) /\ fetched.part <= Record.parts
                               /\ Record.name \in PlainNames
    /\ fetched.pc = "done" => fetched.at = Len(envelope) + 1
    /\ missed \subseteq 1 .. fetched.at - 1
    /\ \A k \in 1 .. OutputCount : ~SameName(k) =>
         /\ k >= fetched.at => collected[declared[k].name] = {}
         /\ k < fetched.at /\ declared[k].name \in PlainNames /\ k \notin missed =>
               collected[declared[k].name] = Archive(k)

\* The inductive invariant.
OutputsInv ==
    /\ TreeIsWhole
    /\ declared \in [1 .. OutputCount -> [name: OutNames, pattern: Patterns]]
    /\ DOMAIN parts = OutNames \X (0 .. PartLimit - 1) /\ DOMAIN collected = OutNames
    /\ ShipInv /\ EnvelopeInv /\ CollectInv
-----------------------------------------------------------------------------
(***************************************************************************)
(* Paths and archives.                                                     *)
(***************************************************************************)
Names == TopNames \cup SubNames

\* A path is a sequence of names, of two at most.
LEMMA PathsAreSeqs ==
  ASSUME NEW p \in TreePaths
  PROVE  p \in Seq(Names) /\ Len(p) \in 0 .. 2 /\ (Len(p) = 0 => p = <<>>)
  <1>1. ASSUME NEW n \in TopNames, p = <<n>>
        PROVE  p \in Seq(Names) /\ Len(p) = 1
    BY <1>1 DEF Names
  <1>2. ASSUME NEW n \in TopNames, NEW k \in SubNames, p = <<n, k>>
        PROVE  p \in Seq(Names) /\ Len(p) = 2
    BY <1>2 DEF Names
  <1>3. CASE p = <<>>
    BY <1>3
  <1> QED
    BY <1>1, <1>2, <1>3 DEF TreePaths

\* A path is short, so a prefix of it is one of three.
LEMMA PrefixIs ==
  ASSUME NEW p \in TreePaths, NEW q \in TreePaths
  PROVE  IsPrefix(p, q) <=>
            \/ p = <<>> \/ p = q
            \/ \E n \in TopNames, k \in SubNames : p = <<n>> /\ q = <<n, k>>
  <1>1. CASE p = <<>>
    BY <1>1 DEF IsPrefix, TreePaths
  <1>2. ASSUME NEW n \in TopNames, p = <<n>>
        PROVE  IsPrefix(p, q) <=> p = q \/ \E k \in SubNames : q = <<n, k>>
    <2>1. CASE q = <<>>
      BY <1>2, <2>1 DEF IsPrefix
    <2>2. ASSUME NEW m \in TopNames, q = <<m>>
          PROVE  IsPrefix(p, q) <=> p = q
      BY <1>2, <2>2 DEF IsPrefix
    <2>3. ASSUME NEW m \in TopNames, NEW k \in SubNames, q = <<m, k>>
          PROVE  IsPrefix(p, q) <=> n = m
      BY <1>2, <2>3 DEF IsPrefix
    <2> QED
      BY <1>2, <2>1, <2>2, <2>3 DEF TreePaths
  <1>3. ASSUME NEW n \in TopNames, NEW k \in SubNames, p = <<n, k>>
        PROVE  IsPrefix(p, q) <=> p = q
    <2>1. CASE q = <<>>
      BY <1>3, <2>1 DEF IsPrefix
    <2>2. ASSUME NEW m \in TopNames, q = <<m>>
          PROVE  IsPrefix(p, q) <=> p = q
      BY <1>3, <2>2 DEF IsPrefix
    <2>3. ASSUME NEW m \in TopNames, NEW j \in SubNames, q = <<m, j>>
          PROVE  IsPrefix(p, q) <=> p = q
      BY <1>3, <2>3 DEF IsPrefix
    <2> QED
      BY <1>3, <2>1, <2>2, <2>3 DEF TreePaths
  <1> QED
    BY <1>1, <1>2, <1>3 DEF TreePaths

\* Of two prefixes of a path one is a prefix of the other.
LEMMA PrefixesCompare ==
  ASSUME NEW p \in TreePaths, NEW m \in TreePaths, NEW q \in TreePaths,
         IsPrefix(p, q), IsPrefix(m, q)
  PROVE  IsPrefix(p, m) \/ IsPrefix(m, p)
  BY PrefixIs DEF TreePaths

\* A prefix of a prefix is a prefix.
LEMMA PrefixTransitive ==
  ASSUME NEW p \in TreePaths, NEW m \in TreePaths, NEW q \in TreePaths,
         IsPrefix(p, m), IsPrefix(m, q)
  PROVE  IsPrefix(p, q)
  BY PrefixIs DEF TreePaths

\* glob_outputs drops nothing but what a match above it brings along.
LEMMA TopMatchAbove ==
  ASSUME NEW paths \in SUBSET TreePaths, NEW p \in paths
  PROVE  \E m \in TopMatches(paths) : IsPrefix(m, p)
  <1>1. CASE <<>> \in paths
    BY <1>1, PrefixIs DEF TopMatches, IsStrictPrefix, TreePaths
  <1>2. CASE p \in TopMatches(paths)
    BY <1>2, PrefixIs
  <1>3. CASE <<>> \notin paths /\ p \notin TopMatches(paths)
    <2>1. PICK q \in paths : IsStrictPrefix(q, p)
      BY <1>3 DEF TopMatches
    <2>2. PICK n \in TopNames, k \in SubNames : q = <<n>> /\ p = <<n, k>>
      BY <1>3, <2>1, PrefixIs DEF IsStrictPrefix
    <2>3. q \in TopMatches(paths)
      <3> SUFFICES ASSUME NEW r \in paths, IsStrictPrefix(r, q)
                   PROVE  FALSE
        BY DEF TopMatches
      <3>1. r \in TreePaths /\ q \in TreePaths /\ IsPrefix(r, q) /\ r # q
        BY DEF IsStrictPrefix
      <3>2. \/ r = <<>> \/ r = q
            \/ \E i \in TopNames, j \in SubNames : r = <<i>> /\ q = <<i, j>>
        BY <3>1, PrefixIs
      <3> QED
        BY <1>3, <2>2, <3>1, <3>2
    <2> QED
      BY <2>1, <2>3 DEF IsStrictPrefix
  <1> QED
    BY <1>1, <1>2, <1>3

\* Nothing is below a file.
LEMMA FileIsLeaf ==
  ASSUME TreeIsWhole, NEW m \in TreePaths, tree[m] = "file", NEW q \in FilesBelow(m)
  PROVE  q = m
  <1>1. q \in TreePaths /\ tree[q] = "file" /\ IsPrefix(m, q)
    BY DEF FilesBelow
  <1>2. CASE m = <<>>
    BY <1>2 DEF TreeIsWhole
  <1>3. ASSUME NEW n \in TopNames, NEW k \in SubNames, m = <<n>>, q = <<n, k>>
        PROVE  FALSE
    BY <1>1, <1>3 DEF TreeIsWhole
  <1> QED
    BY <1>1, <1>2, <1>3, PrefixIs

\* The archive of an output, as a set.
LEMMA CompressHas ==
  ASSUME NEW matches, NEW e
  PROVE  e \in Compress(matches) <=>
            \E m \in matches : \E q \in FilesBelow(m) :
               e = [at |-> ArchivedAs(q, m, matches), src |-> q, via |-> m]
  BY DEF Compress

\* What glob_outputs returns: paths of the workdir, none below another, and some path at or
\* above each one that the pattern matches.
LEMMA MatchesAreTop ==
  ASSUME TreeIsWhole, NEW pattern
  PROVE  /\ GlobOutputs(pattern) \subseteq TreePaths
         /\ \A p, q \in GlobOutputs(pattern) : IsPrefix(p, q) => p = q
  <1> DEFINE All == {p \in TreePaths : tree[p] # "none" /\ GlobMatches(p, pattern.segments)}
  <1>1. GlobOutputs(pattern) \subseteq TopMatches(All)
    BY DEF GlobOutputs, GlobPaths
  <1>2. TopMatches(All) \subseteq All /\ \A p, q \in TopMatches(All) : ~IsStrictPrefix(p, q)
    BY DEF TopMatches
  <1> QED
    BY <1>1, <1>2 DEF IsStrictPrefix

\* Every file that a pattern asks for is below a path that glob_outputs returns, and no other
\* file is: what a trailing `**` drops are matches that are files, with nothing below them.
LEMMA MatchesCover ==
  ASSUME TreeIsWhole, NEW pattern, pattern.tree \in BOOLEAN
  PROVE  \A q \in TreePaths :
            q \in Wanted(pattern) <=> \E m \in GlobOutputs(pattern) : q \in FilesBelow(m)
  <1> DEFINE All == {p \in TreePaths : tree[p] # "none" /\ GlobMatches(p, pattern.segments)}
  <1>1. ASSUME NEW q \in Wanted(pattern)
        PROVE  \E m \in GlobOutputs(pattern) : q \in FilesBelow(m)
    <2>1. /\ q \in TreePaths /\ tree[q] = "file"
      BY DEF Wanted
    <2>2. PICK p \in All : IsPrefix(p, q) /\ (pattern.tree => tree[p] = "dir")
      BY DEF Wanted
    <2>3. PICK m \in TopMatches(All) : IsPrefix(m, p)
      BY TopMatchAbove
    <2>4. m \in All
      BY DEF TopMatches
    <2>5. IsPrefix(m, q)
      BY <2>1, <2>2, <2>3, <2>4, PrefixTransitive
    <2>6. pattern.tree => tree[m] = "dir"
      <3> SUFFICES ASSUME pattern.tree, tree[m] = "file"
                   PROVE  FALSE
        BY <2>4 DEF TreeIsWhole
      <3>1. q \in FilesBelow(m)
        BY <2>1, <2>5 DEF FilesBelow
      <3>2. q = m
        BY <2>4, <3>1, FileIsLeaf
      <3>3. IsPrefix(p, m)
        BY <2>2, <3>2
      <3>4. p = m
        BY <2>3, <2>4, <3>3, PrefixIs DEF TreePaths
      <3> QED
        BY <2>2, <3>4
    <2>7. m \in GlobOutputs(pattern)
      BY <2>4, <2>6 DEF GlobOutputs, GlobPaths
    <2> QED
      BY <2>1, <2>5, <2>7 DEF FilesBelow
  <1>2. ASSUME NEW m \in GlobOutputs(pattern), NEW q \in FilesBelow(m)
        PROVE  q \in Wanted(pattern)
    <2>1. m \in All /\ (pattern.tree => tree[m] = "dir")
      BY DEF GlobOutputs, GlobPaths, TopMatches
    <2> QED
      BY <2>1 DEF FilesBelow, Wanted
  <1> QED
    BY <1>1, <1>2

\* A single match is all there is.
LEMMA FewAreOne ==
  ASSUME NEW matches, IsFiniteSet(matches), ~(Cardinality(matches) > 1)
  PROVE  \A m, p \in matches : m = p
  <1> SUFFICES ASSUME NEW m \in matches, NEW p \in matches, m # p
               PROVE  FALSE
    OBVIOUS
  <1>1. Cardinality(matches) \in Nat
    BY FS_CardinalityType
  <1>2. IsFiniteSet({m}) /\ Cardinality({m}) = 1
    BY FS_Singleton
  <1>3. IsFiniteSet({m} \cup {p}) /\ Cardinality({m} \cup {p}) = 2
    <2>1. p \notin {m}
      OBVIOUS
    <2>2. Cardinality({m} \cup {p}) = Cardinality({m}) + 1
      BY <1>2, <2>1, FS_AddElement
    <2> QED
      BY <1>2, <2>2, FS_AddElement
  <1>4. Cardinality({m} \cup {p}) <= Cardinality(matches)
    BY <1>3, FS_Subset
  <1> QED
    BY <1>1, <1>3, <1>4

\* The workdir of the model is finite.
LEMMA PathsAreFinite == IsFiniteSet(TreePaths)
  <1> DEFINE Tops == {<<n>> : n \in TopNames}
             Subs == {<<n, k>> : n \in TopNames, k \in SubNames}
  <1>1. IsFiniteSet(Tops)
    <2> DEFINE f == [n \in TopNames |-> <<n>>]
    <2>1. f \in Surjection(TopNames, Tops)
      BY DEF Surjection
    <2> QED
      BY <2>1, FS_Surjection, OutputsAssumption
  <1>2. IsFiniteSet(Subs)
    <2>1. Subs = TopNames \X SubNames
      OBVIOUS
    <2> QED
      BY <2>1, FS_Product, OutputsAssumption
  <1>3. TreePaths = ({<<>>} \cup Tops) \cup Subs
    BY DEF TreePaths
  <1> HIDE DEF Tops, Subs
  <1>4. IsFiniteSet({<<>>})
    BY FS_Singleton
  <1>5. IsFiniteSet({<<>>} \cup Tops)
    BY <1>1, <1>4, FS_Union
  <1>6. IsFiniteSet(({<<>>} \cup Tops) \cup Subs)
    BY <1>2, <1>5, FS_Union
  <1> QED
    BY <1>3, <1>6

\* One match is archived from its own root, several from the workdir.
LEMMA PlacesDiffer ==
  ASSUME TreeIsWhole, NEW m \in TreePaths, NEW matches,
         NEW q \in FilesBelow(m), NEW r \in FilesBelow(m),
         ArchivedAs(q, m, matches) = ArchivedAs(r, m, matches)
  PROVE  q = r
  <1>1. /\ q \in TreePaths /\ IsPrefix(m, q) /\ tree[q] = "file"
        /\ r \in TreePaths /\ IsPrefix(m, r) /\ tree[r] = "file"
    BY DEF FilesBelow
  <1>2. CASE Cardinality(matches) > 1
    BY <1>2 DEF ArchivedAs
  <1>3. CASE ~(Cardinality(matches) > 1) /\ tree[m] = "file"
    BY <1>3, FileIsLeaf
  <1>4. CASE ~(Cardinality(matches) > 1) /\ tree[m] # "file"
    <2>1. q # m /\ r # m
      BY <1>1, <1>4
    <2>2. SubSeq(q, Len(m) + 1, Len(q)) = SubSeq(r, Len(m) + 1, Len(r))
      BY <1>4, <2>1 DEF ArchivedAs
    <2>3. CASE m = <<>>
      <3>1. /\ q \in Seq(Names) /\ r \in Seq(Names)
            /\ \A p \in TreePaths : Len(p) \in 0 .. 2 /\ (Len(p) = 0 => p = <<>>)
        BY <1>1, PathsAreSeqs
      <3>2. SubSeq(q, 1, Len(q)) = SubSeq(r, 1, Len(r))
        BY <2>2, <2>3
      <3>3. Len(q) = Len(r)
        BY <3>1, <3>2
      <3>4. IsPrefix(q, r)
        BY <3>2, <3>3 DEF IsPrefix
      <3> QED
        BY <1>1, <3>1, <3>3, <3>4, PrefixIs
    <2>4. CASE m # <<>>
      <3>1. PICK n \in TopNames, k \in SubNames : m = <<n>> /\ q = <<n, k>>
        BY <1>1, <2>1, <2>4, PrefixIs
      <3>2. PICK j \in SubNames : r = <<n, j>>
        BY <1>1, <2>1, <2>4, <3>1, PrefixIs
      <3>3. /\ Len(m) = 1 /\ Len(q) = 2 /\ Len(r) = 2
            /\ q[2] = k /\ r[2] = j /\ q \in Seq(Names) /\ r \in Seq(Names)
        BY <3>1, <3>2 DEF Names
      <3>4. SubSeq(q, 2, 2) = SubSeq(r, 2, 2)
        BY <2>2, <3>3
      <3>5. SubSeq(q, 2, 2)[1] = q[2] /\ SubSeq(r, 2, 2)[1] = r[2]
        BY <3>3
      <3>6. k = j
        BY <3>3, <3>4, <3>5
      <3> QED
        BY <3>1, <3>2, <3>6
    <2> QED
      BY <2>3, <2>4
  <1> QED
    BY <1>2, <1>3, <1>4

\* An archive has every file that its pattern asks for, each once and each in a place of its
\* own.
LEMMA ArchiveIsWanted ==
  ASSUME TreeIsWhole, NEW pattern, pattern.tree \in BOOLEAN,
         NEW archive, archive = Compress(GlobOutputs(pattern))
  PROVE  /\ {e.src : e \in archive} = Wanted(pattern)
         /\ \A e, f \in archive : e # f => e.src # f.src /\ e.at # f.at
  <1> DEFINE matches == GlobOutputs(pattern)
  <1>1. /\ matches \subseteq TreePaths
        /\ \A p, q \in matches : IsPrefix(p, q) => p = q
    BY MatchesAreTop
  <1>2. \A q \in TreePaths : q \in Wanted(pattern) <=> \E m \in matches : q \in FilesBelow(m)
    BY MatchesCover
  <1>3. IsFiniteSet(matches)
    BY <1>1, PathsAreFinite, FS_Subset
  <1>4. archive = Compress(matches)
    OBVIOUS
  <1> HIDE DEF matches
  <1>5. \A e \in archive :
           /\ e.via \in matches /\ e.src \in FilesBelow(e.via) /\ e.src \in TreePaths
           /\ e = [at |-> ArchivedAs(e.src, e.via, matches), src |-> e.src, via |-> e.via]
    BY <1>4, CompressHas DEF FilesBelow
  <1>6. \A q \in Wanted(pattern) : \E e \in archive : e.src = q
    <2> TAKE q \in Wanted(pattern)
    <2>1. PICK m \in matches : q \in FilesBelow(m)
      BY <1>2 DEF Wanted
    <2>2. [at |-> ArchivedAs(q, m, matches), src |-> q, via |-> m] \in archive
      BY <1>4, <2>1, CompressHas
    <2> QED
      BY <2>2
  <1>7. {e.src : e \in archive} = Wanted(pattern)
    BY <1>2, <1>5, <1>6 DEF Wanted
  <1>8. ASSUME NEW e \in archive, NEW f \in archive, e.src = f.src
        PROVE  e = f
    <2>1. e.via \in TreePaths /\ f.via \in TreePaths
      BY <1>1, <1>5
    <2>2. IsPrefix(e.via, e.src) /\ IsPrefix(f.via, e.src)
      BY <1>5, <1>8 DEF FilesBelow
    <2>3. e.via = f.via
      BY <1>1, <1>5, <2>1, <2>2, PrefixesCompare
    <2> QED
      BY <1>5, <1>8, <2>3
  <1>9. ASSUME NEW e \in archive, NEW f \in archive, e.at = f.at
        PROVE  e.src = f.src
    <2>1. ArchivedAs(e.src, e.via, matches) = ArchivedAs(f.src, f.via, matches)
      <3>1. /\ e.at = ArchivedAs(e.src, e.via, matches)
            /\ f.at = ArchivedAs(f.src, f.via, matches)
        BY <1>5
      <3> QED
        BY <1>9, <3>1
    <2>2. CASE Cardinality(matches) > 1
      BY <2>1, <2>2 DEF ArchivedAs
    <2>3. CASE ~(Cardinality(matches) > 1)
      <3>1. e.via = f.via
        BY <1>3, <1>5, <2>3, FewAreOne
      <3> QED
        BY <1>1, <1>5, <2>1, <3>1, PlacesDiffer
    <2> QED
      BY <2>2, <2>3
  <1> QED
    BY <1>7, <1>8, <1>9

\* An archive has a whole number of parts, and one at least.
LEMMA PartsAreCounted ==
  ASSUME TreeIsWhole, NEW pattern, pattern.tree \in BOOLEAN,
         NEW archive, archive = Compress(GlobOutputs(pattern))
  PROVE  PartCount(archive) \in Nat \ {0}
  <1>1. \A e, f \in archive : e.src = f.src => e = f
    BY ArchiveIsWanted
  <1>2. \A e \in archive : e.src \in TreePaths
    BY CompressHas DEF FilesBelow
  <1> HIDE DEF Compress
  <1>3. IsFiniteSet(archive)
    <2> DEFINE f == [e \in archive |-> e.src]
    <2>1. f \in Injection(archive, TreePaths)
      BY <1>1, <1>2 DEF Injection, IsInjective
    <2> QED
      BY <2>1, PathsAreFinite, FS_Injection
  <1>4. Cardinality(archive) \in Nat
    BY <1>3, FS_CardinalityType
  <1> DEFINE full == (Cardinality(archive) + PartFiles - 1) \div PartFiles
  <1>5. full \in Nat
    BY <1>4, OutputsAssumption
  <1> QED
    BY <1>5 DEF PartCount
-----------------------------------------------------------------------------
\* What the shard ships is settled when its job has ended.
LEMMA ArchivesStay ==
  ASSUME UNCHANGED <<tree, declared>>
  PROVE  /\ \A k \in 1 .. OutputCount :
            /\ Archive(k)' = Archive(k) /\ PartCount(Archive(k))' = PartCount(Archive(k))
            /\ RecordOf(k)' = RecordOf(k) /\ SameName(k)' = SameName(k)
         /\ Records' = Records /\ Spooled' = Spooled
  <1>1. ASSUME NEW pattern
        PROVE  Compress(GlobOutputs(pattern))' = Compress(GlobOutputs(pattern))
    BY DEF Compress, GlobOutputs, GlobPaths, FilesBelow
  <1>2. ASSUME NEW k \in 1 .. OutputCount
        PROVE  Archive(k)' = Archive(k)
    BY <1>1 DEF Archive
  <1>3. ASSUME NEW k \in 1 .. OutputCount
        PROVE  PartCount(Archive(k))' = PartCount(Archive(k))
    BY <1>2 DEF PartCount
  <1>4. ASSUME NEW k \in 1 .. OutputCount
        PROVE  RecordOf(k)' = RecordOf(k)
    BY <1>2, <1>3 DEF RecordOf
  <1>5. ASSUME NEW k \in 1 .. OutputCount
        PROVE  SameName(k)' = SameName(k)
    BY DEF SameName
  <1>6. Records' = Records
    BY <1>4 DEF Records
  <1>7. Spooled' = Spooled
    BY <1>2 DEF Spooled
  <1> QED
    BY <1>2, <1>3, <1>4, <1>5, <1>6, <1>7

\* Who leaves the store and the envelope alone leaves the envelope's claims alone.
LEMMA EnvelopeStays ==
  ASSUME EnvelopeInv, UNCHANGED <<tree, declared, parts, envelope>>
  PROVE  EnvelopeInv'
  <1>1. /\ \A k \in 1 .. OutputCount :
              /\ Archive(k)' = Archive(k) /\ PartCount(Archive(k))' = PartCount(Archive(k))
              /\ RecordOf(k)' = RecordOf(k) /\ SameName(k)' = SameName(k)
        /\ Records' = Records
    BY ArchivesStay
  <1>2. envelope' \in Seq(Records') /\ Len(envelope') <= OutputCount
    BY <1>1 DEF EnvelopeInv
  <1>3. ASSUME NEW k \in 1 .. Len(envelope)
        PROVE  /\ envelope[k] = RecordOf(k)' /\ PartCount(Archive(k))' <= PartLimit
               /\ ~SameName(k)' => PartsArePut(k, PartCount(Archive(k)))'
    <2>1. k \in 1 .. OutputCount
      BY OutputsAssumption DEF EnvelopeInv
    <2>2. ASSUME ~SameName(k)
          PROVE  PartsArePut(k, PartCount(Archive(k)))'
      BY <1>1, <2>1, <2>2 DEF EnvelopeInv, PartsArePut
    <2> QED
      BY <1>1, <2>1, <2>2 DEF EnvelopeInv
  <1> QED
    BY <1>2, <1>3 DEF EnvelopeInv

\* Each archive of the run has its parts.
LEMMA ArchivesCounted ==
  ASSUME OutputsInv
  PROVE  \A k \in 1 .. OutputCount : PartCount(Archive(k)) \in Nat \ {0}
  BY PartsAreCounted, OutputsAssumption DEF OutputsInv, Archive

\* The job has left a tree, and nothing is shipped.
LEMMA OutputsInvStart == OutputsInit => OutputsInv
  <1> SUFFICES ASSUME OutputsInit PROVE OutputsInv
    OBVIOUS
  <1>1. TreeIsWhole
    <2>1. ASSUME NEW n \in TopNames, NEW k \in SubNames, tree[<<n, k>>] # "none"
          PROVE  tree[<<n>>] = "dir"
      <3>1. <<n, k>> \in TreePaths /\ <<n, k>> # <<>> /\ Front(<<n, k>>) = <<n>>
        <4>1. <<n, k>> \in Seq(Names) /\ <<n>> \in Seq(Names) /\ Len(<<n, k>>) = 2
          BY DEF Names
        <4> Len(<<n>>) = 1 /\ <<n>>[1] = n
          OBVIOUS
        <4>2. /\ SubSeq(<<n, k>>, 1, 1) \in Seq(Names) /\ Len(SubSeq(<<n, k>>, 1, 1)) = 1
              /\ SubSeq(<<n, k>>, 1, 1)[1] = n
          BY <4>1, SubSeqProperties
        <4>3. SubSeq(<<n, k>>, 1, 1) = <<n>>
          <5>1. \A i \in 1 .. 1 : SubSeq(<<n, k>>, 1, 1)[i] = <<n>>[i]
            BY <4>2
          <5> HIDE DEF Names
          <5> QED
            BY <4>1, <4>2, <5>1, SeqEqual
        <4> QED
          BY <4>1, <4>3 DEF TreePaths, Front
      <3> QED
        BY <2>1, <3>1 DEF OutputsInit
    <2> QED
      BY <2>1 DEF OutputsInit, TreeIsWhole
  <1>2. ShipInv
    BY OutputsAssumption DEF OutputsInit, ShipInv, Spooled
  <1>3. EnvelopeInv
    BY OutputsAssumption DEF OutputsInit, EnvelopeInv
  <1>4. CollectInv
    BY OutputsAssumption DEF OutputsInit, CollectInv
  <1> QED
    BY <1>1, <1>2, <1>3, <1>4 DEF OutputsInit, OutputsInv

\* A record that is refused is of a name that is no plain path.
LEMMA AdmitRecordKeepsInv ==
  ASSUME OutputsInv, AdmitRecord
  PROVE  OutputsInv'
  <1>1. /\ UNCHANGED <<tree, declared>>
        /\ TreeIsWhole' /\ declared \in [1 .. OutputCount -> [name: OutNames, pattern: Patterns]]
        /\ declared' = declared
    BY DEF OutputsInv, TreeIsWhole, AdmitRecord
  <1>2. /\ \A k \in 1 .. OutputCount :
              /\ Archive(k)' = Archive(k) /\ PartCount(Archive(k))' = PartCount(Archive(k))
              /\ RecordOf(k)' = RecordOf(k) /\ SameName(k)' = SameName(k)
        /\ Records' = Records /\ Spooled' = Spooled
    BY <1>1, ArchivesStay
  <1>3. \A k \in 1 .. OutputCount : PartCount(Archive(k)) \in Nat \ {0}
    BY ArchivesCounted
  <1>4. ShipInv'
    BY <1>1, <1>2, <1>3 DEF AdmitRecord, OutputsInv, ShipInv, PartsArePut
  <1>5. EnvelopeInv'
    BY EnvelopeStays DEF AdmitRecord, OutputsInv
  <1>6. CollectInv'
    <2>1. /\ fetched.at \in 1 .. OutputCount /\ Record = RecordOf(fetched.at)
          /\ PartCount(Archive(fetched.at)) <= PartLimit
      BY OutputsAssumption DEF AdmitRecord, OutputsInv, CollectInv, EnvelopeInv, Record
    <2>2. /\ Record.name = declared[fetched.at].name
          /\ Record.parts = PartCount(Archive(fetched.at))
      BY <2>1 DEF RecordOf
    <2>3. CASE AdmitOutput(Record)
      <3>1. Record.name \in PlainNames /\ fetched' = [fetched EXCEPT !.pc = "fetch"]
        BY <2>3 DEF AdmitRecord, AdmitOutput
      <3> QED
        <4>1. Record' = Record /\ fetched.part = 0
          BY <3>1 DEF AdmitRecord, Record, OutputsInv, CollectInv
        <4> HIDE DEF Record
        <4> QED
          BY <1>1, <1>2, <1>3, <2>1, <2>2, <3>1, <4>1 DEF AdmitRecord, OutputsInv, CollectInv
    <2>4. CASE ~AdmitOutput(Record)
      <3>1. Record.name \notin PlainNames
        BY <1>1, <2>1, <2>2, <2>4 DEF AdmitOutput
      <3>2. fetched' = [pc |-> "admit", at |-> fetched.at + 1, part |-> 0]
        BY <2>4 DEF AdmitRecord, NextRecord
      <3> QED
        <4>1. /\ fetched' \in [pc: {"await", "admit", "fetch", "done"}, at: 1 .. OutputCount + 1, part: Nat]
              /\ fetched'.pc = "admit" /\ fetched'.at = fetched.at + 1 /\ fetched'.part = 0
          BY <2>1, <3>2, OutputsAssumption
        <4>2. /\ fetched.at <= Len(envelope) /\ Len(envelope) \in Nat /\ envelope' = envelope /\ shipped'.pc = "ended"
          BY <2>1 DEF AdmitRecord, OutputsInv, CollectInv, EnvelopeInv
        <4>3. missed' \subseteq 1 .. fetched'.at - 1
          BY <2>1, <4>1 DEF AdmitRecord, OutputsInv, CollectInv
        <4>4. ASSUME NEW k \in 1 .. OutputCount, ~SameName(k)
              PROVE  /\ k >= fetched'.at => collected'[declared[k].name] = {}
                     /\ k < fetched'.at /\ declared[k].name \in PlainNames /\ k \notin missed' =>
                          collected'[declared[k].name] = Archive(k)
          BY <2>1, <4>1, <4>4, <2>2, <3>1 DEF AdmitRecord, OutputsInv, CollectInv
        <4>5. \A k \in 1 .. OutputCount : ~SameName(k)' =>
                 /\ k >= fetched'.at => collected'[declared'[k].name] = {}
                 /\ k < fetched'.at /\ declared'[k].name \in PlainNames /\ k \notin missed' =>
                      collected'[declared'[k].name] = Archive(k)'
          BY <1>1, <1>2, <4>4
        <4>6. Len(envelope') \in Nat /\ fetched'.at <= Len(envelope') + 1
          BY <2>1, <4>1, <4>2
        <4> HIDE DEF Record
        <4> QED
          BY <4>1, <4>2, <4>3, <4>5, <4>6 DEF CollectInv
    <2> QED
      BY <2>3, <2>4
  <1> QED
    BY <1>1, <1>4, <1>5, <1>6 DEF AdmitRecord, OutputsInv

\* The CLI ends when it is past the last record.
LEMMA CollectEndsKeepsInv ==
  ASSUME OutputsInv, CollectEnds
  PROVE  OutputsInv'
  <1>1. /\ UNCHANGED <<tree, declared>>
        /\ TreeIsWhole' /\ declared \in [1 .. OutputCount -> [name: OutNames, pattern: Patterns]]
        /\ declared' = declared
    BY DEF OutputsInv, TreeIsWhole, CollectEnds
  <1>2. /\ \A k \in 1 .. OutputCount :
              /\ Archive(k)' = Archive(k) /\ PartCount(Archive(k))' = PartCount(Archive(k))
              /\ RecordOf(k)' = RecordOf(k) /\ SameName(k)' = SameName(k)
        /\ Records' = Records /\ Spooled' = Spooled
    BY <1>1, ArchivesStay
  <1>3. \A k \in 1 .. OutputCount : PartCount(Archive(k)) \in Nat \ {0}
    BY ArchivesCounted
  <1>4. ShipInv'
    BY <1>1, <1>2, <1>3 DEF CollectEnds, OutputsInv, ShipInv, PartsArePut
  <1>5. EnvelopeInv'
    BY EnvelopeStays DEF CollectEnds, OutputsInv
  <1>6. CollectInv'
    <2>1. fetched.at = Len(envelope) + 1 /\ fetched' = [fetched EXCEPT !.pc = "done"]
      BY OutputsAssumption DEF CollectEnds, OutputsInv, CollectInv, EnvelopeInv
    <2> QED
      BY <1>1, <1>2, <2>1 DEF CollectEnds, OutputsInv, CollectInv
  <1> QED
    BY <1>1, <1>4, <1>5, <1>6 DEF CollectEnds, OutputsInv

\* The envelope is written when every output has its record.
LEMMA WriteEnvelopeKeepsInv ==
  ASSUME OutputsInv, WriteEnvelope
  PROVE  OutputsInv'
  <1>1. /\ UNCHANGED <<tree, declared>>
        /\ TreeIsWhole' /\ declared \in [1 .. OutputCount -> [name: OutNames, pattern: Patterns]]
        /\ declared' = declared
    BY DEF OutputsInv, TreeIsWhole, WriteEnvelope
  <1>2. /\ \A k \in 1 .. OutputCount :
              /\ Archive(k)' = Archive(k) /\ PartCount(Archive(k))' = PartCount(Archive(k))
              /\ RecordOf(k)' = RecordOf(k) /\ SameName(k)' = SameName(k)
        /\ Records' = Records /\ Spooled' = Spooled
    BY <1>1, ArchivesStay
  <1>3. \A k \in 1 .. OutputCount : PartCount(Archive(k)) \in Nat \ {0}
    BY ArchivesCounted
  <1>4. ShipInv'
    BY <1>1, <1>2, <1>3, OutputsAssumption DEF WriteEnvelope, OutputsInv, ShipInv, PartsArePut
  <1>5. EnvelopeInv'
    BY EnvelopeStays DEF WriteEnvelope, OutputsInv
  <1>6. CollectInv'
    <2>1. /\ fetched.pc = "await" /\ fetched.at = 1 /\ fetched' = [fetched EXCEPT !.pc = "admit"]
          /\ shipped'.pc = "ended"
      BY DEF WriteEnvelope, OutputsInv, CollectInv, ShipInv
    <2>2. fetched.at <= Len(envelope) + 1
      BY <2>1 DEF OutputsInv, EnvelopeInv
    <2> QED
      BY <1>1, <1>2, <2>1, <2>2 DEF WriteEnvelope, OutputsInv, CollectInv
  <1> QED
    BY <1>1, <1>4, <1>5, <1>6 DEF WriteEnvelope, OutputsInv

\* What is fetched under a name of its own passes the digest and is the archive.
LEMMA FetchOutputPartKeepsInv ==
  ASSUME OutputsInv, FetchOutputPart
  PROVE  OutputsInv'
  <1>1. /\ UNCHANGED <<tree, declared>>
        /\ TreeIsWhole' /\ declared \in [1 .. OutputCount -> [name: OutNames, pattern: Patterns]]
        /\ declared' = declared
    BY DEF OutputsInv, TreeIsWhole, FetchOutputPart
  <1>2. /\ \A k \in 1 .. OutputCount :
              /\ Archive(k)' = Archive(k) /\ PartCount(Archive(k))' = PartCount(Archive(k))
              /\ RecordOf(k)' = RecordOf(k) /\ SameName(k)' = SameName(k)
        /\ Records' = Records /\ Spooled' = Spooled
    BY <1>1, ArchivesStay
  <1>3. \A k \in 1 .. OutputCount : PartCount(Archive(k)) \in Nat \ {0}
    BY ArchivesCounted
  <1>4. ShipInv'
    BY <1>1, <1>2, <1>3 DEF FetchOutputPart, OutputsInv, ShipInv, PartsArePut
  <1>5. EnvelopeInv'
    BY EnvelopeStays DEF FetchOutputPart, OutputsInv
  <1>6. CollectInv'
    <2>1. /\ fetched.pc = "fetch" /\ fetched.at \in 1 .. OutputCount
          /\ fetched.at <= Len(envelope) /\ Record = RecordOf(fetched.at)
          /\ ~SameName(fetched.at) => PartsArePut(fetched.at, PartCount(Archive(fetched.at)))
      BY OutputsAssumption DEF FetchOutputPart, OutputsInv, CollectInv, EnvelopeInv, Record
    <2>2. /\ Record.name = declared[fetched.at].name /\ Record.sha256 = Archive(fetched.at)
          /\ Record.parts = PartCount(Archive(fetched.at))
      BY <2>1 DEF RecordOf
    <2>3. Record.parts \in Nat /\ fetched.part \in Nat
      BY <1>3, <2>1, <2>2 DEF OutputsInv, CollectInv
    <2>4. CASE fetched.part < Record.parts /\ UNCHANGED <<collected, missed>>
               /\ fetched' = [fetched EXCEPT !.part = @ + 1]
      <3>1. Record' = Record
        BY <2>4 DEF FetchOutputPart, Record
      <3> QED
        BY <1>1, <1>2, <2>1, <2>3, <2>4, <3>1 DEF FetchOutputPart, OutputsInv, CollectInv
    <2>5. CASE missed' = missed \cup {fetched.at} /\ fetched' = NextRecord /\ UNCHANGED collected
      <3>1. fetched' = [pc |-> "admit", at |-> fetched.at + 1, part |-> 0]
        BY <2>5 DEF NextRecord
      <3> QED
        <4>1. /\ fetched' \in [pc: {"await", "admit", "fetch", "done"}, at: 1 .. OutputCount + 1, part: Nat]
              /\ fetched'.pc = "admit" /\ fetched'.at = fetched.at + 1 /\ fetched'.part = 0
          BY <2>1, <3>1, OutputsAssumption
        <4>2. /\ fetched.at <= Len(envelope) /\ Len(envelope) \in Nat /\ envelope' = envelope /\ shipped'.pc = "ended"
          BY <2>1 DEF FetchOutputPart, OutputsInv, CollectInv, EnvelopeInv
        <4>3. missed' \subseteq 1 .. fetched'.at - 1
          BY <2>1, <4>1, <2>5 DEF FetchOutputPart, OutputsInv, CollectInv
        <4>4. ASSUME NEW k \in 1 .. OutputCount, ~SameName(k)
              PROVE  /\ k >= fetched'.at => collected'[declared[k].name] = {}
                     /\ k < fetched'.at /\ declared[k].name \in PlainNames /\ k \notin missed' =>
                          collected'[declared[k].name] = Archive(k)
          BY <2>1, <4>1, <4>4, <2>5 DEF FetchOutputPart, OutputsInv, CollectInv
        <4>5. \A k \in 1 .. OutputCount : ~SameName(k)' =>
                 /\ k >= fetched'.at => collected'[declared'[k].name] = {}
                 /\ k < fetched'.at /\ declared'[k].name \in PlainNames /\ k \notin missed' =>
                      collected'[declared'[k].name] = Archive(k)'
          BY <1>1, <1>2, <4>4
        <4>6. Len(envelope') \in Nat /\ fetched'.at <= Len(envelope') + 1
          BY <2>1, <4>1, <4>2
        <4> HIDE DEF Record
        <4> QED
          BY <4>1, <4>2, <4>3, <4>5, <4>6 DEF CollectInv
    <2>6. CASE /\ collected' = IF ShaMatches(Record)
                          THEN [collected EXCEPT ![Record.name] = @ \cup Record.sha256]
                          ELSE collected
               /\ fetched' = NextRecord /\ UNCHANGED missed
      <3>1. fetched' = [pc |-> "admit", at |-> fetched.at + 1, part |-> 0]
        BY <2>6 DEF NextRecord
      <3>2. ASSUME NEW k \in 1 .. OutputCount, ~SameName(k), k # fetched.at
            PROVE  collected'[declared[k].name] = collected[declared[k].name]
        <4>1. declared[k].name # Record.name
          BY <1>1, <2>1, <2>2, <3>2 DEF SameName
        <4> QED
          BY <2>6, <4>1 DEF OutputsInv
      <3>3. ASSUME ~SameName(fetched.at)
            PROVE  collected'[declared[fetched.at].name] = Archive(fetched.at)
        <4>1. ShaMatches(Record)
          BY <2>1, <2>2, <3>3 DEF ShaMatches, PartsArePut
        <4>2. collected[declared[fetched.at].name] = {}
          BY <2>1, <3>3 DEF OutputsInv, CollectInv
        <4> QED
          BY <1>1, <2>1, <2>2, <2>6, <4>1, <4>2 DEF OutputsInv
      <3>4. ASSUME NEW k \in 1 .. OutputCount, ~SameName(k)
            PROVE  /\ k >= fetched.at + 1 => collected'[declared[k].name] = {}
                   /\ k < fetched.at + 1 /\ declared[k].name \in PlainNames /\ k \notin missed =>
                        collected'[declared[k].name] = Archive(k)
        <4>1. CASE k = fetched.at
          BY <3>3, <3>4, <4>1
        <4>2. CASE k # fetched.at
          BY <2>1, <3>2, <3>4, <4>2 DEF OutputsInv, CollectInv
        <4> QED
          BY <4>1, <4>2
      <3>5. missed' \subseteq 1 .. fetched.at /\ UNCHANGED <<shipped, envelope>>
        BY <2>1, <2>6 DEF FetchOutputPart, OutputsInv, CollectInv
      <3>6. shipped.pc = "ended"
        BY <2>1 DEF OutputsInv, CollectInv
      <3> QED
        <4>1. /\ fetched' \in [pc: {"await", "admit", "fetch", "done"}, at: 1 .. OutputCount + 1, part: Nat]
              /\ fetched'.pc = "admit" /\ fetched'.at = fetched.at + 1 /\ fetched'.part = 0
          BY <2>1, <3>1, OutputsAssumption
        <4>2. /\ fetched.at <= Len(envelope) /\ Len(envelope) \in Nat /\ envelope' = envelope /\ shipped'.pc = "ended"
          BY <2>1 DEF FetchOutputPart, OutputsInv, CollectInv, EnvelopeInv
        <4>3. missed' \subseteq 1 .. fetched'.at - 1
          BY <2>1, <4>1, <2>6 DEF FetchOutputPart, OutputsInv, CollectInv
        <4>4. ASSUME NEW k \in 1 .. OutputCount, ~SameName(k)
              PROVE  /\ k >= fetched'.at => collected'[declared[k].name] = {}
                     /\ k < fetched'.at /\ declared[k].name \in PlainNames /\ k \notin missed' =>
                          collected'[declared[k].name] = Archive(k)
          BY <2>1, <4>1, <4>4, <2>6, <3>4 DEF FetchOutputPart, OutputsInv, CollectInv
        <4>5. \A k \in 1 .. OutputCount : ~SameName(k)' =>
                 /\ k >= fetched'.at => collected'[declared'[k].name] = {}
                 /\ k < fetched'.at /\ declared'[k].name \in PlainNames /\ k \notin missed' =>
                      collected'[declared'[k].name] = Archive(k)'
          BY <1>1, <1>2, <4>4
        <4>6. Len(envelope') \in Nat /\ fetched'.at <= Len(envelope') + 1
          BY <2>1, <4>1, <4>2
        <4> HIDE DEF Record
        <4> QED
          BY <4>1, <4>2, <4>3, <4>5, <4>6 DEF CollectInv
    <2> QED
      BY <2>4, <2>5, <2>6 DEF FetchOutputPart
  <1>7. DOMAIN parts' = OutNames \X (0 .. PartLimit - 1) /\ DOMAIN collected' = OutNames
    BY DEF FetchOutputPart, OutputsInv
  <1> QED
    BY <1>1, <1>4, <1>5, <1>6, <1>7 DEF OutputsInv

\* A fault while the outputs are shipped leaves the envelope without uploads.
LEMMA ShipFailsKeepsInv ==
  ASSUME OutputsInv, ShipFails, shipped.pc # "ended",
         UNCHANGED <<tree, declared, parts, collected, missed>>
  PROVE  OutputsInv'
  <1>1. /\ TreeIsWhole' /\ declared \in [1 .. OutputCount -> [name: OutNames, pattern: Patterns]]
        /\ declared' = declared
    BY DEF OutputsInv, TreeIsWhole
  <1>2. /\ \A k \in 1 .. OutputCount :
              /\ Archive(k)' = Archive(k) /\ RecordOf(k)' = RecordOf(k)
              /\ SameName(k)' = SameName(k)
        /\ Records' = Records /\ Spooled' = Spooled
    BY ArchivesStay
  <1>3. ShipInv'
    BY <1>1, <1>2, OutputsAssumption DEF ShipFails, OutputsInv, ShipInv, Spooled
  <1>4. EnvelopeInv'
    BY <1>1, <1>2, OutputsAssumption DEF ShipFails, EnvelopeInv
  <1>5. CollectInv'
    <2>1. fetched.pc = "await" /\ fetched.at = 1
      BY DEF OutputsInv, CollectInv
    <2>2. fetched' = [fetched EXCEPT !.pc = "admit"] /\ envelope' = <<>> /\ shipped'.pc = "ended"
      BY DEF ShipFails, OutputsInv, ShipInv
    <2> QED
      BY <1>1, <1>2, <2>1, <2>2 DEF OutputsInv, CollectInv
  <1> QED
    BY <1>1, <1>3, <1>4, <1>5 DEF OutputsInv

\* A spooled archive is that of its output, and has no more parts than the run may put.
LEMMA SpoolOutputKeepsInv ==
  ASSUME OutputsInv, SpoolOutput
  PROVE  OutputsInv'
  <1>1. /\ UNCHANGED <<tree, declared>>
        /\ TreeIsWhole' /\ declared \in [1 .. OutputCount -> [name: OutNames, pattern: Patterns]]
        /\ declared' = declared
    BY DEF OutputsInv, TreeIsWhole, SpoolOutput
  <1>2. /\ \A k \in 1 .. OutputCount :
              /\ Archive(k)' = Archive(k) /\ PartCount(Archive(k))' = PartCount(Archive(k))
              /\ RecordOf(k)' = RecordOf(k) /\ SameName(k)' = SameName(k)
        /\ Records' = Records /\ Spooled' = Spooled
    BY <1>1, ArchivesStay
  <1>3. \A k \in 1 .. OutputCount : PartCount(Archive(k)) \in Nat \ {0}
    BY ArchivesCounted
  <1>4. CASE ShipFails /\ UNCHANGED <<parts, collected, missed>>
    BY <1>1, <1>2, <1>4, ShipFailsKeepsInv DEF SpoolOutput
  <1>5. ASSUME shipped.at <= OutputCount, PartCount(Archive(shipped.at)) <= PartLimit,
               shipped' = [shipped EXCEPT !.pc = "put", !.part = 0, !.spool = Archive(shipped.at)],
               UNCHANGED <<envelope, fetched, parts, collected, missed>>
        PROVE  OutputsInv'
    <2>1. /\ shipped.at \in 1 .. OutputCount /\ shipped.pc = "glob" /\ fetched.pc = "await"
          /\ Len(envelope) = shipped.at - 1
      BY <1>5, OutputsAssumption DEF SpoolOutput, OutputsInv, ShipInv, CollectInv
    <2>2. /\ shipped'.pc = "put" /\ shipped'.at = shipped.at /\ shipped'.part = 0
          /\ shipped'.spool = Archive(shipped.at)
          /\ shipped' \in [pc: {"glob", "put", "ended"}, at: 1 .. OutputCount + 1, part: Nat,
                           spool: Spooled]
      BY <1>5, <2>1 DEF OutputsInv, ShipInv, Spooled
    <2>3. ShipInv'
      BY <1>1, <1>2, <1>3, <1>5, <2>1, <2>2 DEF ShipInv, PartsArePut
    <2>4. EnvelopeInv'
      BY <1>1, <1>5, EnvelopeStays DEF OutputsInv
    <2>5. CollectInv'
      BY <1>1, <1>2, <1>5, <2>1 DEF OutputsInv, CollectInv
    <2> QED
      BY <1>1, <1>5, <2>3, <2>4, <2>5 DEF OutputsInv
  <1> QED
    BY <1>4, <1>5 DEF SpoolOutput, Archive

\* The parts of an output are put in order, and its record when the last is in.
LEMMA PutOutputPartKeepsInv ==
  ASSUME OutputsInv, PutOutputPart
  PROVE  OutputsInv'
  <1>1. /\ UNCHANGED <<tree, declared>>
        /\ TreeIsWhole' /\ declared \in [1 .. OutputCount -> [name: OutNames, pattern: Patterns]]
        /\ declared' = declared
    BY DEF OutputsInv, TreeIsWhole, PutOutputPart
  <1>2. /\ \A k \in 1 .. OutputCount :
              /\ Archive(k)' = Archive(k) /\ PartCount(Archive(k))' = PartCount(Archive(k))
              /\ RecordOf(k)' = RecordOf(k) /\ SameName(k)' = SameName(k)
        /\ Records' = Records /\ Spooled' = Spooled
    BY <1>1, ArchivesStay
  <1>3. \A k \in 1 .. OutputCount : PartCount(Archive(k)) \in Nat \ {0}
    BY ArchivesCounted
  <1>4. CASE ShipFails /\ UNCHANGED <<parts, collected, missed>>
    BY <1>1, <1>2, <1>4, ShipFailsKeepsInv DEF PutOutputPart
  <1> SUFFICES ASSUME NEW at, at = shipped.at, NEW part, part = shipped.part
               PROVE  OutputsInv'
    OBVIOUS
  <1> DEFINE Key == <<declared[at].name, part>>
             Body == [of |-> Archive(at), index |-> part]
             rec == [name |-> declared[at].name, parts |-> PartCount(Archive(at)),
                     sha256 |-> Archive(at)]
  <1>5. /\ at \in 1 .. OutputCount /\ part \in Nat /\ part < PartCount(Archive(at))
        /\ PartCount(Archive(at)) <= PartLimit /\ shipped.spool = Archive(at)
        /\ PartsArePut(at, part) /\ Len(envelope) = at - 1 /\ shipped.pc = "put"
        /\ fetched.pc = "await"
    BY OutputsAssumption DEF PutOutputPart, OutputsInv, ShipInv, CollectInv
  <1>6. rec = RecordOf(at)
    BY DEF RecordOf
  <1>7. ASSUME parts' = [parts EXCEPT ![Key] = Body], UNCHANGED <<fetched, collected, missed>>,
               \/ /\ part + 1 < PartCount(Archive(at))
                  /\ shipped' = [shipped EXCEPT !.part = part + 1] /\ UNCHANGED envelope
               \/ /\ ~(part + 1 < PartCount(Archive(at)))
                  /\ envelope' = Append(envelope, rec)
                  /\ shipped' = [shipped EXCEPT !.pc = "glob", !.at = at + 1, !.spool = {}]
        PROVE  OutputsInv'
    <2>1. /\ DOMAIN parts' = OutNames \X (0 .. PartLimit - 1) /\ DOMAIN collected' = OutNames
          /\ parts'[Key] = Body /\ \A key \in DOMAIN parts : key # Key => parts'[key] = parts[key]
      <3>1. Key \in DOMAIN parts
        <4>1. part \in 0 .. PartLimit - 1 /\ declared[at].name \in OutNames
          BY <1>1, <1>3, <1>5, OutputsAssumption
        <4> QED
          BY <4>1 DEF OutputsInv
      <3> QED
        BY <1>7, <3>1 DEF OutputsInv
    <2>2. PartsArePut(at, part + 1)'
      <3>1. ASSUME NEW i \in 0 .. (part + 1) - 1
            PROVE  parts'[<<declared[at].name, i>>] = [of |-> Archive(at), index |-> i]
        <4>1. CASE i = part
          BY <2>1, <4>1
        <4>2. CASE i # part
          <5>1. i \in 0 .. part - 1 /\ i \in 0 .. PartLimit - 1 /\ declared[at].name \in OutNames
            BY <1>1, <1>3, <1>5, <4>2, OutputsAssumption
          <5>2. <<declared[at].name, i>> \in DOMAIN parts /\ <<declared[at].name, i>> # Key
            BY <4>2, <5>1 DEF OutputsInv
          <5> QED
            BY <1>5, <2>1, <5>1, <5>2 DEF PartsArePut
        <4> QED
          BY <4>1, <4>2
      <3>2. declared' = declared /\ Archive(at)' = Archive(at)
        BY <1>1, <1>2, <1>5
      <3> HIDE DEF Key, Body
      <3> QED
        BY <3>1, <3>2 DEF PartsArePut
    <2>3. ASSUME NEW k \in 1 .. at - 1, ~SameName(k), NEW end, PartsArePut(k, end),
                 end <= PartLimit, end \in Nat
          PROVE  PartsArePut(k, end)'
      <3>1. declared[k].name # declared[at].name /\ declared[k].name \in OutNames
        <4>1. at \in DOMAIN declared \ {k} /\ k \in 1 .. OutputCount
          BY <1>1, <1>5, OutputsAssumption
        <4> QED
          BY <1>1, <2>3, <4>1 DEF SameName
      <3>2. \A i \in 0 .. end - 1 : parts'[<<declared[k].name, i>>] = parts[<<declared[k].name, i>>]
        BY <2>1, <2>3, <3>1, OutputsAssumption DEF OutputsInv
      <3>3. k \in 1 .. OutputCount
        BY <1>5, OutputsAssumption
      <3> QED
        BY <1>1, <1>2, <2>3, <3>2, <3>3 DEF PartsArePut
    <2>4. ASSUME NEW k \in 1 .. Len(envelope)
          PROVE  /\ k \in 1 .. OutputCount /\ k \in 1 .. at - 1 /\ envelope[k] = RecordOf(k)'
                 /\ PartCount(Archive(k))' <= PartLimit
                 /\ ~SameName(k)' => PartsArePut(k, PartCount(Archive(k)))'
      <3>1. k \in 1 .. OutputCount /\ k \in 1 .. at - 1
        BY <1>5, OutputsAssumption
      <3>2. /\ envelope[k] = RecordOf(k) /\ PartCount(Archive(k)) <= PartLimit
            /\ ~SameName(k) => PartsArePut(k, PartCount(Archive(k)))
        BY DEF OutputsInv, EnvelopeInv
      <3>3. ASSUME ~SameName(k)
            PROVE  PartsArePut(k, PartCount(Archive(k)))'
        <4>1. PICK end \in Nat : end = PartCount(Archive(k))
          BY <1>3, <3>1
        <4>2. PartsArePut(k, end)'
          BY <2>3, <3>1, <3>2, <3>3, <4>1
        <4>3. end = PartCount(Archive(k))'
          BY <1>2, <3>1, <4>1
        <4> QED
          BY <4>2, <4>3 DEF PartsArePut
      <3> QED
        BY <1>2, <3>1, <3>2, <3>3
    <2>5. CollectInv'
      <3>1. /\ fetched' = fetched /\ collected' = collected /\ missed' = missed
            /\ fetched.pc = "await" /\ declared' = declared
        BY <1>1, <1>5, <1>7
      <3>2. \A k \in 1 .. OutputCount : ~SameName(k)' =>
               /\ k >= fetched.at => collected[declared[k].name] = {}
               /\ k < fetched.at /\ declared[k].name \in PlainNames /\ k \notin missed =>
                    collected[declared[k].name] = Archive(k)'
        BY <1>2 DEF OutputsInv, CollectInv
      <3> QED
        BY <3>1, <3>2 DEF OutputsInv, CollectInv
    <2>6. CASE part + 1 < PartCount(Archive(at)) /\ UNCHANGED envelope
               /\ shipped' = [shipped EXCEPT !.part = part + 1]
      <3>1. EnvelopeInv'
        BY <1>2, <2>4, <2>6 DEF OutputsInv, EnvelopeInv
      <3>2. /\ shipped' \in [pc: {"glob", "put", "ended"}, at: 1 .. OutputCount + 1, part: Nat,
                             spool: Spooled]
            /\ shipped'.pc = "put" /\ shipped'.at = at /\ shipped'.part = part + 1
            /\ shipped'.spool = Archive(at)
        BY <1>5, <2>6 DEF OutputsInv, ShipInv
      <3>3. /\ shipped'.spool = Archive(at)' /\ PartCount(Archive(at))' = PartCount(Archive(at))
            /\ PartCount(shipped.spool)' = PartCount(Archive(at))
        BY <1>2, <1>5, <3>2
      <3>4. PartsArePut(shipped.at, shipped.part)'
        BY <2>2, <3>2 DEF PartsArePut
      <3>5. ShipInv'
        BY <1>2, <1>5, <2>6, <3>2, <3>3, <3>4 DEF ShipInv
      <3> QED
        BY <1>1, <2>1, <2>5, <3>1, <3>5 DEF OutputsInv
    <2>7. CASE ~(part + 1 < PartCount(Archive(at))) /\ envelope' = Append(envelope, rec)
               /\ shipped' = [shipped EXCEPT !.pc = "glob", !.at = at + 1, !.spool = {}]
      <3>1. part + 1 = PartCount(Archive(at))
        BY <1>3, <1>5, <2>7
      <3>2. /\ envelope \in Seq(Records) /\ rec \in Records
        BY <1>5, <1>6 DEF OutputsInv, EnvelopeInv, Records
      <3>3. /\ envelope' \in Seq(Records) /\ Len(envelope') = at /\ envelope'[at] = rec
            /\ \A k \in 1 .. at - 1 : envelope'[k] = envelope[k]
        BY <1>5, <2>7, <3>2
      <3>4. ASSUME NEW k \in 1 .. Len(envelope')
            PROVE  /\ envelope'[k] = RecordOf(k)' /\ PartCount(Archive(k))' <= PartLimit
                   /\ ~SameName(k)' => PartsArePut(k, PartCount(Archive(k)))'
        <4>1. CASE k = at
          <5>1. PartsArePut(k, PartCount(Archive(k)))'
            <6>1. PartCount(Archive(at))' = part + 1
              BY <1>2, <1>5, <3>1
            <6> QED
              BY <2>2, <4>1, <6>1 DEF PartsArePut
          <5> QED
            BY <1>2, <1>5, <1>6, <3>3, <4>1, <5>1
        <4>2. CASE k # at
          <5>1. k \in 1 .. Len(envelope) /\ k \in 1 .. at - 1
            BY <1>5, <3>3, <4>2
          <5> QED
            BY <2>4, <3>3, <5>1
        <4> QED
          BY <4>1, <4>2
      <3>5. EnvelopeInv'
        BY <1>2, <1>5, <3>3, <3>4, OutputsAssumption DEF EnvelopeInv
      <3>6. /\ shipped' \in [pc: {"glob", "put", "ended"}, at: 1 .. OutputCount + 1, part: Nat,
                             spool: Spooled]
            /\ shipped'.pc = "glob" /\ shipped'.at = at + 1
        <4>1. at + 1 \in 1 .. OutputCount + 1 /\ {} \in Spooled
          BY <1>5, OutputsAssumption DEF Spooled
        <4>2. shipped \in [pc: {"glob", "put", "ended"}, at: 1 .. OutputCount + 1, part: Nat,
                           spool: Spooled]
          BY DEF OutputsInv, ShipInv
        <4> QED
          BY <2>7, <4>1, <4>2
      <3>7. ShipInv'
        BY <1>2, <1>5, <3>3, <3>6 DEF ShipInv
      <3> QED
        BY <1>1, <2>1, <2>5, <3>5, <3>7 DEF OutputsInv
    <2> QED
      BY <1>7, <2>6, <2>7
  <1> QED
    BY <1>4, <1>5, <1>7 DEF PutOutputPart

\* Every reachable state satisfies OutputsInv.
THEOREM OutputsInvariant == OutputsSpec => []OutputsInv
  <1>1. OutputsInit => OutputsInv
    BY OutputsInvStart
  <1>2. OutputsInv /\ [OutputsNext]_outputVars => OutputsInv'
    <2> SUFFICES ASSUME OutputsInv, [OutputsNext]_outputVars PROVE OutputsInv'
      OBVIOUS
    <2>1. CASE UNCHANGED outputVars
      <3>1. /\ UNCHANGED <<tree, declared, parts, envelope>>
            /\ UNCHANGED <<shipped, fetched, collected, missed>>
        BY <2>1 DEF outputVars
      <3>2. /\ \A k \in 1 .. OutputCount :
                 /\ Archive(k)' = Archive(k) /\ PartCount(Archive(k))' = PartCount(Archive(k))
                 /\ RecordOf(k)' = RecordOf(k) /\ SameName(k)' = SameName(k)
            /\ Records' = Records /\ Spooled' = Spooled
        BY <3>1, ArchivesStay
      <3>3. EnvelopeInv'
        BY <3>1, EnvelopeStays DEF OutputsInv
      <3>4. ShipInv'
        BY <3>1, <3>2, OutputsAssumption DEF OutputsInv, ShipInv, PartsArePut
      <3>5. CollectInv'
        BY <3>1, <3>2 DEF OutputsInv, CollectInv, Record
      <3> QED
        BY <3>1, <3>3, <3>4, <3>5 DEF OutputsInv, TreeIsWhole
    <2> QED
      BY <2>1, SpoolOutputKeepsInv, PutOutputPartKeepsInv, WriteEnvelopeKeepsInv,
         AdmitRecordKeepsInv, FetchOutputPartKeepsInv, CollectEndsKeepsInv DEF OutputsNext
  <1> QED
    BY <1>1, <1>2, PTL DEF OutputsSpec

\* run.rs upload_outputs, transfer.rs glob_outputs and compress_entries, runner.rs
\* download_outputs: for any workdir, patterns and sizes, when the collection has ended the
\* files that an output asks for are on the operator's disk, each once and each in a place of
\* its own, unless shipping failed, two outputs share the name, or the fetch of that one met a
\* fault.
THEOREM OutputsArrive == OutputsSpec => []OutputsArriveWhole
  <1>1. OutputsInv => OutputsArriveWhole
    <2> SUFFICES ASSUME OutputsInv, fetched.pc = "done", envelope # <<>>
                 PROVE  /\ Len(envelope) = OutputCount
                        /\ \A k \in 1 .. OutputCount :
                             declared[k].name \in PlainNames /\ ~SameName(k) /\ k \notin missed =>
                                LET got == collected[declared[k].name]
                                IN /\ {e.src : e \in got} = Wanted(declared[k].pattern)
                                   /\ \A e, f \in got : e # f => e.src # f.src /\ e.at # f.at
      BY DEF OutputsArriveWhole
    <2>1. Len(envelope) = OutputCount /\ fetched.at = OutputCount + 1
      BY DEF OutputsInv, ShipInv, EnvelopeInv, CollectInv
    <2>2. ASSUME NEW k \in 1 .. OutputCount, declared[k].name \in PlainNames, ~SameName(k),
                 k \notin missed, NEW got, got = collected[declared[k].name]
          PROVE  /\ {e.src : e \in got} = Wanted(declared[k].pattern)
                 /\ \A e, f \in got : e # f => e.src # f.src /\ e.at # f.at
      <3>1. got = Compress(GlobOutputs(declared[k].pattern))
        BY <2>1, <2>2, OutputsAssumption DEF OutputsInv, CollectInv, Archive
      <3>2. TreeIsWhole /\ declared[k].pattern.tree \in BOOLEAN
        BY OutputsAssumption DEF OutputsInv
      <3> QED
        BY <3>1, <3>2, ArchiveIsWanted
    <2> QED
      BY <2>1, <2>2
  <1> QED
    BY <1>1, OutputsInvariant, PTL
-----------------------------------------------------------------------------
(***************************************************************************)
(* The types of the three components, for every value of the constants.    *)
(***************************************************************************)
\* Every reachable state of the job and its watcher is within its types.
LEMMA JobTyped == JobSpec => []JobTypeOK
<1>1. JobInv => JobTypeOK
    BY DEF JobInv, WatcherTypeOK, WatcherType, RestTypeOK, JobTypeOK
<1> QED BY <1>1, InitJobInv, JobInvStep, PTL DEF JobSpec

\* Every reachable state of the output capture is within its types.
LEMMA CaptureTyped == CaptureSpec => []CaptureTypeOK
<1>1. CaptureInv => CaptureTypeOK
    BY DEF CaptureInv
<1> QED BY <1>1, CaptureInvariant, PTL

\* The entries of an archive: a place made of names, and two paths of the workdir.
LEMMA ArchiveIsTyped ==
  ASSUME TreeIsWhole, NEW pattern
  PROVE  Compress(GlobOutputs(pattern)) \in Archives
  <1> DEFINE matches == GlobOutputs(pattern)
  <1>1. matches \subseteq TreePaths
    BY MatchesAreTop
  <1> HIDE DEF matches
  <1>2. ASSUME NEW m \in matches, NEW q \in FilesBelow(m)
        PROVE  /\ q \in TreePaths /\ m \in TreePaths
               /\ ArchivedAs(q, m, matches) \in Seq(TopNames \cup SubNames)
    <2>1. /\ q \in TreePaths /\ m \in TreePaths /\ tree[q] = "file" /\ IsPrefix(m, q)
      BY <1>1 DEF FilesBelow
    <2>2. q # <<>>
      BY <2>1 DEF TreeIsWhole
    <2>3. /\ q \in Seq(TopNames \cup SubNames) /\ m \in Seq(TopNames \cup SubNames)
          /\ Len(q) \in 1 .. 2 /\ Len(m) \in 0 .. 2
      BY <2>1, <2>2, PathsAreSeqs DEF Names
    <2>4. <<Last(q)>> \in Seq(TopNames \cup SubNames)
      BY <2>3 DEF Last
    <2>5. SubSeq(q, Len(m) + 1, Len(q)) \in Seq(TopNames \cup SubNames)
      BY <2>3, SubSeqProperties
    <2> QED
      BY <2>1, <2>3, <2>4, <2>5 DEF ArchivedAs
  <1>3. ASSUME NEW e \in Compress(matches)
        PROVE  e \in [at: Seq(TopNames \cup SubNames), src: TreePaths, via: TreePaths]
    <2>1. PICK m \in matches : \E q \in FilesBelow(m) :
             e = [at |-> ArchivedAs(q, m, matches), src |-> q, via |-> m]
      BY CompressHas
    <2>2. PICK q \in FilesBelow(m) :
             e = [at |-> ArchivedAs(q, m, matches), src |-> q, via |-> m]
      BY <2>1
    <2> QED
      BY <1>2, <2>2
  <1> QED
    BY <1>3 DEF Archives, matches

\* What OutputsInv leaves open: the ranges of the counters and of what a part says it is.
OutputsBounded ==
    /\ shipped.part \in 0 .. PartLimit /\ fetched.part \in 0 .. PartLimit
    /\ \A n \in OutNames, i \in 0 .. PartLimit - 1 : parts[<<n, i>>].index \in {i, PartLimit}
    /\ shipFaults \in 0 .. MaxShipFaults

\* Every reachable state of the outputs is within those ranges.
LEMMA OutputsBoundedStep ==
  ASSUME OutputsInv, OutputsBounded, [OutputsNext]_outputVars
  PROVE  OutputsBounded'
  <1>1. CASE UNCHANGED outputVars
    BY <1>1 DEF outputVars, OutputsBounded
  <1>2. ASSUME ShipFails, UNCHANGED parts, shipFaults' \in 0 .. MaxShipFaults
        PROVE  OutputsBounded'
    BY <1>2 DEF ShipFails, OutputsBounded, OutputsInv, ShipInv, CollectInv
  <1>3. CASE SpoolOutput
    <2>1. ShipFails \/ (shipped'.part = 0 /\ UNCHANGED fetched)
      BY <1>3 DEF SpoolOutput, OutputsInv, ShipInv
    <2>2. UNCHANGED <<parts, shipFaults>>
      BY <1>3 DEF SpoolOutput
    <2>3. CASE ShipFails
      BY <1>2, <2>2, <2>3 DEF OutputsBounded
    <2>4. CASE shipped'.part = 0 /\ UNCHANGED fetched
      BY <2>2, <2>4, OutputsAssumption DEF OutputsBounded
    <2> QED
      BY <2>1, <2>3, <2>4
  <1>4. CASE PutOutputPart
    <2>1. CASE ShipFails /\ UNCHANGED parts /\ shipFaults < MaxShipFaults
               /\ shipFaults' = shipFaults + 1
      BY <1>2, <2>1, OutputsAssumption DEF OutputsBounded
    <2>2. ASSUME parts' = [parts EXCEPT ![<<declared[shipped.at].name, shipped.part>>] =
                                            [of |-> shipped.spool, index |-> shipped.part]],
                 shipped'.part \in {shipped.part, shipped.part + 1},
                 UNCHANGED <<fetched, shipFaults>>
          PROVE  OutputsBounded'
      <3>1. /\ shipped.part \in Nat /\ shipped.part < PartLimit
            /\ PartCount(shipped.spool) <= PartLimit /\ PartLimit \in Nat
        <4>1. shipped.part < PartCount(shipped.spool) /\ PartCount(shipped.spool) <= PartLimit
          BY <1>4 DEF PutOutputPart, OutputsInv, ShipInv
        <4>2. PartCount(shipped.spool) \in Nat
          BY <1>4, ArchivesCounted, OutputsAssumption DEF PutOutputPart, OutputsInv, ShipInv
        <4> QED
          BY <4>1, <4>2, OutputsAssumption DEF OutputsBounded
      <3>2. shipped'.part \in 0 .. PartLimit
        BY <2>2, <3>1
      <3>3. ASSUME NEW n \in OutNames, NEW i \in 0 .. PartLimit - 1
            PROVE  parts'[<<n, i>>].index \in {i, PartLimit}
        <4>1. <<n, i>> \in DOMAIN parts
          BY DEF OutputsInv
        <4>2. CASE <<n, i>> = <<declared[shipped.at].name, shipped.part>>
          BY <2>2, <4>1, <4>2
        <4>3. CASE <<n, i>> # <<declared[shipped.at].name, shipped.part>>
          BY <2>2, <4>1, <4>3 DEF OutputsBounded
        <4> QED
          BY <4>2, <4>3
      <3> QED
        BY <2>2, <3>2, <3>3 DEF OutputsBounded
    <2> QED
      BY <1>4, <2>1, <2>2 DEF PutOutputPart, OutputsInv, ShipInv
  <1>5. CASE WriteEnvelope
    BY <1>5 DEF WriteEnvelope, OutputsBounded, OutputsInv, ShipInv, CollectInv
  <1>6. CASE AdmitRecord
    BY <1>6, OutputsAssumption
    DEF AdmitRecord, NextRecord, OutputsBounded, OutputsInv, CollectInv
  <1>7. CASE FetchOutputPart
    <2>1. Record.parts <= PartLimit /\ Record.parts \in Nat
      <3>1. fetched.at \in 1 .. Len(envelope)
        BY <1>7, OutputsAssumption DEF FetchOutputPart, OutputsInv, CollectInv, EnvelopeInv
      <3>2. fetched.at \in 1 .. OutputCount
        BY <3>1, OutputsAssumption DEF OutputsInv, EnvelopeInv
      <3>3. Record = RecordOf(fetched.at) /\ PartCount(Archive(fetched.at)) <= PartLimit
        BY <3>1 DEF OutputsInv, EnvelopeInv, Record
      <3>4. PartCount(Archive(fetched.at)) \in Nat
        BY <3>2, ArchivesCounted
      <3> QED
        BY <3>3, <3>4 DEF RecordOf
    <2>2. fetched'.part \in 0 .. PartLimit
      <3>1. \/ fetched.part < Record.parts /\ fetched' = [fetched EXCEPT !.part = @ + 1]
            \/ fetched' = NextRecord
        BY <1>7 DEF FetchOutputPart
      <3> HIDE DEF Record
      <3>2. fetched.part \in Nat /\ (fetched' = [fetched EXCEPT !.part = @ + 1] =>
                                       fetched'.part = fetched.part + 1)
        BY DEF OutputsInv, CollectInv
      <3> QED
        BY <2>1, <3>1, <3>2, OutputsAssumption DEF NextRecord
    <2>3. shipFaults' \in 0 .. MaxShipFaults
      BY <1>7, OutputsAssumption DEF FetchOutputPart, OutputsBounded
    <2> QED
      BY <1>7, <2>2, <2>3 DEF FetchOutputPart, OutputsBounded
  <1>8. CASE CollectEnds
    BY <1>8 DEF CollectEnds, OutputsBounded, OutputsInv, CollectInv
  <1> QED
    BY <1>1, <1>3, <1>4, <1>5, <1>6, <1>7, <1>8 DEF OutputsNext

\* Every reachable state of the outputs is within its types.
LEMMA OutputsTyped == OutputsSpec => []OutputsTypeOK
  <1>1. OutputsInit => OutputsBounded
    <2> SUFFICES ASSUME OutputsInit PROVE OutputsBounded
      OBVIOUS
    <2>1. \A n \in OutNames, i \in 0 .. PartLimit - 1 : parts[<<n, i>>].index = PartLimit
      BY DEF OutputsInit, NoPart
    <2> QED
      BY <2>1, OutputsAssumption DEF OutputsInit, OutputsBounded
  <1>2. OutputsInv /\ OutputsBounded /\ [OutputsNext]_outputVars => OutputsBounded'
    BY OutputsBoundedStep
  <1>3. OutputsInv /\ OutputsBounded => OutputsTypeOK
    <2> SUFFICES ASSUME OutputsInv, OutputsBounded PROVE OutputsTypeOK
      OBVIOUS
    <2>1. shipped.spool \in Archives
      <3>1. ASSUME NEW k \in 1 .. OutputCount
            PROVE  Archive(k) \in Archives
        BY ArchiveIsTyped DEF Archive, OutputsInv
      <3>2. {} \in Archives
        BY DEF Archives
      <3> QED
        BY <3>1, <3>2 DEF OutputsInv, ShipInv, Spooled
    <2>2. Len(envelope) \in 0 .. OutputCount
      BY OutputsAssumption DEF OutputsInv, EnvelopeInv
    <2>3. missed \subseteq 1 .. OutputCount
      BY OutputsAssumption DEF OutputsInv, CollectInv
    <2>4. /\ shipped.pc \in {"glob", "put", "ended"} /\ shipped.at \in 1 .. OutputCount + 1
          /\ fetched.pc \in {"await", "admit", "fetch", "done"}
          /\ fetched.at \in 1 .. OutputCount + 1
      BY DEF OutputsInv, ShipInv, CollectInv
    <2>5. /\ tree \in [TreePaths -> {"none", "file", "dir"}]
          /\ declared \in [1 .. OutputCount -> [name: OutNames, pattern: Patterns]]
      BY DEF OutputsInv, TreeIsWhole
    <2> QED
      BY <2>1, <2>2, <2>3, <2>4, <2>5 DEF OutputsBounded, OutputsTypeOK
  <1> QED
    BY <1>1, <1>2, <1>3, OutputsInvariant, PTL DEF OutputsSpec
=============================================================================
