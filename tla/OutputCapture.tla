---------------------------- MODULE OutputCapture ----------------------------
(***************************************************************************)
(* The copy of a run's output that the agent uploads as log.txt (agent     *)
(* run.rs): a pump reads the child's pipe, mirrors each chunk and pushes   *)
(* it into the Capture, a file that keeps the first bytes and a ring that  *)
(* keeps the last. The file is tokio's: a write is done behind             *)
(* the caller's back, and its error comes out of the next call.            *)
(***************************************************************************)
EXTENDS Naturals, Sequences, SequencesExt

CONSTANTS HeadCap, TailCap,   \* CAPTURE_HEAD_BYTES, CAPTURE_TAIL_BYTES
          Buf,                \* the pump's buffer
          MaxOutput           \* bound: bytes the child writes
ASSUME CaptureAssumption ==
    {HeadCap, TailCap, Buf, MaxOutput} \subseteq Nat /\ TailCap > 0 /\ Buf > 0

VARIABLES
    wrote,      \* bytes written to the pipe, numbered from 1
    tee,       \* running, or aborted; and the bytes it has read and not pushed
    pushed,     \* how many bytes have been handed to push()
    holders,    \* who holds the pipe's write end
    capture,    \* head_left, tail, dropped, failed
    file,       \* what is on disk: bytes and markers
    lateError,  \* an error the next call on the file returns
    disk,       \* is there room on it?
    final,      \* finish_capture: where it is, and whether the path was returned
    logObject   \* log.txt in the object store

captureVars == <<wrote, tee, pushed, holders, capture, file, lateError, disk, final, logObject>>

Marker == 0             \* "... dropped from the middle", "... stopped early"
Bytes == 1 .. MaxOutput

CaptureTypeOK ==
    /\ wrote \in 0 .. MaxOutput /\ pushed \in 0 .. wrote
    /\ tee.live \in BOOLEAN /\ tee.chunk \in Seq(Bytes) /\ Len(tee.chunk) <= Buf
    /\ holders \in {"child", "stray", "nobody"}
    /\ capture.headLeft \in 0 .. HeadCap /\ capture.dropped \in Nat
    /\ capture.tail \in Seq(Bytes) /\ Len(capture.tail) <= TailCap /\ capture.failed \in BOOLEAN
    /\ file \in Seq(Bytes \cup {Marker})
    /\ lateError \in BOOLEAN /\ disk \in {"room", "full"}
    /\ final \in {"draining", "marker", "tail", "flush", "log", "noLog", "shipped"}
    /\ logObject.there \in BOOLEAN /\ logObject.bytes \in Seq(Bytes \cup {Marker})

CaptureInit ==
    /\ wrote = 0 /\ tee = [live |-> TRUE, chunk |-> <<>>] /\ pushed = 0
    /\ holders = "child"
    /\ capture = [headLeft |-> HeadCap, tail |-> <<>>, dropped |-> 0, failed |-> FALSE]
    /\ file = <<>> /\ lateError = FALSE /\ disk = "room" /\ final = "draining"
    /\ logObject = [there |-> FALSE, bytes |-> <<>>]
-----------------------------------------------------------------------------
(***************************************************************************)
(* The child, and a process it leaves behind with the pipe in hand.        *)
(***************************************************************************)
ChildWrites ==
    /\ holders # "nobody" /\ wrote < MaxOutput
    /\ wrote' = wrote + 1
    /\ UNCHANGED <<tee, pushed, holders, capture, file, lateError, disk, final, logObject>>

Release ==
    /\ \/ holders = "child" /\ holders' \in {"stray", "nobody"}
       \/ holders = "stray" /\ holders' = "nobody"
    /\ UNCHANGED <<wrote, tee, pushed, capture, file, lateError, disk, final, logObject>>
-----------------------------------------------------------------------------
(***************************************************************************)
(* One write_all: it returns the error of the write before it, or takes    *)
(* the items, of which a full disk keeps only some.                        *)
(***************************************************************************)
WriteAll(items) ==
    \/ /\ ~lateError
       /\ file' = file \o items
       /\ disk = "room"
       /\ UNCHANGED <<lateError, disk>>
    \/ /\ ~lateError /\ items # <<>>
       /\ \E n \in 0 .. Len(items) - 1 :
            file' = file \o (IF disk = "room" THEN SubSeq(items, 1, n) ELSE <<>>)
       /\ lateError' = TRUE /\ disk' = "full"
WriteErrs == lateError /\ lateError' = FALSE /\ UNCHANGED <<file, disk>>

DiskFrees ==
    /\ disk = "full" /\ disk' = "room"
    /\ UNCHANGED <<wrote, tee, pushed, holders, capture, file, lateError, final, logObject>>

Pending == [i \in 1 .. (wrote - pushed) |-> pushed + i]

TeeRead ==
    /\ tee.live /\ tee.chunk = <<>> /\ wrote > pushed
    /\ \E n \in 1 .. Buf :
         /\ n <= wrote - pushed
         /\ tee' = [tee EXCEPT !.chunk = SubSeq(Pending, 1, n)]
    /\ UNCHANGED <<wrote, pushed, holders, capture, file, lateError, disk, final, logObject>>

ToRing(c, bytes) ==
    LET all == c.tail \o bytes
        extra == IF Len(all) > TailCap THEN Len(all) - TailCap ELSE 0
    IN [c EXCEPT !.tail = SubSeq(all, extra + 1, Len(all)), !.dropped = @ + extra]

NoteFailure(c) == [c EXCEPT !.failed = TRUE]

\* Capture::push: nothing once failed; to the file while head is left, the rest to the ring.
CapturePush ==
    /\ tee.live /\ tee.chunk # <<>>
    /\ LET n == IF Len(tee.chunk) < capture.headLeft THEN Len(tee.chunk) ELSE capture.headLeft
       IN \/ /\ capture.failed
             /\ UNCHANGED <<capture, file, lateError, disk>>
          \/ /\ ~capture.failed /\ n = 0
             /\ capture' = ToRing(capture, tee.chunk)
             /\ UNCHANGED <<file, lateError, disk>>
          \/ /\ ~capture.failed /\ n > 0
             /\ WriteAll(SubSeq(tee.chunk, 1, n))
             /\ capture' = ToRing([capture EXCEPT !.headLeft = @ - n],
                                  SubSeq(tee.chunk, n + 1, Len(tee.chunk)))
          \/ /\ ~capture.failed /\ n > 0
             /\ WriteErrs
             /\ capture' = NoteFailure(capture)
    /\ pushed' = pushed + Len(tee.chunk)
    /\ tee' = [tee EXCEPT !.chunk = <<>>]
    /\ UNCHANGED <<wrote, holders, final, logObject>>
-----------------------------------------------------------------------------
(***************************************************************************)
(* finish_capture: the pump has seen the end, or DRAIN_GRACE is over.      *)
(***************************************************************************)
BeginFinish == IF capture.failed \/ (capture.tail # <<>> /\ capture.dropped > 0) THEN "marker"
               ELSE IF capture.tail # <<>> THEN "tail" ELSE "flush"

AllRead ==
    /\ final = "draining" /\ holders = "nobody"
    /\ tee.live /\ tee.chunk = <<>> /\ pushed = wrote
    /\ final' = BeginFinish
    /\ UNCHANGED <<wrote, tee, pushed, holders, capture, file, lateError, disk, logObject>>

\* The pump is aborted wherever it is: what it has read and not pushed is in no log.
DrainGrace ==
    /\ final = "draining" /\ holders = "stray"
    /\ tee' = [live |-> FALSE, chunk |-> <<>>]
    /\ final' = BeginFinish
    /\ UNCHANGED <<wrote, pushed, holders, capture, file, lateError, disk, logObject>>

\* The marker's error is ignored when it reports a failure, and ends it when it does not.
FinishMarker ==
    /\ final = "marker"
    /\ \/ WriteAll(<<Marker>>)
          /\ final' = IF capture.failed THEN "flush" ELSE "tail"
       \/ WriteErrs /\ final' = IF capture.failed THEN "flush" ELSE "noLog"
    /\ UNCHANGED <<wrote, tee, pushed, holders, capture, logObject>>

FinishTail ==
    /\ final = "tail"
    /\ \/ WriteAll(capture.tail) /\ final' = "flush"
       \/ WriteErrs /\ final' = "noLog"
    /\ UNCHANGED <<wrote, tee, pushed, holders, capture, logObject>>

FinishUnflushed == final' = "log" /\ UNCHANGED lateError    \* mutant: sync what was handed over
FinishFlush == final' = (IF lateError THEN "noLog" ELSE "log") /\ lateError' = FALSE
Flush ==
    /\ final = "flush"
    /\ FinishFlush
    /\ UNCHANGED <<wrote, tee, pushed, holders, capture, file, disk, logObject>>

\* upload_log: one attempt, whose failure is a warning; it may have been served all the same.
UploadLog ==
    /\ final = "log"
    /\ logObject' \in {logObject, [there |-> TRUE, bytes |-> file]}
    /\ final' = "shipped"
    /\ UNCHANGED <<wrote, tee, pushed, holders, capture, file, lateError, disk>>

\* What `logs --uploaded` prints: the object as it is, or nothing but an error.
LogsUploaded == IF logObject.there THEN {logObject.bytes} ELSE {}
-----------------------------------------------------------------------------
CaptureNext ==
    \/ ChildWrites \/ Release \/ DiskFrees \/ TeeRead \/ CapturePush
    \/ AllRead \/ DrainGrace \/ FinishMarker \/ FinishTail \/ Flush \/ UploadLog

CaptureSpec == CaptureInit /\ [][CaptureNext]_captureVars
-----------------------------------------------------------------------------
\* A log that `logs --uploaded` prints says where something is missing: from one byte to the
\* next nothing was left out unless a marker stands between them, and it ends with the last
\* byte that was read unless a marker says that capturing stopped ("never let it read as a
\* run that simply went quiet").
LogOwnsUpToGaps ==
    \A text \in LogsUploaded :
        /\ text = <<>> => pushed = 0
        /\ \A i \in DOMAIN text :
             text[i] # Marker =>
                /\ i = 1 => text[i] = 1
                /\ i > 1 => text[i - 1] \in {Marker, text[i] - 1}
                /\ i = Len(text) => text[i] = pushed
=============================================================================
