----------------------------- MODULE ServeExec -----------------------------
(***************************************************************************)
(* One exec session of `sf-agent serve` (agent serve.rs) and the           *)
(* `session exec` that follows it (cli session.rs): the child with its two *)
(* pipes, a pump per pipe, the supervising task, the long-polling handler  *)
(* and the client's cursor. A lock is held for one step; whatever happens  *)
(* between two locks is a step boundary.                                   *)
(***************************************************************************)
EXTENDS OutputRing

CONSTANTS
    MaxBytes,     \* bound: bytes the child writes
    PumpBuf       \* PUMP_BUF, the most one read returns
ASSUME ExecAssumption == MaxBytes \in Nat /\ PumpBuf \in Nat \ {0}

VARIABLES
    child,        \* "running", then how it ended
    orphan,       \* a grandchild that inherited the pipes is alive
    pipe,         \* bytes written and not yet read, per stream
    written,      \* bytes ever written, per stream
    pump,         \* place of each pump: at the read, before notify_waiters, at its end
    ring,
    sup,          \* place of the supervising task
    state,        \* ExecState: "running", then how the child ended
    listed,       \* the exec is still in the table
    poll,         \* the handler of one GET /output, and what it has locked and seen
    follow        \* the client: place, cursor, bytes shown, warned, exit code

execVars == <<child, orphan, pipe, written, pump, ring, sup, state, listed, poll, follow>>
childVars == <<child, orphan, pipe, written>>

Ends == {"code 0", "code 1", "signal"}
NoPoll == [pc |-> "none", woken |-> FALSE, exited |-> "running", seen |-> 0]
Poll == [pc: {"none", "state", "ring", "wait", "state again", "ring again"},
         woken: BOOLEAN, exited: Ends \cup {"running"}, seen: Nat]
Follow == [pc: {"ask", "waiting", "done", "failed"}, cursor: Nat, shown: [Streams -> Nat],
           skipped: Nat, warned: BOOLEAN, code: {"none", "0", "1"}]

ExecTypeOK ==
    /\ child \in Ends \cup {"running"} /\ orphan \in BOOLEAN
    /\ pipe \in [Streams -> 0 .. MaxBytes] /\ written \in [Streams -> 0 .. MaxBytes]
    /\ pump \in [Streams -> {"read", "notify", "eof"}]
    /\ WellFormed(ring)
    /\ sup \in {"wait", "drain", "notify", "done"}
    /\ state \in Ends \cup {"running"} /\ listed \in BOOLEAN
    /\ poll \in Poll
    /\ follow \in Follow

\* exec_create, and `session exec` at its first poll.
ExecInit ==
    /\ child = "running" /\ orphan = FALSE
    /\ pipe = [s \in Streams |-> 0] /\ written = [s \in Streams |-> 0]
    /\ pump = [s \in Streams |-> "read"]
    /\ ring = NewRing
    /\ sup = "wait" /\ state = "running" /\ listed = TRUE
    /\ poll = NoPoll
    /\ follow = [pc |-> "ask", cursor |-> 0, shown |-> [s \in Streams |-> 0],
                 skipped |-> 0, warned |-> FALSE, code |-> "none"]
-----------------------------------------------------------------------------
(***************************************************************************)
(* The child and what it leaves behind.                                    *)
(***************************************************************************)
Write(s) ==
    /\ child = "running" \/ orphan
    /\ written["stdout"] + written["stderr"] < MaxBytes
    /\ written' = [written EXCEPT ![s] = @ + 1]
    /\ pipe' = [pipe EXCEPT ![s] = @ + 1]
    /\ UNCHANGED <<child, orphan, pump, ring, sup, state, listed, poll, follow>>

Fork ==
    /\ child = "running"
    /\ orphan' = TRUE
    /\ UNCHANGED <<child, pipe, written, pump, ring, sup, state, listed, poll, follow>>

\* By itself, or by exec_signal, terminate_children or the OOM killer.
ChildEnds(how) ==
    /\ child = "running"
    /\ child' = how
    /\ UNCHANGED <<orphan, pipe, written, pump, ring, sup, state, listed, poll, follow>>

OrphanEnds ==
    /\ child # "running" /\ orphan
    /\ orphan' = FALSE
    /\ UNCHANGED <<child, pipe, written, pump, ring, sup, state, listed, poll, follow>>
-----------------------------------------------------------------------------
(***************************************************************************)
(* The pumps and the supervising task.                                     *)
(***************************************************************************)
NotifySleeping ==                               \* mutant: only who sleeps already is woken
    poll' = [poll EXCEPT !.woken = (poll.pc = "wait")]
NotifyWaiters == poll' = [poll EXCEPT !.woken = (poll.pc # "none")]

PumpRead(s) ==
    /\ pump[s] = "read"
    /\ \E n \in 1 .. PumpBuf :
          /\ n <= pipe[s]
          /\ ring' = Push(ring, s, n)
          /\ pipe' = [pipe EXCEPT ![s] = @ - n]
    /\ pump' = [pump EXCEPT ![s] = "notify"]
    /\ UNCHANGED <<child, orphan, written, sup, state, listed, poll, follow>>

PumpNotify(s) ==
    /\ pump[s] = "notify"
    /\ NotifyWaiters
    /\ pump' = [pump EXCEPT ![s] = "read"]
    /\ UNCHANGED <<childVars, ring, sup, state, listed, follow>>

PumpEof(s) ==
    /\ pump[s] = "read" /\ pipe[s] = 0
    /\ child # "running" /\ ~orphan
    /\ pump' = [pump EXCEPT ![s] = "eof"]
    /\ UNCHANGED <<childVars, ring, sup, state, listed, poll, follow>>

Reap ==
    /\ sup = "wait" /\ child # "running"
    /\ sup' = "drain"
    /\ UNCHANGED <<childVars, pump, ring, state, listed, poll, follow>>

DrainedStdout == pump["stdout"] = "eof"         \* mutant: only one pump is awaited
Drained == \A s \in Streams : pump[s] = "eof"

SetExited ==
    /\ sup = "drain" /\ Drained
    /\ state' = child
    /\ sup' = "notify"
    /\ UNCHANGED <<childVars, pump, ring, listed, poll, follow>>

\* Wakes the pollers and gives the permit back.
NotifyExited ==
    /\ sup = "notify"
    /\ NotifyWaiters
    /\ sup' = "done"
    /\ UNCHANGED <<childVars, pump, ring, state, listed, follow>>

\* The timers drop it from the table: too old, or too many have exited. A handler that
\* has the exec already keeps it.
Prune ==
    /\ state # "running" /\ listed
    /\ listed' = FALSE
    /\ UNCHANGED <<childVars, pump, ring, sup, state, poll, follow>>
-----------------------------------------------------------------------------
(***************************************************************************)
(* GET /v1/exec/{id}/output and the client that sends it.                  *)
(***************************************************************************)
Ask ==
    /\ follow.pc = "ask" /\ listed
    /\ follow' = [follow EXCEPT !.pc = "waiting"]
    /\ poll' = [NoPoll EXCEPT !.pc = "state"]
    /\ UNCHANGED <<childVars, pump, ring, sup, state, listed>>

AskTooLate ==                                   \* 404: pruned
    /\ follow.pc = "ask" /\ ~listed
    /\ follow' = [follow EXCEPT !.pc = "failed"]
    /\ UNCHANGED <<childVars, pump, ring, sup, state, listed, poll>>

\* read_page, first lock: is it over?
ReadState ==
    /\ \/ poll.pc = "state" /\ poll' = [poll EXCEPT !.exited = state, !.pc = "ring"]
       \/ poll.pc = "state again" /\ poll' = [poll EXCEPT !.exited = state, !.pc = "ring again"]
    /\ UNCHANGED <<childVars, pump, ring, sup, state, listed, follow>>

\* The page reaches the client, which prints it and moves its cursor.
Shown(page) == [s \in Streams |-> follow.shown[s] + page.bytes[s]]

ExitCode(how) == IF how = "code 1" THEN "1" ELSE "0"

Reply(page) ==
    /\ poll' = NoPoll
    /\ follow' =
         [follow EXCEPT
            !.shown = Shown(page),
            !.skipped = IF page.truncated THEN @ + (ring.base - follow.cursor) ELSE @,
            !.warned = @ \/ page.truncated,
            !.cursor = page.next,
            !.pc = IF poll.exited = "running" THEN "ask" ELSE "done",
            !.code = IF poll.exited = "running" THEN @ ELSE ExitCode(poll.exited)]

\* read_page, second lock: everything past the cursor. The first page is returned when it
\* says something; else the handler waits.
ReadRing ==
    /\ poll.pc = "ring"
    /\ LET page == ReadFrom(ring, follow.cursor) IN
       IF (\E s \in Streams : page.bytes[s] > 0) \/ poll.exited # "running"
       THEN Reply(page)
       ELSE /\ poll' = [poll EXCEPT !.pc = "wait", !.seen = ring.total]
            /\ UNCHANGED follow
    /\ UNCHANGED <<childVars, pump, ring, sup, state, listed>>

Woken ==
    /\ poll.pc = "wait" /\ poll.woken
    /\ poll' = [poll EXCEPT !.pc = "state again"]
    /\ UNCHANGED <<childVars, pump, ring, sup, state, listed, follow>>

WaitOver ==                                     \* wait_ms
    /\ poll.pc = "wait"
    /\ poll' = [poll EXCEPT !.pc = "state again"]
    /\ UNCHANGED <<childVars, pump, ring, sup, state, listed, follow>>

ReadRingAgain ==
    /\ poll.pc = "ring again"
    /\ Reply(ReadFrom(ring, follow.cursor))
    /\ UNCHANGED <<childVars, pump, ring, sup, state, listed>>

\* The request or its answer is lost: `session exec` gives up at once.
PollLost ==
    /\ follow.pc = "waiting"
    /\ follow' = [follow EXCEPT !.pc = "failed"]
    /\ poll' = NoPoll
    /\ UNCHANGED <<childVars, pump, ring, sup, state, listed>>

\* exec_capture follows the same way, but not for ever: after eight pages it leaves the exec
\* to itself, running.
GiveUp ==
    /\ follow.pc = "ask"
    /\ follow' = [follow EXCEPT !.pc = "failed"]
    /\ UNCHANGED <<childVars, pump, ring, sup, state, listed, poll>>
-----------------------------------------------------------------------------
Supervise ==
    \/ \E s \in Streams : PumpRead(s) \/ PumpNotify(s) \/ PumpEof(s)
    \/ Reap \/ SetExited \/ NotifyExited

Handle == Ask \/ AskTooLate \/ ReadState \/ ReadRing \/ Woken \/ ReadRingAgain

ExecNext ==
    \/ \E s \in Streams : Write(s)
    \/ Fork \/ OrphanEnds \/ \E how \in Ends : ChildEnds(how)
    \/ Supervise \/ Handle
    \/ Prune \/ WaitOver \/ PollLost \/ GiveUp

ExecSpec == ExecInit /\ [][ExecNext]_execVars
ExecFairness == WF_execVars(Supervise) /\ WF_execVars(Handle)
ExecFairSpec == ExecSpec /\ ExecFairness
-----------------------------------------------------------------------------
\* `exited: true` implies that the ring has seen the complete output: whoever has locked
\* the state as exited will read all of it (serve.rs read_page).
ExitedIsComplete ==
    \A s \in Streams :
        (state # "running" \/ poll.exited # "running") => pump[s] = "eof" /\ pipe[s] = 0

\* A client that was told `exited` and never warned of skipped bytes has printed every
\* byte of both streams, each once; with a warning the gap is all that is missing.
FollowerSeesAll ==
    follow.pc = "done" =>
        /\ follow.shown["stdout"] + follow.shown["stderr"] + follow.skipped
              = written["stdout"] + written["stderr"]
        /\ ~follow.warned => follow.shown = written

\* The follower of an exec that ended, and left nobody on its pipes, comes to an end
\* without the timeout of a poll.
FollowEnds ==
    (child # "running" /\ ~orphan) ~> (follow.pc \in {"done", "failed"})
=============================================================================
