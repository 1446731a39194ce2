---------------------------- MODULE ServeTimers ----------------------------
(***************************************************************************)
(* The life of one `sf-agent serve` process (agent serve.rs): the deadman  *)
(* and max-duration timers against the requests that create execs, the     *)
(* graceful shutdown and the children it leaves. The two clocks are the    *)
(* facts that a timer compares: no request for SF_DEADMAN_SECS, and up for *)
(* SF_MAX_DURATION_SECS.                                                   *)
(***************************************************************************)
EXTENDS Naturals, FiniteSets

CONSTANTS
    MaxExecs,     \* MAX_EXECS, the permits of the semaphore
    ExecRequests      \* bound: POST /v1/exec requests, each creating at most one exec
ASSUME TimersAssumption == MaxExecs \in Nat \ {0} /\ IsFiniteSet(ExecRequests)

VARIABLES
    quiet,        \* last_contact is at least the deadman ago
    overdue,      \* the process is up for at least the max duration
    timer,        \* the timers task: asleep, with last_contact read, or returned
    server,       \* axum: not yet polled, accepting, draining, gone; then the process
    execRequest,      \* place of each request that creates an exec
    exec,         \* the child of each request
    execTable,      \* execs in the table
    cause,        \* why the server shuts down
    touched       \* requests authenticated since the timers task last read last_contact

timersVars == <<quiet, overdue, timer, server, execRequest, exec, execTable, cause, touched>>

TimersTypeOK ==
    /\ quiet \in BOOLEAN /\ overdue \in BOOLEAN
    /\ timer \in {"sleep", "looked", "returned"}
    /\ server \in {"binding", "accepting", "draining", "served", "exited"}
    /\ execRequest \in [ExecRequests -> {"unsent", "sent", "admitted", "spawned", "created", "refused"}]
    /\ exec \in [ExecRequests -> {"none", "running", "termed", "ended"}]
    /\ execTable \subseteq ExecRequests
    /\ cause \in {"none", "deadman", "max duration", "asked", "SIGTERM"}
    /\ touched \subseteq ExecRequests

TimersInit ==
    /\ quiet = FALSE /\ overdue = FALSE
    /\ timer = "sleep" /\ server = "binding"
    /\ execRequest = [r \in ExecRequests |-> "unsent"]
    /\ exec = [r \in ExecRequests |-> "none"]
    /\ execTable = {} /\ cause = "none" /\ touched = {}
-----------------------------------------------------------------------------
\* A permit is taken before the spawn and given back after the exec is set as exited; a
\* dropped handler gives it back too.
Permits == {r \in ExecRequests : \/ execRequest[r] \in {"admitted", "spawned"}
                                 \/ execRequest[r] = "created" /\ exec[r] \in {"running", "termed"}}

\* Nothing arrives for the deadman. A request is answered, or cut off by the gateway,
\* long before that.
Silence ==
    /\ server \in {"binding", "accepting"} /\ ~quiet
    /\ \A r \in ExecRequests : execRequest[r] \notin {"sent", "admitted", "spawned"}
    /\ quiet' = TRUE
    /\ UNCHANGED <<overdue, timer, server, execRequest, exec, execTable, cause, touched>>

MaxDurationPasses ==
    /\ ~overdue /\ overdue' = TRUE
    /\ UNCHANGED <<quiet, timer, server, execRequest, exec, execTable, cause, touched>>

\* axum polls shutdown_future, which then hears every notify_waiters. The first tick of
\* the timers is a second later.
Accept ==
    /\ server = "binding"
    /\ server' = "accepting"
    /\ UNCHANGED <<quiet, overdue, timer, execRequest, exec, execTable, cause, touched>>

\* The shutdown has a cause from here on; only the first one counts.
ShutDown(why) ==
    /\ server' = IF server = "accepting" THEN "draining" ELSE server
    /\ cause' = IF server = "accepting" THEN why ELSE cause
-----------------------------------------------------------------------------
(***************************************************************************)
(* run_timers.                                                             *)
(***************************************************************************)
MaxDurationFiresIdle ==                         \* mutant: not while an exec runs
    /\ timer = "sleep" /\ server # "binding" /\ overdue /\ Permits = {}
    /\ ShutDown("max duration")
    /\ timer' = "returned"
    /\ UNCHANGED <<quiet, overdue, execRequest, exec, execTable, touched>>
MaxDurationFires ==
    /\ timer = "sleep" /\ server # "binding" /\ overdue
    /\ ShutDown("max duration")
    /\ timer' = "returned"
    /\ UNCHANGED <<quiet, overdue, execRequest, exec, execTable, touched>>

ReadLastContact ==
    /\ timer = "sleep" /\ server # "binding" /\ ~overdue /\ quiet
    /\ timer' = "looked"
    /\ touched' = {}
    /\ UNCHANGED <<quiet, overdue, server, execRequest, exec, execTable, cause>>

SilenceIsEnough == TRUE                         \* mutant: execs do not matter
NoExecs == Permits = {}

DeadmanOrSleep ==
    /\ timer = "looked"
    /\ \/ NoExecs /\ ShutDown("deadman") /\ timer' = "returned"
       \/ ~NoExecs /\ timer' = "sleep" /\ UNCHANGED <<server, cause>>
    /\ UNCHANGED <<quiet, overdue, execRequest, exec, execTable, touched>>

\* POST /v1/shutdown, or the platform: neither goes through the timers, and the timers
\* task returns when it hears it.
ToldToStop ==
    /\ server = "accepting"
    /\ \/ /\ ShutDown("asked") /\ quiet' = FALSE
          /\ timer' \in IF timer = "sleep" THEN {"sleep", "returned"} ELSE {timer}
       \/ ShutDown("SIGTERM") /\ UNCHANGED <<timer, quiet>>
    /\ UNCHANGED <<overdue, execRequest, exec, execTable, touched>>
-----------------------------------------------------------------------------
(***************************************************************************)
(* POST /v1/exec: auth_mw, then exec_create.                               *)
(***************************************************************************)
Go(r, pc) == execRequest' = [execRequest EXCEPT ![r] = pc]

Authenticate(r) ==
    /\ execRequest[r] = "unsent" /\ server = "accepting"
    /\ quiet' = FALSE
    /\ touched' = touched \cup {r}
    /\ Go(r, "sent")
    /\ UNCHANGED <<overdue, timer, server, exec, execTable, cause>>

Admit(r) ==
    /\ execRequest[r] = "sent"
    /\ Go(r, IF Cardinality(Permits) < MaxExecs THEN "admitted" ELSE "refused")
    /\ UNCHANGED <<quiet, overdue, timer, server, exec, execTable, cause, touched>>

\* The program may not start.
Spawn(r) ==
    /\ execRequest[r] = "admitted"
    /\ \/ Go(r, "spawned") /\ exec' = [exec EXCEPT ![r] = "running"]
       \/ Go(r, "refused") /\ UNCHANGED exec
    /\ UNCHANGED <<quiet, overdue, timer, server, execTable, cause, touched>>

InsertExec(r) ==
    /\ execRequest[r] = "spawned"
    /\ Go(r, "created")
    /\ execTable' = execTable \cup {r}
    /\ UNCHANGED <<quiet, overdue, timer, server, exec, cause, touched>>

\* The connection is gone while the handler waits for the table: it is dropped, and the
\* child goes on without a supervisor.
HandlerDropped(r) ==
    /\ execRequest[r] = "spawned"
    /\ Go(r, "refused")
    /\ UNCHANGED <<quiet, overdue, timer, server, exec, execTable, cause, touched>>

ExecEnds(r) ==
    /\ exec[r] \in {"running", "termed"} /\ execRequest[r] # "spawned"
    /\ exec' = [exec EXCEPT ![r] = "ended"]
    /\ UNCHANGED <<quiet, overdue, timer, server, execRequest, execTable, cause, touched>>

Forget(r) ==                                    \* prune
    /\ r \in execTable /\ exec[r] = "ended"
    /\ execTable' = execTable \ {r}
    /\ UNCHANGED <<quiet, overdue, timer, server, execRequest, exec, cause, touched>>
-----------------------------------------------------------------------------
\* Graceful shutdown ends when no handler is at work; then the children are signalled.
ShutdownDrained == \A r \in ExecRequests : execRequest[r] \notin {"sent", "admitted", "spawned"}

ServeReturns ==
    /\ server = "draining" /\ ShutdownDrained
    /\ server' = "served"
    /\ UNCHANGED <<quiet, overdue, timer, execRequest, exec, execTable, cause, touched>>

TerminateChildren ==
    /\ server = "served"
    /\ exec' = [r \in ExecRequests |->
                  IF r \in execTable /\ exec[r] = "running" THEN "termed" ELSE exec[r]]
    /\ server' = "exited"
    /\ UNCHANGED <<quiet, overdue, timer, execRequest, execTable, cause, touched>>
-----------------------------------------------------------------------------
TimersTask == MaxDurationFires \/ ReadLastContact \/ DeadmanOrSleep
Handler == \E r \in ExecRequests : Admit(r) \/ Spawn(r) \/ InsertExec(r)
ServerTask == Accept \/ ServeReturns \/ TerminateChildren

TimersNext ==
    \/ Silence \/ MaxDurationPasses \/ ToldToStop
    \/ TimersTask \/ Handler \/ ServerTask
    \/ \E r \in ExecRequests : Authenticate(r) \/ HandlerDropped(r) \/ ExecEnds(r) \/ Forget(r)

TimersSpec == TimersInit /\ [][TimersNext]_timersVars
TimersFairness ==
    WF_timersVars(TimersTask) /\ WF_timersVars(Handler) /\ WF_timersVars(ServerTask)
TimersFairSpec == TimersSpec /\ TimersFairness
-----------------------------------------------------------------------------
\* The deadman takes no running work down, except that of a request that came in after the
\* timers had read last_contact, or of a handler whose client had gone.
DeadmanSparesWork ==
    cause = "deadman" =>
        \A r \in ExecRequests :
            exec[r] \in {"running", "termed"} => r \in touched \/ execRequest[r] = "refused"

\* Every exec that was announced to its client is over or has been told to end when the
\* server process exits.
NoChildForgotten ==
    server = "exited" => \A r \in ExecRequests : execRequest[r] = "created" => exec[r] # "running"

\* "max-duration" is unconditional: with execs running or not, the process exits.
MaxDurationEnds == overdue ~> (server = "exited")
\* What the timers and the shutdown may do to the children of serve.rs.
ChildrenAreKept == DeadmanSparesWork /\ NoChildForgotten
=============================================================================
