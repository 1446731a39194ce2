------------------------------ MODULE Autostop ------------------------------
(***************************************************************************)
(* A deployed service: the app in its container, the reverse proxy of      *)
(* `sf-agent serve --proxy` in front of it (agent proxy.rs), and the       *)
(* commands of cli serve.rs: `up`, which creates it, the watchdog          *)
(* `autostop`, which polls the proxy's idle time and stops the group, and  *)
(* `down`, `resume` and `rm`. Each command is its own process with its own *)
(* copy of the state file. The platform relaunches a container that ends,  *)
(* and bills on (docs/serve.md): only a stop or a delete of the group ends *)
(* the bill. Time is two facts of the container there is: nothing has      *)
(* passed through it for the idle timeout, and last_proxied is that old.   *)
(***************************************************************************)
EXTENDS Naturals

CONSTANT MaxServeFaults   \* bound: requests of the watchdog that fail or stall
ASSUME AutostopAssumption == MaxServeFaults \in Nat

VARIABLES
    service,      \* the group: only a live one has a container, and bills
    up,           \* `serve up`: its place and the status it is about to save
    command,      \* what is left of a `down`, `resume` or `rm` under way
    app,          \* the supervised child
    proxy,        \* axum: graceful shutdown not yet polled, serving, draining, exited
    permit,       \* what the shutdown Notify remembers
    client,       \* one end user's request
    still,        \* no traffic in this container for the idle timeout
    aged,         \* last_proxied is at least the idle timeout ago
    watch,        \* the watchdog: its place in the loop
    mark,         \* RunState.status
    passed,       \* traffic since the watchdog last got an answer
    serveFaults

theBox == <<app, proxy, permit, client>>
theClock == <<still, aged, passed>>
serveVars == <<service, up, command, theBox, theClock, watch, mark, serveFaults>>

AutostopTypeOK ==
    /\ service \in {"absent", "pending", "live", "stopped", "gone"}
    /\ up \in [pc: {"create", "save", "poll", "undo", "fail", "ready", "mark", "done"},
               says: {"creating", "running", "starting"}]
    /\ command \in {"none", "downMark", "resumeMark", "rmForget"}
    /\ app \in {"up", "dead"} /\ proxy \in {"starting", "serving", "draining", "exited"}
    /\ permit \in BOOLEAN
    /\ client \in {"none", "body", "upstream", "stream"}
    /\ still \in BOOLEAN /\ aged \in BOOLEAN
    /\ watch \in {"off", "gateway", "ask", "stalled", "stop", "mark", "done"}
    /\ mark \in {"none", "creating", "running", "starting", "failed", "stopped"}
    /\ passed \in BOOLEAN
    /\ serveFaults \in 0 .. MaxServeFaults

AutostopInit ==
    /\ service = "absent" /\ up = [pc |-> "create", says |-> "creating"] /\ command = "none"
    /\ app = "dead" /\ proxy = "exited" /\ permit = FALSE
    /\ client = "none" /\ still = FALSE /\ aged = FALSE
    /\ watch = "off"
    /\ mark = "none" /\ passed = FALSE /\ serveFaults = 0

theCommands == <<up, command, watch, mark>>
-----------------------------------------------------------------------------
(***************************************************************************)
(* proxy.rs: a request through the proxy. Whatever comes from the gateway  *)
(* or goes to it is traffic; only touch() sets last_proxied.               *)
(***************************************************************************)
Traffic == still' = FALSE /\ passed' = TRUE
Touch == aged' = FALSE
Untouched == UNCHANGED aged                     \* mutant: stamped at request start only
TouchChunk == Touch

Request ==
    /\ client = "none" /\ proxy = "serving" /\ service = "live"
    /\ client' = "body"
    /\ Traffic /\ Touch
    /\ UNCHANGED <<service, app, proxy, permit, theCommands, serveFaults>>

\* The body is read to its end and sent on. What arrives of it meanwhile is not stamped.
Forward ==
    /\ client = "body"
    /\ client' = IF app = "up" THEN "upstream" ELSE "none"      \* 502
    /\ UNCHANGED <<service, app, proxy, permit, theClock, theCommands, serveFaults>>

StreamChunk ==
    /\ client \in {"upstream", "stream"} /\ app = "up" /\ proxy # "exited"
    /\ client' = "stream"
    /\ Traffic /\ TouchChunk
    /\ UNCHANGED <<service, app, proxy, permit, theCommands, serveFaults>>

\* The answer is complete, the client has gone, or the app has closed its side.
RequestEnds ==
    /\ client # "none"
    /\ client' = "none"
    /\ UNCHANGED <<service, app, proxy, permit, theClock, theCommands, serveFaults>>

\* Not while a request body arrives: the gateway cuts that off long before.
IdleTimeoutPasses ==
    /\ client # "body"
    /\ ~(still /\ aged)
    /\ still' = TRUE /\ aged' = TRUE
    /\ UNCHANGED <<service, theBox, theCommands, passed, serveFaults>>
-----------------------------------------------------------------------------
(***************************************************************************)
(* proxy.rs: the shutdown. notify_one leaves a permit when nobody waits    *)
(* yet; axum polls the future once the listener is bound.                  *)
(***************************************************************************)
ProxyNotify == IF proxy = "serving" THEN proxy' = "draining" /\ UNCHANGED permit
             ELSE permit' = TRUE /\ UNCHANGED proxy

ServeProxy ==
    /\ proxy = "starting"
    /\ proxy' = IF permit THEN "draining" ELSE "serving"
    /\ permit' = FALSE
    /\ UNCHANGED <<service, app, client, theClock, theCommands, serveFaults>>

\* By itself, before or after the proxy is bound; the task that waits for it notifies.
AppDies ==
    /\ app = "up" /\ service = "live"
    /\ app' = "dead"
    /\ ProxyNotify
    /\ UNCHANGED <<service, client, theClock, theCommands, serveFaults>>

ProxyMaxDuration ==
    /\ proxy \in {"starting", "serving"} /\ service = "live" /\ ~permit
    /\ ProxyNotify
    /\ UNCHANGED <<service, app, client, theClock, theCommands, serveFaults>>

\* Graceful: a request in flight is waited for. Then the app is told to end.
ProxyExits ==
    /\ proxy = "draining" /\ client = "none"
    /\ proxy' = "exited"
    /\ app' = "dead"
    /\ UNCHANGED <<service, permit, client, theClock, theCommands, serveFaults>>

BoxIsLost ==
    /\ app' = "dead" /\ proxy' = "exited" /\ permit' = FALSE /\ client' = "none"

\* A container starts, with clocks of its own.
BootContainer ==
    /\ app' = "up" /\ proxy' = "starting" /\ permit' = FALSE
    /\ still' = FALSE /\ aged' = FALSE /\ passed' = TRUE

\* The platform gives the group a node.
AllocateNode ==
    /\ service = "pending"
    /\ service' = "live"
    /\ BootContainer
    /\ UNCHANGED <<client, theCommands, serveFaults>>

\* The container has ended, whatever ended it: the group keeps its replica.
Relaunch ==
    /\ service = "live" /\ proxy = "exited"
    /\ BootContainer
    /\ UNCHANGED <<service, client, theCommands, serveFaults>>

\* The node is lost, and another is looked for.
LoseNode ==
    /\ service = "live"
    /\ service' = "pending"
    /\ BoxIsLost
    /\ UNCHANGED <<theClock, theCommands, serveFaults>>
-----------------------------------------------------------------------------
(***************************************************************************)
(* cli serve.rs: `serve up`.                                               *)
(***************************************************************************)
ServeFault ==
    /\ serveFaults < MaxServeFaults
    /\ serveFaults' = serveFaults + 1

Live == service \in {"pending", "live"}
Ended(to) == service' = to /\ BoxIsLost
UpGo(pc) == up' = [up EXCEPT !.pc = pc]

\* create_container_group, then the first save_run; if either fails `up` just ends.
UpCreate ==
    /\ up.pc = "create"
    /\ \/ service' = "pending" /\ UpGo("save") /\ UNCHANGED serveFaults
       \/ ServeFault /\ UpGo("done") /\ UNCHANGED service
    /\ UNCHANGED <<command, theBox, theClock, watch, mark>>

UpSave ==
    /\ up.pc = "save"
    /\ mark' = "creating"
    /\ UpGo("poll")
    /\ UNCHANGED <<service, command, theBox, theClock, watch, serveFaults>>

\* poll_until_running also returns Ok for a group that has stopped; it fails when the group
\* does not get a node in time, is gone, or an answer is an error, as does gateway_of.
UpPoll ==
    /\ up.pc = "poll"
    /\ \/ service \in {"live", "stopped"} /\ UpGo("ready") /\ UNCHANGED serveFaults
       \/ service \in {"pending", "gone"} /\ UpGo("undo") /\ UNCHANGED serveFaults
       \/ ServeFault /\ UpGo("undo")
    /\ UNCHANGED <<service, command, theBox, theClock, watch, mark>>

\* delete_group; its error is dropped.
UpUndo ==
    /\ up.pc = "undo"
    /\ UpGo("fail")
    /\ \/ Ended("gone") /\ UNCHANGED serveFaults
       \/ ServeFault /\ UNCHANGED <<service, theBox>>
    /\ UNCHANGED <<command, theClock, watch, mark>>

UpFail ==
    /\ up.pc = "fail"
    /\ mark' = "failed"
    /\ UpGo("done")
    /\ UNCHANGED <<service, command, theBox, theClock, watch, serveFaults>>

\* GET /sf/v1/ready: the app accepts a connection behind the proxy.
AppReady == proxy = "serving" /\ app = "up"

\* wait_ready, which gives up after a while.
UpReady ==
    /\ up.pc = "ready"
    /\ \/ AppReady /\ up' = [pc |-> "mark", says |-> "running"]
       \/ up' = [pc |-> "mark", says |-> "starting"]
    /\ UNCHANGED <<service, command, theBox, theClock, watch, mark, serveFaults>>

\* The last save_run writes the copy `up` has held since the start.
UpMark ==
    /\ up.pc = "mark"
    /\ mark' = up.says
    /\ UpGo("done")
    /\ UNCHANGED <<service, command, theBox, theClock, watch, serveFaults>>
-----------------------------------------------------------------------------
(***************************************************************************)
(* cli serve.rs: `down`, `resume` and `rm`. The request first, the state   *)
(* file after it; update_status writes nothing when the file is gone.      *)
(***************************************************************************)
Down ==
    /\ command = "none" /\ Live /\ mark # "none"
    /\ Ended("stopped")
    /\ command' = "downMark"
    /\ UNCHANGED <<up, theClock, watch, mark, serveFaults>>

Resume ==
    /\ command = "none" /\ service = "stopped" /\ mark # "none"
    /\ serveFaults < MaxServeFaults /\ serveFaults' = serveFaults + 1      \* bound
    /\ service' = "pending"
    /\ command' = "resumeMark"
    /\ UNCHANGED <<up, theBox, theClock, watch, mark>>

Rm ==
    /\ command = "none" /\ service # "absent" /\ mark # "none"
    /\ Ended("gone")
    /\ command' = "rmForget"
    /\ UNCHANGED <<up, theClock, watch, mark, serveFaults>>

UpdateStatus ==
    /\ command # "none"
    /\ mark' = CASE mark = "none" \/ command = "rmForget" -> "none"
                 [] command = "downMark" -> "stopped"
                 [] OTHER -> "creating"
    /\ command' = "none"
    /\ UNCHANGED <<service, up, theBox, theClock, watch, serveFaults>>
-----------------------------------------------------------------------------
(***************************************************************************)
(* cli serve.rs: the watchdog `autostop`, started when there is a file.    *)
(***************************************************************************)
WatchGo(place) == watch' = place

StartWatch ==
    /\ watch = "off" /\ mark # "none"
    /\ WatchGo("gateway")
    /\ UNCHANGED <<service, up, command, theBox, theClock, mark, serveFaults>>

\* Any error here is read as "the service is gone"; a group without a node may have one.
GatewayOf ==
    /\ watch = "gateway"
    /\ \/ service \in {"pending", "live", "stopped"} /\ WatchGo("ask") /\ UNCHANGED serveFaults
       \/ service # "live" /\ WatchGo("done") /\ UNCHANGED serveFaults
       \/ ServeFault /\ WatchGo("done")
    /\ UNCHANGED <<service, up, command, theBox, theClock, mark>>

\* GET /sf/v1/idle, against the idle timeout.
IdleReport == aged

\* The answer, none (the container is not up), or a connection that never answers.
AskIdle ==
    /\ watch = "ask"
    /\ \/ /\ proxy = "serving"
          /\ WatchGo(IF IdleReport THEN "stop" ELSE "gateway")
          /\ passed' = FALSE
          /\ UNCHANGED serveFaults
       \/ proxy # "serving" /\ WatchGo("gateway") /\ UNCHANGED <<passed, serveFaults>>
       \/ ServeFault /\ WatchGo("stalled") /\ UNCHANGED passed
    /\ UNCHANGED <<service, up, command, theBox, still, aged, mark>>

NoTimeout == FALSE /\ watch' = watch            \* mutant: a client without a timeout
RequestTimeout == watch = "stalled" /\ WatchGo("gateway")
PollTimesOut ==
    /\ RequestTimeout
    /\ UNCHANGED <<service, up, command, theBox, theClock, mark, serveFaults>>

\* stop_container_group; an error (none is left to stop, too) ends the watchdog.
StopService ==
    /\ watch = "stop"
    /\ \/ Live /\ Ended("stopped") /\ WatchGo("mark") /\ UNCHANGED serveFaults
       \/ ~Live /\ WatchGo("done") /\ UNCHANGED <<service, theBox, serveFaults>>
       \/ ServeFault /\ WatchGo("done") /\ UNCHANGED <<service, theBox>>
    /\ UNCHANGED <<up, command, theClock, mark>>

MarkStopped ==
    /\ watch = "mark"
    /\ mark' = IF mark = "none" THEN "none" ELSE "stopped"
    /\ WatchGo("done")
    /\ UNCHANGED <<service, up, command, theBox, theClock, serveFaults>>
-----------------------------------------------------------------------------
WatchStep == GatewayOf \/ AskIdle \/ PollTimesOut \/ StopService \/ MarkStopped
ProxyStep == ServeProxy \/ Forward \/ ProxyExits \/ (app = "dead" /\ RequestEnds)

AutostopNext ==
    \/ Request \/ StreamChunk \/ RequestEnds \/ IdleTimeoutPasses
    \/ AppDies \/ ProxyMaxDuration \/ AllocateNode \/ Relaunch \/ LoseNode
    \/ UpCreate \/ UpSave \/ UpPoll \/ UpUndo \/ UpFail \/ UpReady \/ UpMark
    \/ Down \/ Resume \/ Rm \/ UpdateStatus \/ StartWatch
    \/ ProxyStep \/ WatchStep

AutostopSpec == AutostopInit /\ [][AutostopNext]_serveVars
AutostopFairness == WF_serveVars(WatchStep) /\ WF_serveVars(ProxyStep)
AutostopFairSpec == AutostopSpec /\ AutostopFairness
-----------------------------------------------------------------------------
\* The watchdog stops only a service through which nothing had passed for the timeout when
\* it answered, however long a stream that is still running has lasted ("Stamping only at
\* request start made an hour-long SSE stream look idle").
StopsOnlyIdle == watch = "stop" => still \/ passed

\* A container that stays idle is stopped by its watchdog, even if a poll never answers ("one
\* stalled poll ... would block the loop forever and the idle box would bill on"); only an
\* error of the control plane ends the watchdog before. One that ends, and is relaunched, has
\* not been idle yet: a container that ends again and again is left to `down` and `rm`.
IdleIsStopped ==
    (still /\ proxy = "serving" /\ watch \notin {"off", "done"}) ~>
        (~still \/ proxy # "serving" \/ (watch = "done" /\ serveFaults > 0))

\* The proxy does not outlive its app, even one that dies before the proxy listens ("A lost
\* signal would leave the proxy - and the GPU billing - running"), so that the platform can
\* relaunch both.
DeadAppEndsProxy == (app = "dead") ~> (proxy = "exited")
\* An idle container is stopped and a dead app makes way for a new one (serve.rs autostop,
\* proxy.rs); a service that is used, or keeps dying, bills on.
ServiceEnds == IdleIsStopped /\ DeadAppEndsProxy
=============================================================================
