------------------------------ MODULE Billing ------------------------------
(***************************************************************************)
(* The billed-time estimate of one shard (cli runner.rs SpanTracker,       *)
(* finalize_run, and the spans in state.rs). Nodes run the shard, one      *)
(* after another with free gaps in between; a CLI process polls which one  *)
(* is running, dies or detaches, and another attaches, also to a run that  *)
(* is collected already. The clocks of node and CLI are taken for one.     *)
(***************************************************************************)
EXTENDS Naturals, Sequences

CONSTANTS
    Machines,
    MaxTime,          \* bound: ticks
    MaxCollections    \* bound: times the run is collected
ASSUME BillingAssumption ==
    /\ MaxTime \in Nat /\ MaxCollections \in Nat
    /\ Machines \cap {"nobody", "unknown"} = {}      \* machine ids are UUIDs

VARIABLES
    now,
    node,         \* the machine that is running the shard and since when, or nobody
    ran,          \* per tick, the machine that was running: what SaladCloud bills
    resultEnvelope,     \* the result: its machine and window, or none
    collector,      \* the process in await_shard: whether there is one, and its SpanTracker
    savedSpans,        \* running_spans in the state file
    collections

billingVars == <<now, node, ran, resultEnvelope, collector, savedSpans, collections>>

Nobody == "nobody"
Never == MaxTime + 1                            \* end or last_running: None
Time == 0 .. MaxTime
Span == [machine: Machines \cup {"unknown"}, start: Time, end: Time \cup {Never}]
NoTracker == [on |-> FALSE, spans |-> <<>>, last |-> Never]

BillingTypeOK ==
    /\ now \in Time /\ ran \in [Time -> Machines \cup {Nobody}]
    /\ node \in [machine: Machines \cup {Nobody}, since: Time]
    /\ resultEnvelope \in [machine: Machines \cup {"unknown", Nobody}, start: Time, end: Time]
    /\ collector.on \in BOOLEAN /\ collector.last \in Time \cup {Never}
    /\ collector.spans \in Seq(Span) /\ savedSpans \in Seq(Span)
    /\ collections \in 0 .. MaxCollections

BillingInit ==
    /\ now = 0 /\ ran = [t \in Time |-> Nobody]
    /\ node = [machine |-> Nobody, since |-> 0]
    /\ resultEnvelope = [machine |-> Nobody, start |-> 0, end |-> 0]
    /\ collector = [NoTracker EXCEPT !.on = TRUE]
    /\ savedSpans = <<>> /\ collections = 0
-----------------------------------------------------------------------------
(***************************************************************************)
(* The nodes.                                                              *)
(***************************************************************************)
Tick ==
    /\ now < MaxTime
    /\ now' = now + 1
    /\ ran' = [ran EXCEPT ![now + 1] = node.machine]
    /\ UNCHANGED <<node, resultEnvelope, collector, savedSpans, collections>>

Allocate(m) ==
    /\ node.machine = Nobody /\ resultEnvelope.machine = Nobody /\ ran[now] = Nobody
    /\ node' = [machine |-> m, since |-> now]
    /\ ran' = [ran EXCEPT ![now] = m]
    /\ UNCHANGED <<now, resultEnvelope, collector, savedSpans, collections>>

\* Reallocated away, lost, or stopped.
Leaves ==
    /\ node.machine # Nobody
    /\ node' = [machine |-> Nobody, since |-> now]
    /\ UNCHANGED <<now, ran, resultEnvelope, collector, savedSpans, collections>>

\* The node may not know its machine id.
EnvelopeWritten(m) ==
    /\ node.machine # Nobody /\ resultEnvelope.machine = Nobody
    /\ m \in {node.machine, "unknown"}
    /\ resultEnvelope' = [machine |-> m, start |-> node.since, end |-> now]
    /\ UNCHANGED <<now, node, ran, collector, savedSpans, collections>>
-----------------------------------------------------------------------------
(***************************************************************************)
(* SpanTracker.                                                            *)
(***************************************************************************)
Later(a, b) == IF a > b THEN a ELSE b
IsOpen(spans) == spans # <<>> /\ spans[Len(spans)].end = Never
CloseLast(spans, t) ==
    IF IsOpen(spans)
    THEN [spans EXCEPT ![Len(spans)].end = Later(t, spans[Len(spans)].start)]
    ELSE spans
LastMachine(spans) == spans[Len(spans)].machine

Boundary(t) == IF collector.last = Never THEN t ELSE collector.last

HandOverNow(t) == now                           \* mutant: up to the next node's sighting
HandOver(t) == Boundary(t)
Observe(m) ==
    IF IsOpen(collector.spans) /\ LastMachine(collector.spans) = m
    THEN [collector EXCEPT !.last = now]
    ELSE [collector EXCEPT
            !.spans = Append(CloseLast(@, HandOver(now)),
                             [machine |-> m, start |-> now, end |-> Never]),
            !.last = now]

\* close(): nothing, for a span that this process has not seen running.
Close == IF collector.last = Never THEN collector.spans ELSE CloseLast(collector.spans, collector.last)

FinalizeWithEnvelope ==
    LET window == [machine |-> resultEnvelope.machine, start |-> resultEnvelope.start, end |-> resultEnvelope.end]
        spans  == collector.spans
    IN IF IsOpen(spans) /\ resultEnvelope.machine \in {"unknown", LastMachine(spans)}
       THEN [spans EXCEPT ![Len(spans)].start = window.start, ![Len(spans)].end = window.end]
       ELSE Append(CloseLast(spans, Boundary(window.start)), window)
-----------------------------------------------------------------------------
(***************************************************************************)
(* await_shard, finalize_run, attach.                                      *)
(***************************************************************************)
PollShard ==
    /\ collector.on /\ node.machine # Nobody
    /\ collector' = Observe(node.machine)
    /\ UNCHANGED <<now, node, ran, resultEnvelope, savedSpans, collections>>

\* finalize_run: the only place where spans reach the state file.
Collected(spans) ==
    /\ savedSpans' = spans
    /\ collections' = collections + 1
    /\ collector' = NoTracker
    /\ UNCHANGED <<now, node, ran, resultEnvelope>>

CollectEnvelope ==
    /\ collector.on /\ resultEnvelope.machine # Nobody /\ collections < MaxCollections
    /\ Collected(FinalizeWithEnvelope)

\* The group failed or is gone, and nothing was written.
CollectNothing ==
    /\ collector.on /\ resultEnvelope.machine = Nobody /\ node.machine = Nobody
    /\ collections < MaxCollections
    /\ Collected(Close)

\* Killed, detached, Ctrl-C, or past the hard cap: nothing is saved.
WatcherEnds ==
    /\ collector.on
    /\ collector' = NoTracker
    /\ UNCHANGED <<now, node, ran, resultEnvelope, savedSpans, collections>>

\* A second attach to a collected run is how a failed download is repeated.
AttachAgain ==
    /\ ~collector.on
    /\ collector' = [on |-> TRUE, spans |-> savedSpans, last |-> Never]
    /\ UNCHANGED <<now, node, ran, resultEnvelope, savedSpans, collections>>
-----------------------------------------------------------------------------
BillingNext ==
    \/ Tick \/ Leaves \/ \E m \in Machines : Allocate(m)
    \/ \E m \in Machines \cup {"unknown"} : EnvelopeWritten(m)
    \/ PollShard \/ CollectEnvelope \/ CollectNothing \/ WatcherEnds \/ AttachAgain

BillingSpec == BillingInit /\ [][BillingNext]_billingVars
-----------------------------------------------------------------------------
\* A span begins and ends while its machine was running: the gap before the next node is
\* not billed to the old one, and no node takes over the window of another, unless the
\* envelope does not say where it comes from.
SpansWereRunning ==
    resultEnvelope.machine # "unknown" =>
        \A i \in 1 .. Len(savedSpans) :
            savedSpans[i].machine = ran[savedSpans[i].start] /\ savedSpans[i].machine = ran[savedSpans[i].end]

\* The state file has no span that is open and would go on growing, and no time twice until
\* the run is collected again.
SavedIsSettled ==
    /\ \A i \in 1 .. Len(savedSpans) : savedSpans[i].end # Never
    /\ collections <= 1 =>
          \A i, j \in 1 .. Len(savedSpans) : i < j => savedSpans[i].end <= savedSpans[j].start
\* SpanTracker over node changes, envelopes and collections.
SpansAreSettled == SpansWereRunning /\ SavedIsSettled
=============================================================================
