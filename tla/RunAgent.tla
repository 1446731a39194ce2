------------------------------ MODULE RunAgent ------------------------------
(***************************************************************************)
(* One shard of a batch run as the agent sees it (saladfingers-agent       *)
(* run.rs): a container group keeps relaunching a container in which       *)
(* `sf-agent run` boots, counts the attempt, looks whether the run is      *)
(* already over, passes the bandwidth gate, executes the job, uploads its  *)
(* outputs and commits the result envelope.  All the memory there is       *)
(* between two boots are three objects in storage: the attempts ledger,    *)
(* the envelope and the outputs.  Checkpoints are CheckpointRing's part.   *)
(*                                                                         *)
(* The unit of atomicity is one storage request.  A node can be lost       *)
(* between any two of them; with more than one node, a node the platform   *)
(* is moving the container away from runs on while its replacement boots.  *)
(* An output artifact is identified by the execution that produced it.     *)
(***************************************************************************)
EXTENDS Integers, FiniteSets

CONSTANTS
    Nodes,          \* machines the container may run on
    MaxAttempts,    \* spec.max_attempts, the cap on re-executing a failed job
    MaxReallocs,    \* gate.max_reallocations
    MaxBoots,       \* bound: boots of the agent
    MaxFaults       \* bound: storage requests that fail

ASSUME RunAssumption ==
    /\ MaxAttempts \in Nat \ {0}
    /\ MaxReallocs \in Nat
    /\ MaxBoots \in Nat
    /\ MaxFaults \in Nat

OutPart == 1 .. 2           \* part objects of the output artifact

\* enum JobStatus and is_terminal_for_resume.
JobStatus == {"Succeeded", "Failed", "TimedOut", "Interrupted", "AgentError"}
TerminalForResume == {"Succeeded", "TimedOut"}

\* struct ResultEnvelope; exec names the execution whose artifacts uploads lists.
Envelope == [status : JobStatus \cup {"none"}, exec : Nat]
NoEnvelope == [status |-> "none", exec |-> 0]

\* struct Attempts: how many boots are recorded, and the gate's reallocations.
Ledger == [boots : Nat, reallocs : Nat]
NoLedger == [boots |-> 0, reallocs |-> 0]

\* One agent process: its copy of the ledger, how the run goes so far, the
\* execution it made and the next output part to send.
Agent == [pc : {"off", "ledger", "count", "resume", "probe", "gate", "move", "linger",
                "inputs", "exec", "outputs", "report"},
          attempts : Ledger, status : JobStatus \cup {"none"}, exec : Nat,
          next : 1 .. Cardinality(OutPart) + 1]
NoAgent == [pc |-> "off", attempts |-> NoLedger, status |-> "none", exec |-> 0, next |-> 1]
-----------------------------------------------------------------------------
VARIABLES
    group,          \* the container group: live, failed or deleted
    envelope,       \* result.json
    ledger,         \* attempts.json
    outputs,        \* [OutPart -> execution whose bytes the part holds; 0 is none]
    agent,          \* [Nodes -> Agent]
    leaving,        \* nodes the platform is taking the container away from
    execs,          \* executions of the job begun so far
    boots, faults,  \* counted for the bounds
    redone,         \* boots that went on although a failure was committed
    moved,          \* reallocations asked of the platform
    lost,           \* ledger PUTs without effect, and objects read as absent
    misread         \* whether an envelope was read as absent

stored == <<envelope, ledger, outputs>>
counters == <<boots, faults>>
history == <<redone, moved, lost, misread>>
vars == <<group, stored, agent, leaving, execs, counters, history>>

TypeOK ==
    /\ group \in {"live", "failed", "deleted"}
    /\ envelope \in Envelope
    /\ ledger \in Ledger
    /\ outputs \in [OutPart -> Nat]
    /\ agent \in [Nodes -> Agent]
    /\ leaving \in SUBSET Nodes
    /\ execs \in Nat /\ boots \in Nat /\ faults \in Nat
    /\ redone \in Nat /\ moved \in Nat /\ lost \in Nat
    /\ misread \in BOOLEAN
-----------------------------------------------------------------------------
On == {n \in Nodes : agent[n].pc # "off"}

\* The agent on node n goes to step p with its locals otherwise as they are.
Go(n, p) == agent' = [agent EXCEPT ![n].pc = p]

\* The process exits; the platform will start another one.
Exit(n) ==
    /\ agent' = [agent EXCEPT ![n] = NoAgent]
    /\ leaving' = leaving \ {n}

Fault ==
    /\ faults < MaxFaults
    /\ faults' = faults + 1
    /\ UNCHANGED boots

\* fetch_json_retry: any error status, and the third transport error, count as absent.
Misread(object, absent) ==
    /\ object # absent
    /\ Fault
    /\ lost' = lost + 1
FetchAs(object, absent, seen) ==
    \/ seen = object /\ UNCHANGED <<counters, lost>>
    \/ seen = absent /\ Misread(object, absent)

\* put_attempts: one PUT whose outcome is ignored.
PutLedgerAfterWork(n) ==                        \* mutant: boots are not counted
    UNCHANGED <<ledger, faults, boots, lost>>
PutLedger(n) ==
    \/ /\ ledger' = agent[n].attempts
       /\ UNCHANGED <<counters, lost>>
    \/ /\ Fault
       /\ lost' = lost + 1
       /\ UNCHANGED ledger
-----------------------------------------------------------------------------
(***************************************************************************)
(* The platform.                                                           *)
(***************************************************************************)
\* It relaunches the container for as long as the group lives, on any machine
\* and with nothing kept from earlier boots; while one node is being left
\* another can already boot.
Boot(n) ==
    /\ group = "live"
    /\ n \notin On
    /\ On \subseteq leaving
    /\ boots < MaxBoots
    /\ boots' = boots + 1
    /\ Go(n, "ledger")
    /\ UNCHANGED <<group, stored, leaving, execs, faults, history>>

\* It starts to take the container away from a node: from then on the agent
\* may be sent a SIGTERM, and is killed some time later.
Leave(n) ==
    /\ n \in On \ leaving
    /\ leaving' = leaving \cup {n}
    /\ UNCHANGED <<group, stored, agent, execs, counters, history>>

\* The node is lost, or the platform has killed the container.
Kill(n) ==
    /\ n \in On
    /\ Exit(n)
    /\ UNCHANGED <<group, stored, execs, counters, history>>

\* The platform gives the group up, or the operator deletes it: nothing boots any
\* more, and a running node is killed some time later.
GroupEnds ==
    /\ group = "live"
    /\ group' \in {"failed", "deleted"}
    /\ leaving' = On
    /\ UNCHANGED <<stored, agent, execs, counters, history>>
-----------------------------------------------------------------------------
(***************************************************************************)
(* Boot of the agent: ledger, resume check, checkpoint probe.              *)
(***************************************************************************)
LoadLedger(n) ==
    /\ agent[n].pc = "ledger"
    /\ \E seen \in {ledger, NoLedger} :
          /\ FetchAs(ledger, NoLedger, seen)
          /\ agent' = [agent EXCEPT ![n].attempts = [seen EXCEPT !.boots = @ + 1],
                                    ![n].pc = "count"]
    /\ UNCHANGED <<group, stored, leaving, execs, redone, moved, misread>>

CountBoot(n) ==
    /\ agent[n].pc = "count"
    /\ PutLedger(n)
    /\ Go(n, "resume")
    /\ UNCHANGED <<group, envelope, outputs, leaving, execs, redone, moved, misread>>

\* The run is over, or its cap is spent on failures: exit at once.
NothingToDoFailed(n, seen) ==                   \* mutant: only success is final
    \/ seen.status = "Succeeded"
    \/ seen.status \in {"Failed", "AgentError"} /\ agent[n].attempts.boots > MaxAttempts
NothingToDo(n, seen) ==
    \/ seen.status \in TerminalForResume
    \/ seen.status \in {"Failed", "AgentError"} /\ agent[n].attempts.boots > MaxAttempts

ResumeCheck(n) ==
    /\ agent[n].pc = "resume"
    /\ \E seen \in {envelope, NoEnvelope} :
          /\ FetchAs(envelope, NoEnvelope, seen)
          /\ misread' = (misread \/ seen # envelope)
          /\ \/ /\ NothingToDo(n, seen)
                /\ Exit(n)
                /\ UNCHANGED redone
             \/ /\ ~NothingToDo(n, seen)
                /\ Go(n, "probe")
                /\ redone' = redone + (IF envelope.status \in {"Failed", "AgentError"}
                                       THEN 1 ELSE 0)
                /\ UNCHANGED leaving
    /\ UNCHANGED <<group, stored, execs, moved>>

\* A step before exec fails: an AgentError envelope is written, then exit.
FailsBeforeExec(n) ==
    /\ agent[n].pc \in {"probe", "inputs"}
    /\ Fault
    /\ agent' = [agent EXCEPT ![n].status = "AgentError", ![n].pc = "report"]
    /\ UNCHANGED <<group, stored, leaving, execs, history>>

ProbeCheckpoint(n) ==
    /\ agent[n].pc = "probe"
    /\ Go(n, "gate")
    /\ UNCHANGED <<group, stored, leaving, execs, counters, history>>
-----------------------------------------------------------------------------
(***************************************************************************)
(* The bandwidth gate (run_gate).                                          *)
(***************************************************************************)
\* A sample that fails, or is too small to tell a bandwidth from a round trip, gives no
\* reading; and the download is only sampled when there is an object to read.
GateReadings == [up: {"none", "below", "above"}, down: {"none", "below", "above"}]
BelowThreshold(readings) == "below" \in {readings.up, readings.down}

GateOpen(n) ==
    /\ agent[n].pc = "gate"
    /\ \E readings \in GateReadings :
          ~BelowThreshold(readings) \/ agent[n].attempts.reallocs >= MaxReallocs
    /\ Go(n, "inputs")
    /\ UNCHANGED <<group, stored, leaving, execs, counters, history>>

\* Below the floor, and reallocations are left: count this one.
GateShut(n) ==
    /\ agent[n].pc = "gate"
    /\ \E readings \in GateReadings : BelowThreshold(readings)
    /\ agent[n].attempts.reallocs < MaxReallocs
    /\ agent' = [agent EXCEPT ![n].attempts.reallocs = @ + 1, ![n].pc = "move"]
    /\ UNCHANGED <<group, stored, leaving, execs, counters, history>>

\* Record it, then ask IMDS for another node; either may fail unnoticed.
AskToMove(n) ==
    /\ agent[n].pc = "move"
    /\ PutLedger(n)
    /\ Go(n, "linger")
    /\ \/ leaving' = leaving \cup {n} /\ moved' = moved + 1
       \/ UNCHANGED <<leaving, moved>>
    /\ UNCHANGED <<group, envelope, outputs, execs, redone, misread>>

\* Not killed within the wait: proceed on this node.
LingerOver(n) ==
    /\ agent[n].pc = "linger"
    /\ Go(n, "inputs")
    /\ UNCHANGED <<group, stored, leaving, execs, counters, history>>
-----------------------------------------------------------------------------
(***************************************************************************)
(* Exec, outputs, envelope.                                                *)
(***************************************************************************)
\* Inputs and checkpoint are in place and the child is spawned.
StartExec(n) ==
    /\ agent[n].pc = "inputs"
    /\ execs' = execs + 1
    /\ agent' = [agent EXCEPT ![n].exec = execs + 1, ![n].pc = "exec"]
    /\ UNCHANGED <<group, stored, leaving, counters, history>>

\* The child exits, its budget ends, the agent cannot wait for it, or a SIGTERM comes.
EndExec(n) ==
    /\ agent[n].pc = "exec"
    /\ \E s \in JobStatus :
          /\ s = "Interrupted" => n \in leaving
          /\ agent' = [agent EXCEPT ![n].status = s,
                                    ![n].pc = IF s = "Succeeded" THEN "outputs" ELSE "report"]
    /\ UNCHANGED <<group, stored, leaving, execs, counters, history>>

UploadOutputOneMore(n) ==                       \* mutant: off by one at the last part
    /\ agent[n].pc = "outputs"
    /\ outputs' = [outputs EXCEPT ![agent[n].next] = agent[n].exec]
    /\ agent' = [agent EXCEPT ![n].next = @ + 1,
                              ![n].pc = IF agent[n].next > Cardinality(OutPart)
                                        THEN "report" ELSE "outputs"]
    /\ UNCHANGED <<group, envelope, ledger, leaving, execs, counters, history>>
\* upload_outputs: the parts go to fixed keys, one after another.
UploadOutput(n) ==
    /\ agent[n].pc = "outputs"
    /\ outputs' = [outputs EXCEPT ![agent[n].next] = agent[n].exec]
    /\ agent' = [agent EXCEPT ![n].next = @ + 1,
                              ![n].pc = IF agent[n].next = Cardinality(OutPart)
                                        THEN "report" ELSE "outputs"]
    /\ UNCHANGED <<group, envelope, ledger, leaving, execs, counters, history>>

\* An output is missing or its upload fails: the run is an agent error.
OutputFailsKept(n) ==                           \* mutant: the status stays Succeeded
    /\ agent[n].pc = "outputs"
    /\ Fault
    /\ Go(n, "report")
    /\ UNCHANGED <<group, stored, leaving, execs, history>>
OutputFails(n) ==
    /\ agent[n].pc = "outputs"
    /\ Fault
    /\ agent' = [agent EXCEPT ![n].status = "AgentError", ![n].pc = "report"]
    /\ UNCHANGED <<group, stored, leaving, execs, history>>

\* The envelope; uploads are listed for a success only.
Result(n) ==
    [status |-> agent[n].status,
     exec |-> IF agent[n].status = "Succeeded" THEN agent[n].exec ELSE 0]

\* put_envelope, then exit; the container is relaunched whatever the exit code.
PutEnvelope(n) ==
    /\ agent[n].pc = "report"
    /\ \/ envelope' = Result(n) /\ UNCHANGED counters
       \/ Fault /\ UNCHANGED envelope
    /\ Exit(n)
    /\ UNCHANGED <<group, ledger, outputs, execs, history>>
-----------------------------------------------------------------------------
Init ==
    /\ group = "live"
    /\ envelope = NoEnvelope
    /\ ledger = NoLedger
    /\ outputs = [p \in OutPart |-> 0]
    /\ agent = [n \in Nodes |-> NoAgent]
    /\ leaving = {}
    /\ execs = 0 /\ boots = 0 /\ faults = 0
    /\ redone = 0 /\ moved = 0 /\ lost = 0 /\ misread = FALSE

AgentStep(n) ==
    \/ LoadLedger(n) \/ CountBoot(n) \/ ResumeCheck(n)
    \/ ProbeCheckpoint(n) \/ FailsBeforeExec(n)
    \/ GateOpen(n) \/ GateShut(n) \/ AskToMove(n) \/ LingerOver(n)
    \/ StartExec(n) \/ EndExec(n) \/ UploadOutput(n) \/ OutputFails(n) \/ PutEnvelope(n)

PlatformStep(n) == Boot(n) \/ Leave(n) \/ Kill(n)

Next ==
    \/ \E n \in Nodes : AgentStep(n) \/ PlatformStep(n)
    \/ GroupEnds

Spec == Init /\ [][Next]_vars
-----------------------------------------------------------------------------
\* What a committed success lists is what storage holds: no earlier, failed or
\* interrupted attempt and no later boot leaves other bytes under its keys, unless a
\* boot could not read the envelope ("part objects left over from an interrupted
\* attempt are ignored.  This is the entire reallocated-mid-upload idempotency story",
\* protocol envelope.rs).
OutputsMatchEnvelope ==
    envelope.exec # 0 /\ ~misread => \A p \in OutPart : outputs[p] = envelope.exec

\* A committed failure is re-executed less often than max_attempts, over all boots and
\* however nodes are lost; a ledger request that goes wrong can at worst reset the
\* count (agent run.rs, the attempt cap of the resume check).
RedoneWithinCap == redone < MaxAttempts * (1 + lost)

\* Likewise the gate moves a run at most max_reallocations times (agent run.rs run_gate).
MovesWithinLimit == moved <= MaxReallocs * (1 + lost)

\* Seen from outside, a shard is what RunShard says, for as long as no boot overlooked
\* an envelope: in particular a final result is never replaced, so work that is done is
\* not repeated (protocol envelope.rs, is_terminal_for_resume).
Shard == INSTANCE RunShard WITH
            Endings <- JobStatus, MaxTries <- MaxBoots,
            result <- envelope.status, busy <- On # {}, tries <- boots
ImplementsShard ==
    /\ Shard!ShardInit /\ group = "live"
    /\ [][Shard!ShardStep \/ Shard!ShardDeleted \/ misread]_(Shard!shardVars)
=============================================================================
