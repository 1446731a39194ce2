--------------------------- MODULE RunAgent_proofs ---------------------------
(***************************************************************************)
(* RunAgent is well typed on any nodes, and a run whose container is never *)
(* in two places at once keeps its outputs and its two caps, and looks     *)
(* like the shard its operator knows, for any max_attempts,                *)
(* max_reallocations, and any number of boots and of failed requests.  The *)
(* argument for the caps: a boot that goes on after a committed failure    *)
(* has either been counted in the ledger, or a request that went wrong has *)
(* paid for it.                                                            *)
(***************************************************************************)
EXTENDS RunAgent, FiniteSetTheorems, TLAPS

LEMMA TwoParts == Cardinality(OutPart) = 2 /\ OutPart = {1, 2}
<1>1. OutPart = {1, 2}
    BY DEF OutPart
<1>2. IsFiniteSet({1}) /\ Cardinality({1}) = 1
    BY FS_Singleton
<1>3. Cardinality({1} \cup {2}) = Cardinality({1}) + 1
    BY <1>2, FS_AddElement
<1>4. {1} \cup {2} = {1, 2}
    OBVIOUS
<1> QED BY <1>1, <1>2, <1>3, <1>4

\* A part is left to be sent for as long as the agent sends parts.
OutputsLeft ==
    \A n \in Nodes :
        /\ agent[n].pc \notin {"outputs", "report"} => agent[n].next = 1
        /\ agent[n].pc = "outputs" => agent[n].next \in OutPart

\* What one request for an object, and one ledger PUT, do to the counters.
LEMMA FetchCounts ==
    ASSUME TypeOK, NEW object, NEW absent, NEW seen, FetchAs(object, absent, seen)
    PROVE  /\ boots' = boots /\ faults' \in Nat
           /\ \/ seen = object /\ lost' = lost
              \/ seen = absent /\ lost' = lost + 1
BY DEF FetchAs, Misread, Fault, counters, TypeOK

LEMMA PutCounts ==
    ASSUME TypeOK, NEW n \in Nodes, PutLedger(n)
    PROVE  /\ boots' = boots /\ faults' \in Nat
           /\ \/ ledger' = agent[n].attempts /\ lost' = lost
              \/ ledger' = ledger /\ lost' = lost + 1
BY DEF PutLedger, Fault, counters, TypeOK

\* The steps of a node change that node's agent only, and leave it well typed.
LEMMA AgentTyped ==
    ASSUME TypeOK, OutputsLeft, NEW n \in Nodes, AgentStep(n) \/ PlatformStep(n)
    PROVE  /\ agent' = [agent EXCEPT ![n] = agent'[n]] /\ agent'[n] \in Agent
<1>0. agent \in [Nodes -> Agent] /\ agent[n] \in Agent /\ execs \in Nat /\ ledger \in Ledger
    BY DEF TypeOK
<1>1. ASSUME NEW a \in Agent, agent' = [agent EXCEPT ![n] = a]
      PROVE  agent' = [agent EXCEPT ![n] = agent'[n]] /\ agent'[n] \in Agent
    BY <1>0, <1>1
<1>2. NoAgent \in Agent
    BY TwoParts DEF NoAgent, Agent, NoLedger, Ledger
<1>3. ASSUME NEW p \in {"off", "ledger", "count", "resume", "probe", "gate", "move", "linger",
                        "inputs", "exec", "outputs", "report"}, Go(n, p)
      PROVE  agent' = [agent EXCEPT ![n] = agent'[n]] /\ agent'[n] \in Agent
    <2>1. [agent[n] EXCEPT !.pc = p] \in Agent
        BY <1>0 DEF Agent
    <2> QED BY <1>0, <1>1, <1>3, <2>1 DEF Go
<1>4. CASE LoadLedger(n)
    <2>1. PICK seen \in {ledger, NoLedger} :
              agent' = [agent EXCEPT ![n].attempts = [seen EXCEPT !.boots = @ + 1],
                                     ![n].pc = "count"]
        BY <1>4 DEF LoadLedger
    <2>2. seen \in Ledger
        BY <1>0 DEF Ledger, NoLedger
    <2>3. [seen EXCEPT !.boots = @ + 1] \in Ledger
        BY <2>2 DEF Ledger
    <2>4. [agent[n] EXCEPT !.attempts = [seen EXCEPT !.boots = @ + 1], !.pc = "count"] \in Agent
        BY <1>0, <2>3 DEF Agent
    <2> QED BY <1>0, <1>1, <2>1, <2>4
<1>5. CASE CountBoot(n) \/ ProbeCheckpoint(n) \/ GateOpen(n) \/ AskToMove(n) \/ LingerOver(n) \/ Boot(n)
    BY <1>5, <1>3 DEF CountBoot, ProbeCheckpoint, GateOpen, AskToMove, LingerOver, Boot
<1>6. CASE ResumeCheck(n) \/ Kill(n) \/ PutEnvelope(n)
    BY <1>1, <1>2, <1>3, <1>6 DEF ResumeCheck, Kill, PutEnvelope, Exit
<1>7. CASE FailsBeforeExec(n) \/ OutputFails(n)
    <2>1. [agent[n] EXCEPT !.status = "AgentError", !.pc = "report"] \in Agent
        BY <1>0 DEF Agent, JobStatus
    <2> QED BY <1>0, <1>1, <1>7, <2>1 DEF FailsBeforeExec, OutputFails
<1>8. CASE GateShut(n)
    <2> DEFINE counted == [agent[n].attempts EXCEPT !.reallocs = @ + 1]
    <2>1. counted \in Ledger
        <3>1. agent[n].attempts \in Ledger
            BY <1>0 DEF Agent
        <3> QED BY <3>1 DEF Ledger
    <2>2. [agent[n] EXCEPT !.attempts = counted, !.pc = "move"] \in Agent
        BY <1>0, <2>1 DEF Agent
    <2>3. agent' = [agent EXCEPT ![n] = [agent[n] EXCEPT !.attempts = counted, !.pc = "move"]]
        BY <1>0, <1>8 DEF GateShut
    <2> QED BY <1>1, <2>2, <2>3
<1>9. CASE StartExec(n)
    <2>1. execs + 1 \in Nat
        BY <1>0
    <2>2. [agent[n] EXCEPT !.exec = execs + 1, !.pc = "exec"] \in Agent
        BY <1>0, <2>1 DEF Agent
    <2> QED BY <1>0, <1>1, <1>9, <2>2 DEF StartExec
<1>10. CASE EndExec(n)
    <2>1. PICK s \in JobStatus :
              agent' = [agent EXCEPT ![n].status = s,
                                     ![n].pc = IF s = "Succeeded" THEN "outputs" ELSE "report"]
        BY <1>10 DEF EndExec
    <2>2. [agent[n] EXCEPT !.status = s,
                           !.pc = IF s = "Succeeded" THEN "outputs" ELSE "report"] \in Agent
        BY <1>0 DEF Agent
    <2> QED BY <1>0, <1>1, <2>1, <2>2
<1>11. CASE UploadOutput(n)
    <2> DEFINE pc == IF agent[n].next = Cardinality(OutPart) THEN "report" ELSE "outputs"
    <2>1. agent[n].next + 1 \in 1 .. Cardinality(OutPart) + 1
        BY <1>11, TwoParts DEF UploadOutput, OutputsLeft
    <2>2. [agent[n] EXCEPT !.next = agent[n].next + 1, !.pc = pc] \in Agent
        BY <1>0, <2>1 DEF Agent
    <2>3. agent' = [agent EXCEPT ![n] = [agent[n] EXCEPT !.next = agent[n].next + 1, !.pc = pc]]
        BY <1>0, <1>11 DEF UploadOutput
    <2> QED BY <1>1, <2>2, <2>3
<1>12. CASE Leave(n)
    BY <1>0, <1>12 DEF Leave
<1> QED
    BY <1>4, <1>5, <1>6, <1>7, <1>8, <1>9, <1>10, <1>11, <1>12 DEF AgentStep, PlatformStep

LEMMA InitTyped == Init => TypeOK /\ OutputsLeft
<1>1. NoAgent \in Agent /\ NoAgent.next = 1 /\ NoAgent.pc = "off"
    BY TwoParts DEF NoAgent, Agent, NoLedger, Ledger
<1>2. NoEnvelope \in Envelope /\ NoLedger \in Ledger
    BY DEF NoEnvelope, Envelope, NoLedger, Ledger
<1> SUFFICES ASSUME Init PROVE TypeOK /\ OutputsLeft
    OBVIOUS
<1>3. agent \in [Nodes -> Agent] /\ outputs \in [OutPart -> Nat]
    BY <1>1 DEF Init
<1>4. TypeOK
    BY <1>2, <1>3 DEF Init, TypeOK
<1> QED BY <1>1, <1>4 DEF Init, OutputsLeft

LEMMA TypedStep == TypeOK /\ OutputsLeft /\ [Next]_vars => TypeOK'
<1> SUFFICES ASSUME TypeOK, OutputsLeft, [Next]_vars PROVE TypeOK'
    OBVIOUS
<1>1. ASSUME NEW n \in Nodes, AgentStep(n) \/ PlatformStep(n) PROVE TypeOK'
    <2>0. agent \in [Nodes -> Agent] /\ agent[n] \in Agent
        BY DEF TypeOK
    <2>1. agent' \in [Nodes -> Agent]
        BY <1>1, <2>0, AgentTyped
    <2>2. CASE Boot(n) \/ Leave(n) \/ Kill(n)
        <3>1. /\ UNCHANGED <<group, envelope, ledger, outputs, execs, faults, redone, moved, lost, misread>>
              /\ boots' \in {boots, boots + 1} /\ leaving' \in SUBSET Nodes
            BY <2>2 DEF Boot, Leave, Kill, Exit, stored, counters, history, TypeOK
        <3> QED BY <2>1, <3>1 DEF TypeOK
    <2>3. CASE LoadLedger(n)
        <3>1. /\ UNCHANGED <<group, envelope, ledger, outputs, leaving, execs, redone, moved, misread>>
              /\ boots' = boots /\ faults' \in Nat /\ lost' \in {lost, lost + 1}
            BY <2>3, FetchCounts DEF LoadLedger, stored
        <3> QED BY <2>1, <3>1 DEF TypeOK
    <2>4. CASE CountBoot(n) \/ AskToMove(n)
        <3>1. /\ boots' = boots /\ faults' \in Nat /\ lost' \in {lost, lost + 1}
              /\ ledger' \in Ledger
            BY <2>0, <2>4, PutCounts DEF CountBoot, AskToMove, TypeOK, Agent
        <3>2. /\ UNCHANGED <<group, envelope, outputs, execs, redone, misread>>
              /\ leaving' \in SUBSET Nodes /\ moved' \in {moved, moved + 1}
            BY <2>4 DEF CountBoot, AskToMove, TypeOK
        <3> QED BY <2>1, <3>1, <3>2 DEF TypeOK
    <2>5. CASE ResumeCheck(n)
        <3>1. /\ boots' = boots /\ faults' \in Nat /\ lost' \in {lost, lost + 1}
            BY <2>5, FetchCounts DEF ResumeCheck
        <3>2. /\ leaving' \in SUBSET Nodes /\ redone' \in {redone, redone + 1}
              /\ UNCHANGED <<group, envelope, ledger, outputs, execs, moved>>
            BY <2>5 DEF ResumeCheck, Exit, stored, TypeOK
        <3>3. misread' \in BOOLEAN
            BY <2>5 DEF ResumeCheck
        <3> QED BY <2>1, <3>1, <3>2, <3>3 DEF TypeOK
    <2>6. CASE ProbeCheckpoint(n) \/ GateOpen(n) \/ GateShut(n) \/ LingerOver(n) \/ EndExec(n)
        <3>1. UNCHANGED <<group, envelope, ledger, outputs, leaving, execs, boots, faults, redone,
                          moved, lost, misread>>
            BY <2>6
               DEF ProbeCheckpoint, GateOpen, GateShut, LingerOver, EndExec, stored, counters, history
        <3> QED BY <2>1, <3>1 DEF TypeOK
    <2>7. CASE FailsBeforeExec(n) \/ OutputFails(n)
        <3>1. /\ UNCHANGED <<group, envelope, ledger, outputs, leaving, execs, boots, redone, moved,
                             lost, misread>>
              /\ faults' = faults + 1
            BY <2>7 DEF FailsBeforeExec, OutputFails, Fault, stored, history
        <3> QED BY <2>1, <3>1 DEF TypeOK
    <2>8. CASE StartExec(n)
        <3>1. /\ UNCHANGED <<group, envelope, ledger, outputs, leaving, boots, faults, redone, moved,
                             lost, misread>>
              /\ execs' = execs + 1
            BY <2>8 DEF StartExec, stored, counters, history
        <3> QED BY <2>1, <3>1 DEF TypeOK
    <2>9. CASE UploadOutput(n)
        <3>1. /\ UNCHANGED <<group, envelope, ledger, leaving, execs, boots, faults, redone, moved,
                             lost, misread>>
              /\ outputs' = [outputs EXCEPT ![agent[n].next] = agent[n].exec]
            BY <2>9 DEF UploadOutput, counters, history
        <3>2. outputs' \in [OutPart -> Nat]
            BY <2>0, <3>1 DEF TypeOK, Agent
        <3> QED BY <2>1, <3>1, <3>2 DEF TypeOK
    <2>10. CASE PutEnvelope(n)
        <3>1. Result(n) \in Envelope
            BY <2>0 DEF Result, Envelope, Agent
        <3>2. /\ UNCHANGED <<group, ledger, outputs, execs, boots, redone, moved, lost, misread>>
              /\ faults' \in {faults, faults + 1} /\ leaving' \in SUBSET Nodes
              /\ envelope' \in {envelope, Result(n)}
            BY <2>10 DEF PutEnvelope, Fault, Exit, counters, history, TypeOK
        <3> QED BY <2>1, <3>1, <3>2 DEF TypeOK
    <2> QED
        BY <1>1, <2>2, <2>3, <2>4, <2>5, <2>6, <2>7, <2>8, <2>9, <2>10 DEF AgentStep, PlatformStep
<1>2. CASE GroupEnds
    BY <1>2 DEF GroupEnds, stored, counters, history, On, TypeOK
<1>3. CASE UNCHANGED vars
    BY <1>3 DEF vars, stored, counters, history, TypeOK
<1> QED BY <1>1, <1>2, <1>3 DEF Next

LEMMA OutputsLeftStep == TypeOK /\ OutputsLeft /\ [Next]_vars => OutputsLeft'
<1> SUFFICES ASSUME TypeOK, OutputsLeft, [Next]_vars PROVE OutputsLeft'
    OBVIOUS
<1>1. ASSUME NEW n \in Nodes, AgentStep(n) \/ PlatformStep(n) PROVE OutputsLeft'
    <2> DEFINE Left(a) == /\ a.pc \notin {"outputs", "report"} => a.next = 1
                          /\ a.pc = "outputs" => a.next \in OutPart
    <2>0. agent \in [Nodes -> Agent] /\ agent[n] \in Agent /\ Left(agent[n])
        BY DEF TypeOK, OutputsLeft
    <2>1. agent' = [agent EXCEPT ![n] = agent'[n]]
        BY <1>1, AgentTyped
    <2>2. ASSUME NEW m \in Nodes, m # n PROVE agent'[m] = agent[m]
        BY <2>0, <2>1, <2>2
    <2>3. Left(agent'[n])
        <3>1. CASE UploadOutput(n)
            <4>1. /\ agent'[n].pc = IF agent[n].next = 2 THEN "report" ELSE "outputs"
                  /\ agent'[n].next = agent[n].next + 1 /\ agent[n].pc = "outputs"
                BY <2>0, <3>1, TwoParts DEF UploadOutput, Agent
            <4> QED BY <2>0, <4>1, TwoParts
        <3>2. CASE ResumeCheck(n) \/ Kill(n) \/ PutEnvelope(n)
            <4>1. \/ agent'[n] = NoAgent
                  \/ agent[n].pc = "resume" /\ agent' = [agent EXCEPT ![n].pc = "probe"]
                BY <2>0, <3>2 DEF ResumeCheck, Kill, PutEnvelope, Exit, Go
            <4> QED BY <2>0, <4>1 DEF NoAgent, Agent
        <3>3. CASE CountBoot(n) \/ ProbeCheckpoint(n) \/ GateOpen(n) \/ AskToMove(n) \/ LingerOver(n) \/ Boot(n)
            <4>1. PICK p \in {"resume", "gate", "inputs", "linger", "ledger"} :
                      agent' = [agent EXCEPT ![n].pc = p]
                BY <3>3 DEF CountBoot, ProbeCheckpoint, GateOpen, AskToMove, LingerOver, Boot, Go
            <4>2. agent[n].pc \notin {"outputs", "report"}
                BY <2>0, <3>3 DEF CountBoot, ProbeCheckpoint, GateOpen, AskToMove, LingerOver, Boot, On
            <4> QED BY <2>0, <4>1, <4>2 DEF Agent
        <3>4. CASE LoadLedger(n) \/ GateShut(n) \/ StartExec(n)
            <4>1. /\ agent[n].pc \notin {"outputs", "report"} /\ agent'[n].next = agent[n].next
                  /\ agent'[n].pc \notin {"outputs", "report"}
                BY <2>0, <3>4 DEF LoadLedger, GateShut, StartExec, Agent
            <4> QED BY <2>0, <4>1
        <3>5. CASE EndExec(n)
            <4>1. agent[n].pc = "exec" /\ agent'[n].next = agent[n].next
                  /\ agent'[n].pc \in {"outputs", "report"}
                BY <2>0, <3>5 DEF EndExec, Agent
            <4> QED BY <2>0, <4>1, TwoParts
        <3>6. CASE FailsBeforeExec(n) \/ OutputFails(n)
            BY <2>0, <3>6 DEF FailsBeforeExec, OutputFails, Agent
        <3>7. CASE Leave(n)
            BY <2>0, <3>7 DEF Leave
        <3> QED
            BY <1>1, <3>1, <3>2, <3>3, <3>4, <3>5, <3>6, <3>7 DEF AgentStep, PlatformStep
    <2> QED BY <2>2, <2>3 DEF OutputsLeft
<1>2. CASE GroupEnds \/ UNCHANGED vars
    BY <1>2 DEF GroupEnds, vars, OutputsLeft
<1> QED BY <1>1, <1>2 DEF Next

\* RunAgent is well typed, for any nodes, caps and bounds.
THEOREM AgentTypeCorrect == Spec => []TypeOK
<1>1. TypeOK /\ OutputsLeft /\ [Next]_vars => TypeOK' /\ OutputsLeft'
    BY TypedStep, OutputsLeftStep
<1> QED BY InitTyped, <1>1, PTL DEF Spec
-----------------------------------------------------------------------------
(***************************************************************************)
(* From here on the container is in one place: the platform starts it      *)
(* nowhere before the last node is gone.                                   *)
(***************************************************************************)
OneHome == \A m, n \in Nodes : m = n

Failures == {"Failed", "AgentError"}

\* Steps that touch neither what is stored nor the histories.
Quiet(n) == ProbeCheckpoint(n) \/ GateOpen(n) \/ GateShut(n) \/ LingerOver(n) \/ StartExec(n)
            \/ EndExec(n) \/ FailsBeforeExec(n) \/ OutputFails(n) \/ Boot(n) \/ Leave(n) \/ Kill(n)

LEMMA QuietSteps ==
    ASSUME NEW n \in Nodes, Quiet(n)
    PROVE  UNCHANGED <<envelope, ledger, outputs, redone, moved, lost, misread>>
BY DEF Quiet, ProbeCheckpoint, GateOpen, GateShut, LingerOver, StartExec, EndExec, FailsBeforeExec,
       OutputFails, Boot, Leave, Kill, stored, history

\* What each step does to the node's own state.
LEMMA AgentMoves ==
    ASSUME TypeOK, NEW n \in Nodes
    PROVE  /\ Boot(n) => agent[n].pc = "off" /\ agent'[n] = [agent[n] EXCEPT !.pc = "ledger"]
           /\ Leave(n) => agent'[n] = agent[n]
           /\ Kill(n) => agent'[n] = NoAgent
           /\ ProbeCheckpoint(n) => agent[n].pc = "probe" /\ agent'[n] = [agent[n] EXCEPT !.pc = "gate"]
           /\ GateOpen(n) => agent[n].pc = "gate" /\ agent'[n] = [agent[n] EXCEPT !.pc = "inputs"]
           /\ LingerOver(n) => agent[n].pc = "linger" /\ agent'[n] = [agent[n] EXCEPT !.pc = "inputs"]
           /\ CountBoot(n) => agent[n].pc = "count" /\ agent'[n] = [agent[n] EXCEPT !.pc = "resume"]
           /\ AskToMove(n) => agent[n].pc = "move" /\ agent'[n] = [agent[n] EXCEPT !.pc = "linger"]
<1>1. agent \in [Nodes -> Agent] /\ agent[n] \in Agent
    BY DEF TypeOK
<1>2. ASSUME NEW p, Go(n, p) PROVE agent'[n] = [agent[n] EXCEPT !.pc = p]
    BY <1>1, <1>2 DEF Go
<1>3. Boot(n) => agent[n].pc = "off" /\ agent'[n] = [agent[n] EXCEPT !.pc = "ledger"]
    BY <1>2 DEF Boot, On
<1>4. Leave(n) => agent'[n] = agent[n]
    BY DEF Leave
<1>5. Kill(n) => agent'[n] = NoAgent
    BY <1>1 DEF Kill, Exit
<1> QED
    BY <1>2, <1>3, <1>4, <1>5
       DEF ProbeCheckpoint, GateOpen, LingerOver, CountBoot, AskToMove

\* What the outputs and the envelope have to do with each other and with the node.
OutputsKept(n) ==
    /\ envelope.exec # 0 => envelope.status = "Succeeded"
    /\ envelope.exec # 0 /\ ~misread => \A p \in OutPart : outputs[p] = envelope.exec
    /\ envelope.status = "Succeeded" /\ ~misread
          => agent[n].pc \in {"off", "ledger", "count", "resume"}
    /\ agent[n].pc = "outputs" => \A p \in OutPart : p < agent[n].next => outputs[p] = agent[n].exec
    /\ agent[n].pc = "report" /\ agent[n].status = "Succeeded"
          => \A p \in OutPart : outputs[p] = agent[n].exec

LEMMA OutputsKeptStep ==
    ASSUME TypeOK, OutputsLeft, NEW n \in Nodes, OutputsKept(n), AgentStep(n) \/ PlatformStep(n)
    PROVE  OutputsKept(n)'
<1>0. /\ agent \in [Nodes -> Agent] /\ agent[n] \in Agent
      /\ outputs \in [OutPart -> Nat] /\ envelope \in Envelope /\ misread \in BOOLEAN
    BY DEF TypeOK
<1>1. CASE Quiet(n)
    <2>1. UNCHANGED <<envelope, outputs, misread>>
        BY <1>1, QuietSteps
    <2>2. \/ agent'[n] = agent[n]
          \/ /\ agent[n].pc \in {"off"} /\ agent'[n].pc = "ledger"
          \/ agent'[n] = NoAgent
          \/ /\ agent[n].pc \in {"probe", "gate", "linger", "inputs"}
             /\ agent'[n].pc \in {"gate", "inputs", "move", "exec"}
          \/ /\ agent[n].pc \in {"probe", "inputs", "outputs", "exec"}
             /\ agent'[n].pc = "report" /\ agent'[n].status # "Succeeded"
          \/ agent[n].pc = "exec" /\ agent'[n].pc = "outputs" /\ agent'[n].next = agent[n].next
        <3>1. CASE ProbeCheckpoint(n) \/ GateOpen(n) \/ LingerOver(n) \/ Boot(n) \/ Leave(n) \/ Kill(n)
            BY <1>0, <3>1, AgentMoves DEF Agent
        <3>2. CASE GateShut(n) \/ StartExec(n)
            BY <1>0, <3>2 DEF GateShut, StartExec, Agent
        <3>3. CASE EndExec(n)
            BY <1>0, <3>3 DEF EndExec, Agent
        <3>4. CASE FailsBeforeExec(n) \/ OutputFails(n)
            BY <1>0, <3>4 DEF FailsBeforeExec, OutputFails, Agent
        <3> QED BY <1>1, <3>1, <3>2, <3>3, <3>4 DEF Quiet
    <2>3. agent[n].pc = "exec" => \A p \in OutPart : ~(p < agent[n].next)
        BY <1>0, TwoParts DEF OutputsLeft, Agent
    <2> QED BY <2>1, <2>2, <2>3 DEF OutputsKept, NoAgent
<1>2. CASE LoadLedger(n) \/ CountBoot(n) \/ AskToMove(n)
    <2>1. UNCHANGED <<envelope, outputs, misread>>
        BY <1>2 DEF LoadLedger, CountBoot, AskToMove, stored
    <2>2. \/ agent[n].pc = "ledger" /\ agent'[n].pc = "count"
          \/ agent[n].pc = "count" /\ agent'[n].pc = "resume"
          \/ agent[n].pc = "move" /\ agent'[n].pc = "linger"
        BY <1>0, <1>2, AgentMoves DEF LoadLedger, Agent
    <2> QED BY <2>1, <2>2 DEF OutputsKept
<1>3. CASE ResumeCheck(n)
    <2>1. UNCHANGED <<envelope, outputs>> /\ agent[n].pc = "resume"
        BY <1>3 DEF ResumeCheck, stored
    <2>2. PICK seen \in {envelope, NoEnvelope} :
              /\ misread' = (misread \/ seen # envelope)
              /\ \/ NothingToDo(n, seen) /\ Exit(n)
                 \/ ~NothingToDo(n, seen) /\ Go(n, "probe")
        BY <1>3 DEF ResumeCheck
    <2>3. CASE agent'[n].pc = "off"
        BY <2>1, <2>2, <2>3 DEF OutputsKept
    <2>4. CASE ~NothingToDo(n, seen) /\ Go(n, "probe")
        <3>1. agent'[n].pc = "probe"
            BY <1>0, <2>4 DEF Go, Agent
        <3>2. envelope.status = "Succeeded" => misread'
            BY <2>2, <2>4 DEF NothingToDo, TerminalForResume
        <3>3. misread => misread'
            BY <2>2
        <3> QED BY <2>1, <3>1, <3>2, <3>3 DEF OutputsKept
    <2> QED BY <1>0, <2>2, <2>3, <2>4 DEF Exit, NoAgent
<1>4. CASE UploadOutput(n)
    <2>1. /\ UNCHANGED <<envelope, misread>> /\ agent[n].pc = "outputs" /\ agent[n].next \in {1, 2}
          /\ outputs' = [outputs EXCEPT ![agent[n].next] = agent[n].exec]
        BY <1>4, TwoParts DEF UploadOutput, OutputsLeft, history
    <2>2. /\ agent'[n].pc = IF agent[n].next = 2 THEN "report" ELSE "outputs"
          /\ agent'[n].next = agent[n].next + 1 /\ agent'[n].exec = agent[n].exec
        BY <1>0, <1>4, TwoParts DEF UploadOutput, Agent
    <2>3. ~misread => envelope.status # "Succeeded" /\ envelope.exec = 0
        BY <2>1 DEF OutputsKept
    <2>4. \A p \in OutPart : p < agent'[n].next => outputs'[p] = agent'[n].exec
        BY <1>0, <2>1, <2>2, TwoParts DEF OutputsKept
    <2>5. agent'[n].pc = "report" => \A p \in OutPart : outputs'[p] = agent'[n].exec
        BY <2>1, <2>2, <2>4, TwoParts
    <2> QED BY <2>1, <2>2, <2>3, <2>4, <2>5 DEF OutputsKept
<1>5. CASE PutEnvelope(n)
    <2>1. UNCHANGED <<outputs, misread>> /\ envelope' \in {envelope, Result(n)}
        BY <1>5 DEF PutEnvelope, history
    <2>2. agent[n].pc = "report" /\ agent'[n].pc = "off"
        BY <1>0, <1>5 DEF PutEnvelope, Exit, NoAgent
    <2>3. /\ Result(n).status = agent[n].status
          /\ Result(n).exec = IF agent[n].status = "Succeeded" THEN agent[n].exec ELSE 0
        BY DEF Result
    <2> QED BY <2>1, <2>2, <2>3 DEF OutputsKept
<1> QED
    BY <1>1, <1>2, <1>3, <1>4, <1>5 DEF AgentStep, PlatformStep, Quiet

\* A committed success lists what storage holds, if the container is in one place at a
\* time: for any number of attempts cut short after any part.
THEOREM OutputsMatch == OneHome /\ Spec => []OutputsMatchEnvelope
<1> DEFINE Inv == OneHome /\ TypeOK /\ OutputsLeft /\ \A n \in Nodes : OutputsKept(n)
           Whole == envelope.exec # 0 /\ ~misread => \A p \in OutPart : outputs[p] = envelope.exec
           IInv == Inv /\ Whole
<1>1. OneHome /\ Init => IInv
    <2>1. OneHome /\ Init => Whole /\ \A n \in Nodes : OutputsKept(n)
        BY DEF Init, NoEnvelope, NoAgent, OutputsKept
    <2> QED BY <2>1, InitTyped
<1>2. IInv /\ [Next]_vars => IInv'
    <2> SUFFICES ASSUME IInv, [Next]_vars PROVE IInv'
        OBVIOUS
    <2>1. (OneHome /\ TypeOK /\ OutputsLeft)'
        BY TypedStep, OutputsLeftStep DEF OneHome
    <2>2. CASE \E n \in Nodes : AgentStep(n) \/ PlatformStep(n)
        BY <2>1, <2>2, OutputsKeptStep DEF OneHome, OutputsKept
    <2>3. CASE GroupEnds \/ UNCHANGED vars
        <3>1. UNCHANGED <<envelope, outputs, agent, misread>>
            BY <2>3 DEF GroupEnds, vars, stored, history
        <3> QED BY <2>1, <3>1 DEF OutputsKept
    <2> QED BY <2>2, <2>3 DEF Next
<1>3. IInv => OutputsMatchEnvelope
    BY DEF OutputsMatchEnvelope
<1> QED BY <1>1, <1>2, <1>3, PTL DEF Spec
-----------------------------------------------------------------------------
(***************************************************************************)
(* The two caps.  A request that went wrong pays for one run of the cap.   *)
(***************************************************************************)
LEMMA LostPays ==
    ASSUME NEW m \in Nat, NEW l \in Nat
    PROVE  m * l \in Nat /\ m * (l + 1) = m * l + m /\ m * (1 + l) = m * l + m
<1>1. m * l \in Nat
    OBVIOUS
<1>2. m * (l + 1) = m * l + m
    OBVIOUS
<1> QED BY <1>1, <1>2

Cap == MaxReallocs * lost

\* The reallocations asked for, against those the ledger and the node know of.
MovesCounted(n) ==
    /\ ledger.reallocs <= MaxReallocs /\ moved <= Cap + ledger.reallocs
    /\ agent[n].pc \notin {"off", "ledger"} => agent[n].attempts.reallocs <= MaxReallocs
    /\ agent[n].pc \in {"count", "resume", "probe", "gate"}
          => moved <= Cap + agent[n].attempts.reallocs
    /\ agent[n].pc = "move" => moved + 1 <= Cap + agent[n].attempts.reallocs

LEMMA MovesCountedStep ==
    ASSUME TypeOK, OutputsLeft, NEW n \in Nodes, MovesCounted(n), AgentStep(n) \/ PlatformStep(n)
    PROVE  MovesCounted(n)'
<1>0. /\ agent \in [Nodes -> Agent] /\ agent[n] \in Agent /\ agent[n].attempts \in Ledger
      /\ agent[n].attempts.reallocs \in Nat
      /\ ledger \in Ledger /\ ledger.reallocs \in Nat /\ lost \in Nat /\ moved \in Nat
      /\ MaxReallocs \in Nat /\ Cap \in Nat
    <2>1. ledger \in Ledger /\ lost \in Nat /\ moved \in Nat /\ agent[n] \in Agent
        BY DEF TypeOK
    <2> QED BY <2>1, RunAssumption, LostPays DEF TypeOK, Agent, Ledger, Cap
<1>00. /\ lost' = lost => Cap' = Cap
       /\ lost' = lost + 1 => Cap' = Cap + MaxReallocs
    BY <1>0, LostPays DEF Cap
<1>1. CASE Quiet(n)
    <2>1. ledger' = ledger /\ moved' = moved /\ Cap' = Cap
        BY <1>1, <1>00, QuietSteps
    <2>2. \/ agent'[n] = agent[n]
          \/ agent'[n].pc \in {"off", "ledger"}
          \/ /\ agent[n].pc = "probe" /\ agent'[n].pc = "gate"
             /\ agent'[n].attempts = agent[n].attempts
          \/ /\ agent[n].pc \notin {"off", "ledger"}
             /\ agent'[n].pc \in {"inputs", "exec", "outputs", "report"}
             /\ agent'[n].attempts = agent[n].attempts
          \/ /\ agent[n].pc = "gate" /\ agent'[n].pc = "move"
             /\ agent[n].attempts.reallocs < MaxReallocs
             /\ agent'[n].attempts.reallocs = agent[n].attempts.reallocs + 1
        <3>1. CASE Boot(n) \/ Leave(n) \/ Kill(n)
            <4>1. NoAgent.pc = "off" /\ [agent[n] EXCEPT !.pc = "ledger"].pc = "ledger"
                BY <1>0 DEF NoAgent, Agent
            <4> QED BY <3>1, <4>1, AgentMoves
        <3>2. CASE ProbeCheckpoint(n) \/ GateOpen(n) \/ LingerOver(n)
            <4>1. agent'[n].attempts = agent[n].attempts
                BY <1>0, <3>2, AgentMoves DEF Agent
            <4>2. \/ agent[n].pc = "probe" /\ agent'[n].pc = "gate"
                  \/ agent[n].pc \in {"gate", "linger"} /\ agent'[n].pc = "inputs"
                BY <1>0, <3>2, AgentMoves DEF Agent
            <4> QED BY <4>1, <4>2
        <3>5. CASE StartExec(n)
            <4>1. agent'[n] = [agent[n] EXCEPT !.exec = execs + 1, !.pc = "exec"]
                BY <1>0, <3>5 DEF StartExec
            <4> QED BY <1>0, <3>5, <4>1 DEF StartExec, Agent
        <3>6. CASE EndExec(n)
            <4>1. PICK s \in JobStatus :
                      agent'[n] = [agent[n] EXCEPT !.status = s,
                                                   !.pc = IF s = "Succeeded" THEN "outputs" ELSE "report"]
                BY <1>0, <3>6 DEF EndExec
            <4> QED BY <1>0, <3>6, <4>1 DEF EndExec, Agent
        <3>3. CASE GateShut(n)
            <4>1. agent'[n] = [agent[n] EXCEPT !.attempts = [agent[n].attempts EXCEPT !.reallocs = @ + 1],
                                               !.pc = "move"]
                BY <1>0, <3>3 DEF GateShut
            <4> QED BY <1>0, <3>3, <4>1 DEF GateShut, Agent, Ledger
        <3>4. CASE FailsBeforeExec(n) \/ OutputFails(n)
            BY <1>0, <3>4 DEF FailsBeforeExec, OutputFails, Agent
        <3> QED BY <1>1, <3>1, <3>2, <3>3, <3>4, <3>5, <3>6 DEF Quiet
    <2> QED BY <1>0, <2>1, <2>2 DEF MovesCounted
<1>2. CASE LoadLedger(n)
    <2>1. PICK seen \in {ledger, NoLedger} :
              /\ FetchAs(ledger, NoLedger, seen)
              /\ agent' = [agent EXCEPT ![n].attempts = [seen EXCEPT !.boots = @ + 1],
                                        ![n].pc = "count"]
        BY <1>2 DEF LoadLedger
    <2>2. ledger' = ledger /\ moved' = moved
        BY <1>2 DEF LoadLedger, stored
    <2>3. \/ seen = ledger /\ lost' = lost
          \/ seen.reallocs = 0 /\ lost' = lost + 1
        BY <2>1, FetchCounts DEF NoLedger
    <2>4. seen \in Ledger
        BY <1>0 DEF Ledger, NoLedger
    <2>5. agent'[n].pc = "count" /\ agent'[n].attempts.reallocs = seen.reallocs
        BY <1>0, <2>1, <2>4 DEF Agent, Ledger
    <2> QED BY <1>0, <1>00, <2>2, <2>3, <2>5 DEF MovesCounted
<1>3. CASE CountBoot(n) \/ AskToMove(n)
    <2>1. \/ agent[n].pc = "count" /\ agent'[n].pc = "resume" /\ moved' = moved
          \/ agent[n].pc = "move" /\ agent'[n].pc = "linger" /\ moved' \in {moved, moved + 1}
        BY <1>0, <1>3, AgentMoves DEF CountBoot, AskToMove, Agent
    <2>2. agent'[n].attempts = agent[n].attempts
        BY <1>0, <1>3, AgentMoves DEF Agent
    <2>3. \/ ledger' = agent[n].attempts /\ lost' = lost
          \/ ledger' = ledger /\ lost' = lost + 1
        BY <1>3, PutCounts DEF CountBoot, AskToMove
    <2> QED BY <1>0, <1>00, <2>1, <2>2, <2>3 DEF MovesCounted
<1>4. CASE ResumeCheck(n)
    <2>1. ledger' = ledger /\ moved' = moved /\ agent[n].pc = "resume"
        BY <1>4 DEF ResumeCheck, stored
    <2>2. lost' = lost \/ lost' = lost + 1
        BY <1>4, FetchCounts DEF ResumeCheck
    <2>3. \/ agent'[n].pc = "off"
          \/ agent'[n].pc = "probe" /\ agent'[n].attempts = agent[n].attempts
        <3>1. agent' = [agent EXCEPT ![n] = NoAgent] \/ agent' = [agent EXCEPT ![n].pc = "probe"]
            BY <1>4 DEF ResumeCheck, Exit, Go
        <3> QED BY <1>0, <3>1 DEF NoAgent, Agent
    <2> QED BY <1>0, <1>00, <2>1, <2>2, <2>3 DEF MovesCounted
<1>5. CASE UploadOutput(n) \/ PutEnvelope(n)
    <2>1. UNCHANGED <<ledger, moved, lost>>
        BY <1>5 DEF UploadOutput, PutEnvelope, history
    <2>2. agent[n].pc \notin {"off", "ledger"}
        BY <1>5 DEF UploadOutput, PutEnvelope
    <2>3. \/ agent'[n].pc = "off"
          \/ agent'[n].pc \in {"outputs", "report"} /\ agent'[n].attempts = agent[n].attempts
        BY <1>0, <1>5 DEF UploadOutput, PutEnvelope, Exit, NoAgent, Agent
    <2> QED BY <1>0, <1>00, <2>1, <2>2, <2>3 DEF MovesCounted
<1> QED
    BY <1>1, <1>2, <1>3, <1>4, <1>5 DEF AgentStep, PlatformStep, Quiet

\* The gate asks for at most max_reallocations moves, and as many again for each ledger
\* request that went wrong, if the container is in one place at a time.
THEOREM MovesLimited == OneHome /\ Spec => []MovesWithinLimit
<1> DEFINE Inv == OneHome /\ TypeOK /\ OutputsLeft /\ \A n \in Nodes : MovesCounted(n)
           Known == ledger.reallocs <= MaxReallocs /\ moved <= Cap + ledger.reallocs
           IInv == Inv /\ Known
<1>1. OneHome /\ Init => IInv
    <2>1. Init => Cap \in Nat
        BY RunAssumption, LostPays DEF Init, Cap
    <2>2. Init => Known /\ \A n \in Nodes : MovesCounted(n)
        BY <2>1, RunAssumption DEF Init, NoLedger, NoAgent, MovesCounted
    <2> QED BY <2>2, InitTyped
<1>2. IInv /\ [Next]_vars => IInv'
    <2> SUFFICES ASSUME IInv, [Next]_vars PROVE IInv'
        OBVIOUS
    <2>1. (OneHome /\ TypeOK /\ OutputsLeft)'
        BY TypedStep, OutputsLeftStep DEF OneHome
    <2>2. CASE \E n \in Nodes : AgentStep(n) \/ PlatformStep(n)
        BY <2>1, <2>2, MovesCountedStep DEF OneHome, MovesCounted
    <2>3. CASE GroupEnds \/ UNCHANGED vars
        <3>1. UNCHANGED <<ledger, agent, moved, lost>>
            BY <2>3 DEF GroupEnds, vars, stored, history
        <3> QED BY <2>1, <3>1 DEF MovesCounted, Cap
    <2> QED BY <2>2, <2>3 DEF Next
<1>3. IInv => MovesWithinLimit
    <2> SUFFICES ASSUME IInv PROVE MovesWithinLimit
        OBVIOUS
    <2>1. /\ ledger.reallocs \in Nat /\ lost \in Nat /\ moved \in Nat
          /\ Cap \in Nat /\ MaxReallocs * (1 + lost) = Cap + MaxReallocs
        BY RunAssumption, LostPays DEF TypeOK, Ledger, Cap
    <2> QED BY <2>1, RunAssumption DEF MovesWithinLimit
<1> QED BY <1>1, <1>2, <1>3, PTL DEF Spec
-----------------------------------------------------------------------------
Paid == MaxAttempts * lost

\* How many re-executions a count of b boots can have let through.
Credit(b) == IF b = 0 THEN 0 ELSE IF b < MaxAttempts THEN b - 1 ELSE MaxAttempts - 1

LEMMA CreditGrows ==
    ASSUME NEW b \in Nat
    PROVE  /\ Credit(b) \in Nat /\ Credit(b) + 1 <= MaxAttempts
           /\ Credit(b) <= Credit(b + 1)
           /\ b # 0 /\ b < MaxAttempts => Credit(b + 1) = Credit(b) + 1
           /\ b = 0 => Credit(b) = 0 /\ Credit(b + 1) = 0
BY RunAssumption DEF Credit

\* The node has passed the resume check in this boot.
Going == {"probe", "gate", "move", "linger", "inputs", "exec", "outputs", "report"}

\* Its boot is not yet in the ledger: a failure committed before may be redone once more.
Uncounted(n) ==
    /\ redone <= Paid + Credit(agent[n].attempts.boots - 1)
    /\ agent[n].attempts.boots = 1 /\ envelope.status \in Failures => redone < Paid

\* The PUT that should count it was lost, which has paid for it.
PaidFor(n) ==
    /\ redone + 1 <= Paid + Credit(ledger.boots)
    /\ redone + 1 <= Paid + Credit(agent[n].attempts.boots)
    /\ ledger.boots = 0 => redone < Paid
    /\ ledger.boots = 0 /\ envelope.status \in Failures => redone + 1 < Paid

RedoneCounted(n) ==
    /\ redone <= Paid + Credit(ledger.boots)
    /\ ledger.boots = 0 /\ (envelope.status \in Failures \/ agent[n].pc \in Going)
          => redone < Paid
    /\ agent[n].pc = "count" => agent[n].attempts.boots >= 1 /\ Uncounted(n)
    /\ agent[n].pc = "resume" =>
          /\ agent[n].attempts.boots >= 1
          /\ (ledger.boots = agent[n].attempts.boots /\ Uncounted(n)) \/ PaidFor(n)
    /\ agent[n].pc \in {"probe", "gate", "move"} =>
          /\ agent[n].attempts.boots >= 1
          /\ redone <= Paid + Credit(agent[n].attempts.boots)

LEMMA RedoneCountedStep ==
    ASSUME TypeOK, OutputsLeft, NEW n \in Nodes, RedoneCounted(n), AgentStep(n) \/ PlatformStep(n)
    PROVE  RedoneCounted(n)'
<1>0. /\ agent \in [Nodes -> Agent] /\ agent[n] \in Agent /\ agent[n].attempts \in Ledger
      /\ agent[n].attempts.boots \in Nat
      /\ ledger \in Ledger /\ ledger.boots \in Nat /\ lost \in Nat /\ redone \in Nat
      /\ envelope \in Envelope
      /\ MaxAttempts \in Nat \ {0} /\ Paid \in Nat
    <2>1. ledger \in Ledger /\ lost \in Nat /\ redone \in Nat /\ agent[n] \in Agent
        BY DEF TypeOK
    <2> QED BY <2>1, RunAssumption, LostPays DEF TypeOK, Agent, Ledger, Paid
<1>00. /\ lost' = lost => Paid' = Paid
       /\ lost' = lost + 1 => Paid' = Paid + MaxAttempts
    BY <1>0, LostPays DEF Paid
<1>1. CASE Quiet(n)
    <2>1. ledger' = ledger /\ redone' = redone /\ Paid' = Paid /\ envelope' = envelope
        BY <1>1, <1>00, QuietSteps
    <2>2. \/ agent'[n] = agent[n]
          \/ agent'[n].pc \in {"off", "ledger"}
          \/ /\ agent[n].pc \in {"probe", "gate"} /\ agent'[n].pc \in {"gate", "move"}
             /\ agent'[n].attempts.boots = agent[n].attempts.boots
          \/ /\ agent[n].pc \in Going
             /\ agent'[n].pc \in {"inputs", "exec", "outputs", "report"}
        <3>1. CASE Boot(n) \/ Leave(n) \/ Kill(n)
            <4>1. NoAgent.pc = "off" /\ [agent[n] EXCEPT !.pc = "ledger"].pc = "ledger"
                BY <1>0 DEF NoAgent, Agent
            <4> QED BY <3>1, <4>1, AgentMoves
        <3>2. CASE ProbeCheckpoint(n) \/ GateOpen(n) \/ LingerOver(n)
            <4>1. agent'[n].attempts = agent[n].attempts
                BY <1>0, <3>2, AgentMoves DEF Agent
            <4>2. \/ agent[n].pc = "probe" /\ agent'[n].pc = "gate"
                  \/ agent[n].pc \in {"gate", "linger"} /\ agent'[n].pc = "inputs"
                BY <1>0, <3>2, AgentMoves DEF Agent
            <4> QED BY <4>1, <4>2 DEF Going
        <3>5. CASE StartExec(n)
            <4>1. agent'[n] = [agent[n] EXCEPT !.exec = execs + 1, !.pc = "exec"]
                BY <1>0, <3>5 DEF StartExec
            <4> QED BY <1>0, <3>5, <4>1 DEF StartExec, Agent, Going
        <3>6. CASE EndExec(n)
            <4>1. PICK s \in JobStatus :
                      agent'[n] = [agent[n] EXCEPT !.status = s,
                                                   !.pc = IF s = "Succeeded" THEN "outputs" ELSE "report"]
                BY <1>0, <3>6 DEF EndExec
            <4> QED BY <1>0, <3>6, <4>1 DEF EndExec, Agent, Going
        <3>3. CASE GateShut(n)
            <4>1. agent'[n] = [agent[n] EXCEPT !.attempts = [agent[n].attempts EXCEPT !.reallocs = @ + 1],
                                               !.pc = "move"]
                BY <1>0, <3>3 DEF GateShut
            <4> QED BY <1>0, <3>3, <4>1 DEF GateShut, Agent, Ledger
        <3>4. CASE FailsBeforeExec(n) \/ OutputFails(n)
            BY <1>0, <3>4 DEF FailsBeforeExec, OutputFails, Agent, Going
        <3> QED BY <1>1, <3>1, <3>2, <3>3, <3>4, <3>5, <3>6 DEF Quiet
    <2> QED BY <1>0, <2>1, <2>2 DEF RedoneCounted, Uncounted, PaidFor, Going, Credit
<1>2. CASE LoadLedger(n)
    <2>1. PICK seen \in {ledger, NoLedger} :
              /\ FetchAs(ledger, NoLedger, seen)
              /\ agent' = [agent EXCEPT ![n].attempts = [seen EXCEPT !.boots = @ + 1],
                                        ![n].pc = "count"]
        BY <1>2 DEF LoadLedger
    <2>2. ledger' = ledger /\ redone' = redone /\ envelope' = envelope
        BY <1>2 DEF LoadLedger, stored
    <2>3. \/ seen = ledger /\ lost' = lost
          \/ seen.boots = 0 /\ lost' = lost + 1
        BY <2>1, FetchCounts DEF NoLedger
    <2>4. seen \in Ledger
        BY <1>0 DEF Ledger, NoLedger
    <2>5. agent'[n].pc = "count" /\ agent'[n].attempts.boots = seen.boots + 1 /\ seen.boots \in Nat
        BY <1>0, <2>1, <2>4 DEF Agent, Ledger
    <2>6. Credit(ledger.boots) + 1 <= MaxAttempts /\ Credit(ledger.boots) \in Nat
          /\ Credit(0) = 0
        BY <1>0, CreditGrows
    <2>7. redone <= Paid + Credit(ledger.boots)
          /\ (ledger.boots = 0 /\ envelope.status \in Failures => redone < Paid)
        BY DEF RedoneCounted
    <2>8. agent'[n].attempts.boots >= 1 /\ agent'[n].attempts.boots - 1 = seen.boots
        BY <2>5
    <2>9. CASE seen = ledger /\ lost' = lost
        <3>1. Uncounted(n)'
            <4>1. Paid' = Paid /\ agent'[n].attempts.boots - 1 = ledger.boots
                BY <1>00, <2>8, <2>9
            <4>2. agent'[n].attempts.boots = 1 => ledger.boots = 0
                BY <1>0, <2>5, <4>1
            <4>3. redone' <= Paid' + Credit(agent'[n].attempts.boots - 1)
                BY <2>2, <2>7, <4>1
            <4> QED BY <2>2, <2>7, <4>1, <4>2, <4>3 DEF Uncounted, Credit
        <3> QED BY <1>0, <1>00, <2>2, <2>5, <2>7, <2>8, <2>9, <3>1
               DEF RedoneCounted, Going, Credit
    <2>10. CASE seen.boots = 0 /\ lost' = lost + 1
        <3>1. Paid' = Paid + MaxAttempts /\ redone' < Paid'
            BY <1>0, <1>00, <2>2, <2>6, <2>7, <2>10
        <3>2. Uncounted(n)'
            BY <1>0, <2>2, <2>6, <2>8, <2>10, <3>1 DEF Uncounted, Credit
        <3> QED BY <1>0, <2>2, <2>5, <2>6, <2>8, <3>1, <3>2 DEF RedoneCounted, Going, Credit
    <2> QED BY <2>3, <2>9, <2>10
<1>3. CASE CountBoot(n)
    <2>1. agent[n].pc = "count" /\ agent'[n].pc = "resume" /\ agent'[n].attempts = agent[n].attempts
        BY <1>0, <1>3, AgentMoves DEF Agent
    <2>2. redone' = redone /\ envelope' = envelope
        BY <1>3 DEF CountBoot
    <2>3. agent[n].attempts.boots >= 1 /\ Uncounted(n) /\ redone <= Paid + Credit(ledger.boots)
          /\ (ledger.boots = 0 /\ envelope.status \in Failures => redone < Paid)
        BY <2>1 DEF RedoneCounted
    <2>4. CASE ledger' = agent[n].attempts /\ lost' = lost
        <3>1. Uncounted(n)'
            BY <1>0, <1>00, <2>1, <2>2, <2>3, <2>4 DEF Uncounted, Credit
        <3>2. Credit(agent[n].attempts.boots - 1) <= Credit(agent[n].attempts.boots)
            BY <1>0, <2>3 DEF Credit
        <3>3. Credit(agent[n].attempts.boots) \in Nat /\ Credit(agent[n].attempts.boots - 1) \in Nat
            BY <1>0, <2>3, CreditGrows
        <3>4. redone <= Paid + Credit(agent[n].attempts.boots)
            BY <1>0, <2>3, <3>2, <3>3 DEF Uncounted
        <3> QED BY <1>0, <1>00, <2>1, <2>2, <2>3, <2>4, <3>1, <3>4 DEF RedoneCounted, Going
    <2>5. CASE ledger' = ledger /\ lost' = lost + 1
        <3>1. Credit(ledger.boots) + 1 <= MaxAttempts /\ Credit(ledger.boots) \in Nat
            BY <1>0, CreditGrows
        <3>2. Credit(agent[n].attempts.boots) \in Nat
            BY <1>0, CreditGrows
        <3>3. ledger.boots = 0 => Credit(ledger.boots) = 0
            BY DEF Credit
        <3>4. PaidFor(n)'
            BY <1>0, <1>00, <2>1, <2>2, <2>3, <2>5, <3>1, <3>2, <3>3 DEF PaidFor
        <3> QED BY <1>0, <1>00, <2>1, <2>2, <2>3, <2>5, <3>1, <3>4 DEF RedoneCounted, Going
    <2> QED BY <1>3, <2>4, <2>5, PutCounts DEF CountBoot
<1>4. CASE AskToMove(n)
    <2>1. agent[n].pc = "move" /\ agent'[n].pc = "linger"
        BY <1>0, <1>4, AgentMoves DEF Agent
    <2>2. redone' = redone /\ envelope' = envelope
        BY <1>4 DEF AskToMove
    <2>3. agent[n].attempts.boots >= 1 /\ redone <= Paid + Credit(agent[n].attempts.boots)
        BY <2>1 DEF RedoneCounted
    <2>4. CASE ledger' = agent[n].attempts /\ lost' = lost
        BY <1>0, <1>00, <2>1, <2>2, <2>3, <2>4 DEF RedoneCounted, Going
    <2>5. CASE ledger' = ledger /\ lost' = lost + 1
        <3>1. Credit(ledger.boots) \in Nat
            BY <1>0, CreditGrows
        <3> QED BY <1>0, <1>00, <2>1, <2>2, <2>5, <3>1 DEF RedoneCounted, Going
    <2> QED BY <1>4, <2>4, <2>5, PutCounts DEF AskToMove
<1>5. CASE ResumeCheck(n)
    <2>1. ledger' = ledger /\ envelope' = envelope /\ agent[n].pc = "resume"
        BY <1>5 DEF ResumeCheck, stored
    <2>2. PICK seen \in {envelope, NoEnvelope} :
              /\ FetchAs(envelope, NoEnvelope, seen)
              /\ \/ Exit(n) /\ redone' = redone
                 \/ /\ ~NothingToDo(n, seen) /\ Go(n, "probe")
                    /\ redone' = redone + (IF envelope.status \in Failures THEN 1 ELSE 0)
        BY <1>5 DEF ResumeCheck, Failures
    <2>3. \/ seen = envelope /\ lost' = lost
          \/ seen = NoEnvelope /\ lost' = lost + 1
        BY <2>2, FetchCounts
    <2>4. /\ agent[n].attempts.boots >= 1 /\ redone <= Paid + Credit(ledger.boots)
          /\ ledger.boots = 0 /\ envelope.status \in Failures => redone < Paid
          /\ (ledger.boots = agent[n].attempts.boots /\ Uncounted(n)) \/ PaidFor(n)
        BY <2>1 DEF RedoneCounted
    <2>5. /\ Credit(ledger.boots) \in Nat /\ Credit(agent[n].attempts.boots) \in Nat
          /\ Credit(ledger.boots) + 1 <= MaxAttempts /\ Credit(agent[n].attempts.boots) + 1 <= MaxAttempts
        BY <1>0, CreditGrows
    <2>6. CASE Exit(n) /\ redone' = redone
        <3>1. agent'[n].pc = "off"
            BY <1>0, <2>6 DEF Exit, NoAgent
        <3>2. Paid' \in Nat /\ Paid <= Paid'
            BY <1>0, <1>00, <2>3
        <3> QED BY <1>0, <2>1, <2>4, <2>5, <2>6, <3>1, <3>2 DEF RedoneCounted, Going
    <2>7. CASE /\ ~NothingToDo(n, seen) /\ Go(n, "probe")
               /\ redone' = redone + (IF envelope.status \in Failures THEN 1 ELSE 0)
        <3>1. agent'[n].pc = "probe" /\ agent'[n].attempts = agent[n].attempts
            BY <1>0, <2>7 DEF Go, Agent
        <3>2. redone' \in Nat /\ redone' <= redone + 1
              /\ (envelope.status \notin Failures => redone' = redone)
            BY <1>0, <2>7
        <3>3. CASE seen = NoEnvelope /\ lost' = lost + 1
            <4>1. Paid' = Paid + MaxAttempts
                BY <1>00, <3>3
            <4>2. redone' <= Paid' + Credit(ledger.boots)
                BY <1>0, <2>4, <2>5, <3>2, <4>1
            <4>3. redone' <= Paid' + Credit(agent[n].attempts.boots)
                <5>1. CASE PaidFor(n)
                    BY <1>0, <2>5, <3>2, <4>1, <5>1 DEF PaidFor
                <5>2. CASE ledger.boots = agent[n].attempts.boots
                    BY <4>2, <5>2
                <5> QED BY <2>4, <5>1, <5>2
            <4>4. ledger.boots = 0 => redone' < Paid'
                <5>1. CASE PaidFor(n)
                    BY <1>0, <3>2, <4>1, <5>1 DEF PaidFor
                <5>2. CASE ledger.boots = agent[n].attempts.boots
                    BY <2>4, <5>2
                <5> QED BY <2>4, <5>1, <5>2
            <4> QED BY <2>1, <2>4, <3>1, <4>2, <4>3, <4>4 DEF RedoneCounted
        <3>4. CASE seen = envelope /\ lost' = lost
            <4>1. Paid' = Paid
                BY <1>00, <3>4
            <4>2. envelope.status \in Failures => agent[n].attempts.boots <= MaxAttempts
                BY <1>0, <2>7, <3>4 DEF NothingToDo, Failures
            <4>3. CASE PaidFor(n)
                <5>1. /\ redone' <= Paid' + Credit(ledger.boots)
                      /\ redone' <= Paid' + Credit(agent[n].attempts.boots)
                    BY <1>0, <2>5, <3>2, <4>1, <4>3 DEF PaidFor
                <5>2. ledger.boots = 0 => redone' < Paid'
                    BY <1>0, <3>2, <2>7, <4>1, <4>3 DEF PaidFor
                <5> QED BY <2>1, <2>4, <3>1, <5>1, <5>2 DEF RedoneCounted
            <4>4. CASE ledger.boots = agent[n].attempts.boots /\ Uncounted(n)
                <5>1. redone' <= Paid' + Credit(agent[n].attempts.boots)
                    <6>1. CASE envelope.status \notin Failures
                        BY <1>0, <2>4, <3>2, <4>1, <4>4, <6>1
                    <6>2. CASE envelope.status \in Failures /\ agent[n].attempts.boots = 1
                        BY <1>0, <2>5, <3>2, <4>1, <4>4, <6>2 DEF Uncounted
                    <6>3. CASE envelope.status \in Failures /\ agent[n].attempts.boots # 1
                        <7>1. Credit(agent[n].attempts.boots) = Credit(agent[n].attempts.boots - 1) + 1
                              /\ Credit(agent[n].attempts.boots - 1) \in Nat
                            BY <1>0, <2>4, <4>2, <6>3 DEF Credit
                        <7> QED BY <1>0, <3>2, <4>1, <4>4, <7>1 DEF Uncounted
                    <6> QED BY <6>1, <6>2, <6>3
                <5> QED BY <1>0, <2>1, <2>4, <3>1, <4>4, <5>1 DEF RedoneCounted
            <4> QED BY <2>4, <4>3, <4>4
        <3> QED BY <2>3, <3>3, <3>4
    <2> QED BY <2>2, <2>6, <2>7
<1>6. CASE UploadOutput(n)
    <2>1. UNCHANGED <<ledger, redone, lost, envelope>>
        BY <1>6 DEF UploadOutput, history
    <2>2. agent[n].pc = "outputs" /\ agent'[n].pc \in {"outputs", "report"}
        BY <1>0, <1>6 DEF UploadOutput, Agent
    <2> QED BY <1>0, <1>00, <2>1, <2>2 DEF RedoneCounted, Going
<1>7. CASE PutEnvelope(n)
    <2>1. UNCHANGED <<ledger, redone, lost>>
        BY <1>7 DEF PutEnvelope, history
    <2>2. agent[n].pc = "report" /\ agent'[n].pc = "off"
        BY <1>0, <1>7 DEF PutEnvelope, Exit, NoAgent
    <2> QED BY <1>0, <1>00, <2>1, <2>2 DEF RedoneCounted, Going
<1> QED
    BY <1>1, <1>2, <1>3, <1>4, <1>5, <1>6, <1>7 DEF AgentStep, PlatformStep, Quiet

\* A committed failure is re-executed less than max_attempts times, and max_attempts
\* times more for each ledger or envelope request that went wrong, if the container is in
\* one place at a time.
THEOREM RedoneLimited == OneHome /\ Spec => []RedoneWithinCap
<1> DEFINE Inv == OneHome /\ TypeOK /\ OutputsLeft /\ \A n \in Nodes : RedoneCounted(n)
           Known == redone <= Paid + Credit(ledger.boots)
           IInv == Inv /\ Known
<1>1. OneHome /\ Init => IInv
    <2>1. Init => Paid \in Nat /\ Credit(0) = 0
        BY RunAssumption, LostPays DEF Init, Paid, Credit
    <2>2. Init => Known /\ \A n \in Nodes : RedoneCounted(n)
        BY <2>1 DEF Init, NoLedger, NoAgent, NoEnvelope, RedoneCounted, Going, Failures
    <2> QED BY <2>2, InitTyped
<1>2. IInv /\ [Next]_vars => IInv'
    <2> SUFFICES ASSUME IInv, [Next]_vars PROVE IInv'
        OBVIOUS
    <2>1. (OneHome /\ TypeOK /\ OutputsLeft)'
        BY TypedStep, OutputsLeftStep DEF OneHome
    <2>2. CASE \E n \in Nodes : AgentStep(n) \/ PlatformStep(n)
        BY <2>1, <2>2, RedoneCountedStep DEF OneHome, RedoneCounted
    <2>3. CASE GroupEnds \/ UNCHANGED vars
        <3>1. UNCHANGED <<envelope, ledger, agent, redone, lost>>
            BY <2>3 DEF GroupEnds, vars, stored, history
        <3> QED BY <2>1, <3>1 DEF RedoneCounted, Uncounted, PaidFor, Paid
    <2> QED BY <2>2, <2>3 DEF Next
<1>3. IInv => RedoneWithinCap
    <2> SUFFICES ASSUME IInv PROVE RedoneWithinCap
        OBVIOUS
    <2>1. /\ ledger.boots \in Nat /\ lost \in Nat /\ redone \in Nat
          /\ Paid \in Nat /\ MaxAttempts * (1 + lost) = Paid + MaxAttempts
        BY RunAssumption, LostPays DEF TypeOK, Ledger, Paid
    <2>2. Credit(ledger.boots) \in Nat /\ Credit(ledger.boots) + 1 <= MaxAttempts
        BY <2>1, CreditGrows
    <2> QED BY <2>1, <2>2, RunAssumption DEF RedoneWithinCap
<1> QED BY <1>1, <1>2, <1>3, PTL DEF Spec
-----------------------------------------------------------------------------
(***************************************************************************)
(* Seen from outside.                                                      *)
(***************************************************************************)
\* Once a final result stands that every boot reads, no node gets past the resume check;
\* and who reports knows how the run went.
FinalHolds(n) ==
    /\ envelope.status \in TerminalForResume /\ ~misread
          => agent[n].pc \in {"off", "ledger", "count", "resume"}
    /\ agent[n].pc \in {"outputs", "report"} => agent[n].status \in JobStatus

\* Whether the node runs, before and after a step.
LEMMA RunningOrNot ==
    ASSUME OneHome, TypeOK, NEW n \in Nodes
    PROVE  /\ (On # {}) <=> (agent[n].pc # "off")
           /\ (On # {})' <=> (agent'[n].pc # "off")
BY DEF OneHome, On

LEMMA FinalHoldsStep ==
    ASSUME TypeOK, OutputsLeft, NEW n \in Nodes, FinalHolds(n), AgentStep(n) \/ PlatformStep(n)
    PROVE  FinalHolds(n)'
<1>0. agent \in [Nodes -> Agent] /\ agent[n] \in Agent /\ misread \in BOOLEAN
    BY DEF TypeOK
<1>1. CASE Quiet(n)
    <2>1. UNCHANGED <<envelope, misread>>
        BY <1>1, QuietSteps
    <2>2. \/ agent'[n] = agent[n]
          \/ agent'[n].pc \in {"off", "ledger"}
          \/ /\ agent[n].pc \in {"probe", "gate", "linger", "inputs"}
             /\ agent'[n].pc \in {"gate", "inputs", "move", "exec"}
          \/ /\ agent[n].pc \in {"probe", "inputs", "outputs", "exec"}
             /\ agent'[n].pc \in {"outputs", "report"} /\ agent'[n].status \in JobStatus
        <3>1. CASE Boot(n) \/ Leave(n) \/ Kill(n)
            <4>1. NoAgent.pc = "off" /\ [agent[n] EXCEPT !.pc = "ledger"].pc = "ledger"
                BY <1>0 DEF NoAgent, Agent
            <4> QED BY <3>1, <4>1, AgentMoves
        <3>2. CASE ProbeCheckpoint(n) \/ GateOpen(n) \/ LingerOver(n)
            BY <1>0, <3>2, AgentMoves DEF Agent
        <3>3. CASE GateShut(n) \/ StartExec(n)
            BY <1>0, <3>3 DEF GateShut, StartExec, Agent
        <3>4. CASE EndExec(n)
            <4>1. PICK s \in JobStatus :
                      agent'[n] = [agent[n] EXCEPT !.status = s,
                                                   !.pc = IF s = "Succeeded" THEN "outputs"
                                                          ELSE "report"]
                BY <1>0, <3>4 DEF EndExec
            <4>2. agent[n].pc = "exec"
                BY <3>4 DEF EndExec
            <4> QED BY <1>0, <4>1, <4>2 DEF Agent
        <3>5. CASE FailsBeforeExec(n) \/ OutputFails(n)
            BY <1>0, <3>5 DEF FailsBeforeExec, OutputFails, Agent, JobStatus
        <3> QED BY <1>1, <3>1, <3>2, <3>3, <3>4, <3>5 DEF Quiet
    <2> QED BY <2>1, <2>2 DEF FinalHolds
<1>2. CASE LoadLedger(n) \/ CountBoot(n) \/ AskToMove(n)
    <2>1. UNCHANGED <<envelope, misread>>
        BY <1>2 DEF LoadLedger, CountBoot, AskToMove, stored
    <2>2. \/ agent[n].pc = "ledger" /\ agent'[n].pc = "count"
          \/ agent[n].pc = "count" /\ agent'[n].pc = "resume"
          \/ agent[n].pc = "move" /\ agent'[n].pc = "linger"
        <3>1. CASE LoadLedger(n)
            BY <1>0, <3>1 DEF LoadLedger, Agent
        <3>2. CASE CountBoot(n) \/ AskToMove(n)
            BY <1>0, <3>2, AgentMoves DEF Agent
        <3> QED BY <1>2, <3>1, <3>2
    <2> QED BY <2>1, <2>2 DEF FinalHolds
<1>3. CASE ResumeCheck(n)
    <2>1. envelope' = envelope
        BY <1>3 DEF ResumeCheck, stored
    <2>2. PICK seen \in {envelope, NoEnvelope} :
              /\ misread' = (misread \/ seen # envelope)
              /\ \/ NothingToDo(n, seen) /\ Exit(n)
                 \/ ~NothingToDo(n, seen) /\ Go(n, "probe")
        BY <1>3 DEF ResumeCheck
    <2>3. CASE Exit(n)
        <3>1. agent'[n].pc = "off"
            BY <1>0, <2>3 DEF Exit, NoAgent
        <3> QED BY <3>1 DEF FinalHolds
    <2>4. CASE ~NothingToDo(n, seen) /\ Go(n, "probe")
        <3>1. agent'[n].pc = "probe"
            BY <1>0, <2>4 DEF Go, Agent
        <3>2. envelope.status \in TerminalForResume => misread'
            BY <2>2, <2>4 DEF NothingToDo
        <3> QED BY <2>1, <3>1, <3>2 DEF FinalHolds
    <2> QED BY <2>2, <2>3, <2>4
<1>4. CASE UploadOutput(n)
    <2>1. UNCHANGED <<envelope, misread>> /\ agent[n].pc = "outputs"
        BY <1>4 DEF UploadOutput, history
    <2>2. agent'[n].pc \in {"outputs", "report"} /\ agent'[n].status = agent[n].status
        BY <1>0, <1>4 DEF UploadOutput, Agent
    <2> QED BY <2>1, <2>2 DEF FinalHolds
<1>5. CASE PutEnvelope(n)
    <2>1. agent'[n].pc = "off"
        BY <1>0, <1>5 DEF PutEnvelope, Exit, NoAgent
    <2> QED BY <2>1 DEF FinalHolds
<1> QED
    BY <1>1, <1>2, <1>3, <1>4, <1>5 DEF AgentStep, PlatformStep, Quiet

\* A step of the node is a step of the shard, or nothing is seen of it.
LEMMA NodeStepSeen ==
    ASSUME OneHome, TypeOK, OutputsLeft, NEW n \in Nodes, FinalHolds(n),
           AgentStep(n) \/ PlatformStep(n)
    PROVE  Shard!ShardStep \/ misread \/ UNCHANGED Shard!shardVars
<1>0. agent \in [Nodes -> Agent] /\ agent[n] \in Agent
    BY DEF TypeOK
<1>1. CASE Boot(n)
    <2>1. agent[n].pc = "off" /\ agent'[n].pc = "ledger"
        BY <1>0, <1>1, AgentMoves DEF Agent
    <2>2. (On # {})'
        BY <2>1, RunningOrNot
    <2>3. /\ group = "live" /\ boots < MaxBoots /\ boots' = boots + 1
          /\ UNCHANGED <<group, envelope>>
        BY <1>1 DEF Boot, stored
    <2> QED BY <2>2, <2>3 DEF Shard!Boot, Shard!ShardStep
<1>2. CASE Kill(n) \/ (ResumeCheck(n) /\ agent'[n].pc = "off")
    <2>1. agent[n].pc # "off" /\ agent'[n].pc = "off"
        <3>1. NoAgent.pc = "off"
            BY DEF NoAgent
        <3> QED BY <1>2, <3>1, AgentMoves DEF Kill, On, ResumeCheck
    <2>2. UNCHANGED <<group, envelope>>
        BY <1>2 DEF Kill, ResumeCheck, stored
    <2>3. boots' = boots
        BY <1>2, FetchCounts DEF Kill, ResumeCheck, counters
    <2> QED BY <2>1, <2>2, <2>3, RunningOrNot DEF Shard!Stop, Shard!ShardStep
<1>3. CASE PutEnvelope(n)
    <2>1. agent[n].pc = "report" /\ agent'[n].pc = "off"
        BY <1>0, <1>3 DEF PutEnvelope, Exit, NoAgent
    <2>2. agent[n].status \in JobStatus
          /\ (~misread => envelope.status \notin TerminalForResume)
        BY <2>1 DEF FinalHolds
    <2>3. UNCHANGED group /\ boots' = boots
        BY <1>3 DEF PutEnvelope, Fault, counters
    <2>4. envelope' = envelope \/ envelope' = Result(n)
        BY <1>3 DEF PutEnvelope
    <2>5. (On # {}) /\ (~(On # {}))'
        BY <2>1, RunningOrNot
    <2>6. CASE envelope' = envelope
        BY <2>3, <2>5, <2>6 DEF Shard!Stop, Shard!ShardStep
    <2>7. CASE envelope' = Result(n) /\ ~misread
        <3>1. envelope'.status \in JobStatus
            BY <2>2, <2>7 DEF Result
        <3>2. (On # {})' \in BOOLEAN
            OBVIOUS
        <3>3. envelope.status \notin Shard!TerminalForResume
            BY <2>2, <2>7 DEF TerminalForResume, Shard!TerminalForResume
        <3> QED BY <2>3, <2>5, <3>1, <3>2, <3>3 DEF Shard!Commit, Shard!ShardStep
    <2> QED BY <2>4, <2>6, <2>7
<1>4. CASE \/ Quiet(n) /\ ~Boot(n) /\ ~Kill(n)
           \/ LoadLedger(n) \/ CountBoot(n) \/ AskToMove(n) \/ UploadOutput(n)
           \/ ResumeCheck(n) /\ agent'[n].pc # "off"
    <2>1. UNCHANGED <<group, envelope>>
        BY <1>4
           DEF Quiet, ProbeCheckpoint, GateOpen, GateShut, LingerOver, StartExec, EndExec,
               FailsBeforeExec, OutputFails, Leave, LoadLedger, CountBoot, AskToMove,
               UploadOutput, ResumeCheck, stored
    <2>2. boots' = boots
        <3>1. CASE LoadLedger(n) \/ ResumeCheck(n)
            BY <3>1, FetchCounts DEF LoadLedger, ResumeCheck
        <3>2. CASE CountBoot(n) \/ AskToMove(n)
            BY <3>2, PutCounts DEF CountBoot, AskToMove
        <3>3. CASE (Quiet(n) /\ ~Boot(n) /\ ~Kill(n)) \/ UploadOutput(n)
            BY <3>3
               DEF Quiet, ProbeCheckpoint, GateOpen, GateShut, LingerOver, StartExec, EndExec,
                   FailsBeforeExec, OutputFails, Leave, UploadOutput, Fault, counters
        <3> QED BY <1>4, <3>1, <3>2, <3>3
    <2>3. (agent[n].pc # "off") <=> (agent'[n].pc # "off")
        <3>1. CASE ProbeCheckpoint(n) \/ GateOpen(n) \/ LingerOver(n) \/ Leave(n)
                   \/ CountBoot(n) \/ AskToMove(n)
            BY <1>0, <3>1, AgentMoves DEF Agent
        <3>2. CASE LoadLedger(n) \/ GateShut(n) \/ StartExec(n)
            BY <1>0, <3>2 DEF LoadLedger, GateShut, StartExec, Agent
        <3>3. CASE EndExec(n)
            <4>1. PICK s \in JobStatus :
                      agent'[n] = [agent[n] EXCEPT !.status = s,
                                                   !.pc = IF s = "Succeeded" THEN "outputs"
                                                          ELSE "report"]
                BY <1>0, <3>3 DEF EndExec
            <4>2. agent[n].pc = "exec"
                BY <3>3 DEF EndExec
            <4> QED BY <1>0, <4>1, <4>2 DEF Agent
        <3>6. CASE UploadOutput(n)
            BY <1>0, <3>6 DEF UploadOutput, Agent
        <3>4. CASE FailsBeforeExec(n) \/ OutputFails(n)
            BY <1>0, <3>4 DEF FailsBeforeExec, OutputFails, Agent
        <3>5. CASE ResumeCheck(n) /\ agent'[n].pc # "off"
            BY <3>5 DEF ResumeCheck
        <3> QED BY <1>4, <3>1, <3>2, <3>3, <3>4, <3>5, <3>6 DEF Quiet
    <2>4. (On # {})' = (On # {})
        BY <2>3, RunningOrNot
    <2> QED BY <2>1, <2>2, <2>4 DEF Shard!shardVars
<1> QED
    BY <1>1, <1>2, <1>3, <1>4 DEF AgentStep, PlatformStep, Quiet

\* The agent implements the shard its operator sees, if the container is in one place at
\* a time, until a boot overlooks an envelope: a final result is never replaced.
THEOREM AgentImplementsShard == OneHome /\ Spec => ImplementsShard
<1> DEFINE IInv == OneHome /\ TypeOK /\ OutputsLeft /\ \A n \in Nodes : FinalHolds(n)
<1>1. OneHome /\ Init => IInv /\ Shard!ShardInit /\ group = "live"
    <2>1. Init => \A n \in Nodes : FinalHolds(n) /\ agent[n].pc = "off"
        BY DEF Init, NoEnvelope, NoAgent, FinalHolds, TerminalForResume
    <2>2. Init => On = {}
        BY <2>1 DEF On
    <2>3. Init => Shard!ShardInit /\ group = "live"
        BY <2>2 DEF Init, NoEnvelope, Shard!ShardInit
    <2> QED BY <2>1, <2>3, InitTyped
<1>2. IInv /\ [Next]_vars
          => IInv' /\ [Shard!ShardStep \/ Shard!ShardDeleted \/ misread]_(Shard!shardVars)
    <2> SUFFICES ASSUME IInv, [Next]_vars
                 PROVE  IInv' /\ [Shard!ShardStep \/ Shard!ShardDeleted \/ misread]_(Shard!shardVars)
        OBVIOUS
    <2>1. (OneHome /\ TypeOK /\ OutputsLeft)'
        BY TypedStep, OutputsLeftStep DEF OneHome
    <2>2. CASE \E n \in Nodes : AgentStep(n) \/ PlatformStep(n)
        <3>1. PICK n \in Nodes : AgentStep(n) \/ PlatformStep(n)
            BY <2>2
        <3>2. FinalHolds(n)'
            BY <3>1, FinalHoldsStep
        <3>3. (\A m \in Nodes : FinalHolds(m))'
            BY <3>2 DEF OneHome
        <3> QED BY <2>1, <3>1, <3>3, NodeStepSeen
    <2>3. CASE GroupEnds \/ UNCHANGED vars
        <3>1. UNCHANGED <<envelope, agent, misread, boots>>
            BY <2>3 DEF GroupEnds, vars, stored, history, counters
        <3>2. (On # {})' = (On # {})
            BY <3>1 DEF On
        <3>3. group' = group \/ (group = "live" /\ group' \in {"failed", "deleted"})
            BY <2>3 DEF GroupEnds, vars
        <3>4. [Shard!ShardStep \/ Shard!ShardDeleted \/ misread]_(Shard!shardVars)
            BY <3>1, <3>2, <3>3
               DEF Shard!ShardStep, Shard!GroupFails, Shard!ShardDeleted, Shard!GroupDeleted,
                   Shard!shardVars
        <3> QED BY <2>1, <3>1, <3>4 DEF FinalHolds
    <2> QED BY <2>2, <2>3 DEF Next
<1> QED BY <1>1, <1>2, PTL DEF Spec, ImplementsShard
=============================================================================
