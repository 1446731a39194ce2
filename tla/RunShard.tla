------------------------------ MODULE RunShard ------------------------------
(***************************************************************************)
(* A shard of a batch run as its operator can see it: a container group,   *)
(* and the result it leaves in the bucket.  Nodes, ledger, gate, execution *)
(* and uploads are hidden; RunAgent implements this, RunSystem uses it.    *)
(***************************************************************************)
EXTENDS Naturals

JobStatus == {"Succeeded", "Failed", "TimedOut", "Interrupted", "AgentError"}
TerminalForResume == {"Succeeded", "TimedOut"}

CONSTANTS
    Endings,        \* the statuses that attempts end with
    MaxTries        \* bound: boots of the agent

ASSUME ShardAssumption ==
    /\ Endings \subseteq JobStatus
    /\ MaxTries \in Nat

VARIABLES
    group,      \* the container group: absent, live, failed or deleted
    result,     \* status of the committed envelope; "none" while there is none
    busy,       \* whether some agent is running
    tries       \* boots of the agent so far

shardVars == <<group, result, busy, tries>>

ShardTypeOK ==
    /\ group \in {"absent", "live", "failed", "deleted"}
    /\ result \in JobStatus \cup {"none"}
    /\ busy \in BOOLEAN
    /\ tries \in 0 .. MaxTries

\* The group lives, so a container is launched, and another one after it.
Boot ==
    /\ group = "live"
    /\ tries < MaxTries
    /\ tries' = tries + 1
    /\ busy' = TRUE
    /\ UNCHANGED <<group, result>>

\* An agent commits how its attempt ended; a final result is not replaced.  It
\* may do so after the group has failed or is deleted: a node is killed late.
Commit ==
    /\ busy
    /\ result \notin TerminalForResume
    /\ result' \in Endings
    /\ busy' \in BOOLEAN
    /\ UNCHANGED <<group, tries>>

\* The last agent exits, or its node is lost.
Stop ==
    /\ busy
    /\ busy' = FALSE
    /\ UNCHANGED <<group, result, tries>>

GroupFails ==
    /\ group = "live"
    /\ group' = "failed"
    /\ UNCHANGED <<result, busy, tries>>

\* Deleting a group that is not there is no error.
GroupDeleted == group' = IF group = "absent" THEN "absent" ELSE "deleted"

ShardDeleted == GroupDeleted /\ UNCHANGED <<result, busy, tries>>

ShardStep == Boot \/ Commit \/ Stop \/ GroupFails

ShardInit ==
    /\ result = "none"
    /\ busy = FALSE
    /\ tries = 0

=============================================================================
