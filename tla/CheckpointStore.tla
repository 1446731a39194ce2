-------------------------- MODULE CheckpointStore --------------------------
(***************************************************************************)
(* What checkpointing promises a job, with no slots, parts or metadata:    *)
(* one durable value, and a job that always continues from it.             *)
(*                                                                         *)
(* A life of the job starts from exactly the saved progress; while it      *)
(* runs, the saved value only moves forward, and only to progress that     *)
(* this life has really made; losing the node costs the progress made      *)
(* since the last save and nothing else ("an interruption costs one        *)
(* interval, never the whole run", agent checkpoint.rs).                   *)
(***************************************************************************)
EXTENDS Naturals

VARIABLES
    saved,      \* progress a relaunch would resume from; 0 when nothing is saved
    progress,   \* progress of the running job; 0 while no node runs it
    up          \* whether a node is running the job

vars == <<saved, progress, up>>

TypeOK ==
    /\ saved \in Nat
    /\ progress \in Nat
    /\ up \in BOOLEAN

Init ==
    /\ saved = 0
    /\ progress = 0
    /\ up = FALSE

\* A node takes the job over, where the last save left it.
Resume ==
    /\ ~up
    /\ up' = TRUE
    /\ progress' = saved
    /\ UNCHANGED saved

Work ==
    /\ up
    /\ progress' = progress + 1
    /\ UNCHANGED <<saved, up>>

\* Some progress of this life, no older than what is saved, becomes durable.
Save ==
    /\ up
    /\ saved' \in saved .. progress
    /\ UNCHANGED <<progress, up>>

\* The node is lost, or the agent gives the job up.
Lose ==
    /\ up
    /\ up' = FALSE
    /\ progress' = 0
    /\ UNCHANGED saved

Next == Resume \/ Work \/ Save \/ Lose

Spec == Init /\ [][Next]_vars
=============================================================================
