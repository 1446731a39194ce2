---------------------------- MODULE SharedPrefix ----------------------------
(***************************************************************************)
(* A checkpoint prefix that several runs are given by name, and the        *)
(* commands that read and delete it (runner.rs, checkpoint.rs, spec.rs,    *)
(* presign.rs). The guard that keeps two runs off one ring reads the local *)
(* state files when the parameters are resolved, and a run claims its      *)
(* prefix in such a file only after its inputs are uploaded and its groups *)
(* created. CheckpointRing models one writer of a ring in depth; here a    *)
(* writer is the order of its requests.                                    *)
(***************************************************************************)
EXTENDS Naturals, Sequences

CONSTANTS
    Runs,            \* the runs that are started
    MaxCommits,      \* bound: checkpoints a run starts to write
    MaxPrefixFaults  \* bound: deletes that fail, state files that cannot be read
ASSUME PrefixAssumption ==
    Runs # {} /\ MaxCommits \in Nat \ {0} /\ MaxPrefixFaults \in Nat

\* Two names, one of which begins like the other, and a run's own ring in its run prefix.
PrefixNames == {"foo", "foobar"}
Own(r) == <<"runs", r>>
Shared(name) == <<"ckpts", name>>
Rings == {Own(r) : r \in Runs} \cup {Shared(name) : name \in PrefixNames}

Slots == 0 .. 1
Parts == 0 .. 1
PartKeys == Rings \X Slots \X Parts
MetaKeys == Rings \X {"meta"}
Versions == Runs \X (1 .. MaxCommits)
Nothing == <<>>
NoMeta == [slot |-> 0, version |-> Nothing]

\* --checkpoint, --checkpoint-prefix, and the profile's checkpoint section with its prefix.
None == "none"
Orders == [dir: BOOLEAN, prefix: {None, "foo"}, profile: {None, "unnamed", "foo"}]

VARIABLES
    started,       \* for each run: place, ring, what it saw at its guard
    runStatus,       \* RunState.status of each run, "none" without a file
    ringWriter,        \* the agent of each run: place, live slot, checkpoint it is writing
    slots, meta,   \* the bucket: the parts of each ring's slots, its metadata object
    fetching,         \* `checkpoint fetch --prefix foo`
    removing,            \* `checkpoint rm --prefix foo`
    prefixFaults   \* what failed of that, counted for the bound

ringVars == <<slots, meta>>
prefixVars == <<started, runStatus, ringWriter, ringVars, fetching, removing, prefixFaults>>

PrefixTypeOK ==
    /\ started \in [Runs -> [pc: {"new", "window", "created", "up", "over", "refused"},
                             ring: Rings \cup {Nothing}, open: SUBSET Runs]]
    /\ runStatus \in [Runs -> {"none", "running", "failed"}]
    /\ ringWriter \in [Runs -> [pc: {"off", "start", "part", "meta", "reclaim"}, part: 0 .. 2,
                            slot: Slots, count: 0 .. MaxCommits]]
    /\ slots \in [PartKeys -> Versions \cup {Nothing}]
    /\ meta \in [Rings -> [slot: Slots, version: Versions \cup {Nothing}]]
    /\ fetching \in [pc: {"idle", "resolve", "get", "verify", "fetched", "failed"}, part: 0 .. 2,
                  meta: [slot: Slots, version: Versions \cup {Nothing}],
                  got: [Parts -> Versions \cup {Nothing}], disturbed: BOOLEAN]
    /\ removing.pc \in {"idle", "guard", "list", "delete", "removed", "unclean", "refused"}
    /\ \A i \in 1 .. Len(removing.keys) : removing.keys[i] \in MetaKeys \cup PartKeys
    /\ prefixFaults \in 0 .. MaxPrefixFaults

\* The neighbour holds a checkpoint already. One command is run beside the runs.
PrefixInit ==
    /\ started = [r \in Runs |-> [pc |-> "new", ring |-> Nothing, open |-> {}]]
    /\ runStatus = [r \in Runs |-> "none"]
    /\ ringWriter = [r \in Runs |-> [pc |-> "off", part |-> 0, slot |-> 0, count |-> 0]]
    /\ slots = [k \in PartKeys |-> Nothing]
    /\ meta = [b \in Rings |-> IF b = Shared("foobar")
                               THEN [slot |-> 0, version |-> <<CHOOSE r \in Runs : TRUE, 1>>]
                               ELSE NoMeta]
    /\ fetching = [pc |-> "idle", part |-> 0, meta |-> NoMeta, got |-> [k \in Parts |-> Nothing],
                disturbed |-> FALSE]
    /\ removing = [pc |-> "idle", keys |-> <<>>, failed |-> 0, disturbed |-> FALSE]
    /\ prefixFaults = 0
-----------------------------------------------------------------------------
(***************************************************************************)
(* Starting a run.                                                         *)
(***************************************************************************)
PrefixFault ==
    /\ prefixFaults < MaxPrefixFaults
    /\ prefixFaults' = prefixFaults + 1

RunGo(r, pc) == started' = [started EXCEPT ![r].pc = pc]

\* resolve_params: --checkpoint takes the place of the profile's section, prefix included.
ResolvedPrefix(o) ==
    IF o.dir \/ o.prefix # None THEN o.prefix
    ELSE IF o.profile = "unnamed" THEN None ELSE o.profile
Checkpoints(o) == o.dir \/ o.profile # None

RingOf(r, o) == IF ResolvedPrefix(o) = None THEN Own(r) ELSE Shared(ResolvedPrefix(o))

\* ensure_prefix_unclaimed: no state file of a run that has not ended names the ring.
Unclaimed(rg) == \A q \in Runs : ~(runStatus[q] = "running" /\ started[q].ring = rg)

\* The runs that have passed their guard and not written their state yet.
InWindow == {q \in Runs : started[q].pc \in {"window", "created"}}

\* State files that cannot be read are a warning here, and the run goes on.
ResolveCheckpoint(r) ==
    \E o \in Orders :
    LET chosen == IF Checkpoints(o) THEN RingOf(r, o) ELSE Nothing IN
    /\ started[r].pc = "new"
    /\ \/ /\ (o.prefix # None /\ ~Checkpoints(o)) \/ (chosen = Shared("foo") /\ ~Unclaimed(chosen))
          /\ RunGo(r, "refused")
          /\ UNCHANGED prefixFaults
       \/ /\ o.prefix # None => Checkpoints(o)
          /\ \/ (chosen = Shared("foo") => Unclaimed(chosen)) /\ UNCHANGED prefixFaults
             \/ chosen = Shared("foo") /\ PrefixFault
          /\ started' = [started EXCEPT ![r] = [pc |-> "window", ring |-> chosen, open |-> InWindow]]
    /\ UNCHANGED <<runStatus, ringWriter, ringVars, fetching, removing>>

\* The inputs are uploaded, then the group is there and its agent may start. What an agent
\* does in the run's own ring is nobody else's business.
GroupIsCreated(r) ==
    /\ started[r].pc = "window"
    /\ RunGo(r, "created")
    /\ ringWriter' = [ringWriter EXCEPT ![r].pc = IF started[r].ring = Shared("foo") THEN "start" ELSE "off"]
    /\ UNCHANGED <<runStatus, ringVars, fetching, removing, prefixFaults>>

\* save_state; that its write can fail is in RunLaunch.
ClaimPrefix(r) ==
    /\ started[r].pc = "created"
    /\ RunGo(r, "up")
    /\ runStatus' = [runStatus EXCEPT ![r] = "running"]
    /\ UNCHANGED <<ringWriter, ringVars, fetching, removing, prefixFaults>>

\* The group is deleted, errors ignored, and the state file says so either way.
RunEnds(r) ==
    /\ started[r].pc = "up"
    /\ RunGo(r, "over")
    /\ runStatus' = [runStatus EXCEPT ![r] = "failed"]
    /\ \/ ringWriter' = [ringWriter EXCEPT ![r].pc = "off"] /\ UNCHANGED prefixFaults
       \/ PrefixFault /\ UNCHANGED ringWriter
    /\ UNCHANGED <<ringVars, fetching, removing>>
-----------------------------------------------------------------------------
(***************************************************************************)
(* The agent of a run, writing its ring.                                   *)
(***************************************************************************)
Version(r) == <<r, ringWriter[r].count>>
\* What an agent writes under the name is noted for those that are at work there.
Touched(rg) == fetching' = [fetching EXCEPT !.disturbed = @ \/ rg = Shared("foo")]
Disturb(r) ==
    /\ removing' = [removing EXCEPT !.disturbed = @ \/ (started[r].ring = Shared("foo") /\ removing.pc \notin {"idle", "guard"})]
    /\ Touched(started[r].ring)

\* The slot next to the committed one, as restored or last committed.
OverwritesLive(r) ==                            \* mutant: the committed slot is reused
    /\ ringWriter[r].pc = "start" /\ ringWriter[r].count < MaxCommits
    /\ ringWriter' = [ringWriter EXCEPT ![r] =
           [pc |-> "part", part |-> 0, slot |-> meta[started[r].ring].slot, count |-> @.count + 1]]
    /\ UNCHANGED <<started, runStatus, ringVars, fetching, removing, prefixFaults>>
StartsToWrite(r) ==
    /\ ringWriter[r].pc = "start" /\ ringWriter[r].count < MaxCommits
    /\ LET m == meta[started[r].ring]
           restored == IF m.version = Nothing THEN 1 ELSE m.slot
           live == IF ringWriter[r].count = 0 THEN restored ELSE ringWriter[r].slot IN
       ringWriter' = [ringWriter EXCEPT ![r] =
           [pc |-> "part", part |-> 0, slot |-> 1 - live, count |-> @.count + 1]]
    /\ UNCHANGED <<started, runStatus, ringVars, fetching, removing, prefixFaults>>

PutPart(r) ==
    /\ ringWriter[r].pc = "part"
    /\ slots' = [slots EXCEPT ![<<started[r].ring, ringWriter[r].slot, ringWriter[r].part>>] = Version(r)]
    /\ ringWriter' = [ringWriter EXCEPT ![r].part = @ + 1, ![r].pc = IF ringWriter[r].part = 1 THEN "meta" ELSE @]
    /\ Disturb(r)
    /\ UNCHANGED <<started, runStatus, meta, prefixFaults>>

PutMeta(r) ==
    /\ ringWriter[r].pc = "meta"
    /\ meta' = [meta EXCEPT ![started[r].ring] = [slot |-> ringWriter[r].slot, version |-> Version(r)]]
    /\ ringWriter' = [ringWriter EXCEPT ![r].pc = "reclaim"]
    /\ Disturb(r)
    /\ UNCHANGED <<started, runStatus, slots, prefixFaults>>

\* DELETEs of the other slot, best effort.
ReclaimOther(r) ==
    /\ ringWriter[r].pc = "reclaim"
    /\ LET Other == {<<started[r].ring, 1 - ringWriter[r].slot, k>> : k \in Parts} IN
       slots' \in {slots, [key \in DOMAIN slots |-> IF key \in Other THEN Nothing ELSE slots[key]]}
    /\ ringWriter' = [ringWriter EXCEPT ![r].pc = "start"]
    /\ Touched(started[r].ring)
    /\ UNCHANGED <<started, runStatus, meta, removing, prefixFaults>>
-----------------------------------------------------------------------------
(***************************************************************************)
(* checkpoint fetch --prefix foo, while its runs go on.                    *)
(***************************************************************************)
Command ==
    /\ fetching.pc = "idle" /\ removing.pc = "idle"
    /\ \/ fetching' = [fetching EXCEPT !.pc = "resolve"] /\ UNCHANGED removing
       \/ removing' = [removing EXCEPT !.pc = "guard"] /\ UNCHANGED fetching
    /\ UNCHANGED <<started, runStatus, ringWriter, ringVars, prefixFaults>>

FetchResolve ==
    /\ fetching.pc = "resolve"
    /\ LET m == meta[Shared("foo")] IN
       fetching' = [fetching EXCEPT !.pc = IF m.version = Nothing THEN "failed" ELSE "get",
                                 !.meta = m, !.disturbed = FALSE]
    /\ UNCHANGED <<started, runStatus, ringWriter, ringVars, removing, prefixFaults>>

FetchPart ==
    /\ fetching.pc = "get"
    /\ LET held == slots[<<Shared("foo"), fetching.meta.slot, fetching.part>>] IN
       fetching' = IF held = Nothing THEN [fetching EXCEPT !.pc = "failed"]
                ELSE [fetching EXCEPT !.got[fetching.part] = held, !.part = @ + 1,
                                   !.pc = IF fetching.part = 1 THEN "verify" ELSE "get"]
    /\ UNCHANGED <<started, runStatus, ringWriter, ringVars, removing, prefixFaults>>

\* The digest of the whole, before anything is extracted.
DigestMatches == \A k \in Parts : fetching.got[k] = fetching.meta.version
FetchVerify ==
    /\ fetching.pc = "verify"
    /\ fetching' = [fetching EXCEPT !.pc = IF DigestMatches THEN "fetched" ELSE "failed"]
    /\ UNCHANGED <<started, runStatus, ringWriter, ringVars, removing, prefixFaults>>
-----------------------------------------------------------------------------
(***************************************************************************)
(* checkpoint rm --prefix foo.                                             *)
(***************************************************************************)
\* A list prefix matches by characters: without its slash "ckpts/foo" is also the beginning
\* of "ckpts/foobar/0/..".
UnderRoot(rg) == rg = Shared("foo")

StoredObject(key) ==
    IF key \in MetaKeys THEN meta[key[1]].version # Nothing ELSE slots[key] # Nothing
\* list_keys, in the order of the keys: the metadata object before the slots.
Listing ==
    LET Seen(key) == IF StoredObject(key) THEN <<key>> ELSE <<>>
        Ordered(rg) == Seen(<<rg, "meta">>) \o Seen(<<rg, 0, 0>>) \o Seen(<<rg, 0, 1>>)
                       \o Seen(<<rg, 1, 0>>) \o Seen(<<rg, 1, 1>>)
        Under(name) == IF UnderRoot(Shared(name)) THEN Ordered(Shared(name)) ELSE <<>> IN
    Under("foo") \o Under("foobar")

RmGo(pc) == removing' = [removing EXCEPT !.pc = pc]

\* Here state files that cannot be read are the end of it.
RmGuard ==
    /\ removing.pc = "guard"
    /\ \/ Unclaimed(Shared("foo")) /\ RmGo("list") /\ UNCHANGED prefixFaults
       \/ ~Unclaimed(Shared("foo")) /\ RmGo("refused") /\ UNCHANGED prefixFaults
       \/ RmGo("refused") /\ PrefixFault
    /\ UNCHANGED <<started, runStatus, ringWriter, ringVars, fetching>>

\* Nothing there, not confirmed, or listed again and deleted key by key.
RmList ==
    /\ removing.pc = "list"
    /\ \/ Listing = <<>> /\ RmGo("removed")
       \/ Listing # <<>> /\ RmGo("refused")
       \/ Listing # <<>> /\ removing' = [removing EXCEPT !.pc = "delete", !.keys = Listing]
    /\ UNCHANGED <<started, runStatus, ringWriter, ringVars, fetching, prefixFaults>>

DeleteObject(key) ==
    IF key \in MetaKeys
    THEN meta' = [meta EXCEPT ![key[1]] = NoMeta] /\ UNCHANGED slots
    ELSE slots' = [slots EXCEPT ![key] = Nothing] /\ UNCHANGED meta
RmDeletes ==
    /\ removing.pc = "delete" /\ removing.keys # <<>>
    /\ \/ DeleteObject(Head(removing.keys)) /\ Touched(Head(removing.keys)[1])
          /\ removing' = [removing EXCEPT !.keys = Tail(@)] /\ UNCHANGED prefixFaults
       \/ PrefixFault /\ removing' = [removing EXCEPT !.keys = Tail(@), !.failed = @ + 1]
          /\ UNCHANGED <<ringVars, fetching>>
    /\ UNCHANGED <<started, runStatus, ringWriter>>

AllDeleted == removing.failed = 0
RmVerdict ==
    /\ removing.pc = "delete" /\ removing.keys = <<>>
    /\ RmGo(IF AllDeleted THEN "removed" ELSE "unclean")
    /\ UNCHANGED <<started, runStatus, ringWriter, ringVars, fetching, prefixFaults>>
-----------------------------------------------------------------------------
PrefixNext ==
    \/ \E r \in Runs : \/ ResolveCheckpoint(r) \/ GroupIsCreated(r) \/ ClaimPrefix(r) \/ RunEnds(r)
                       \/ StartsToWrite(r) \/ PutPart(r) \/ PutMeta(r) \/ ReclaimOther(r)
    \/ Command \/ FetchResolve \/ FetchPart \/ FetchVerify
    \/ RmGuard \/ RmList \/ RmDeletes \/ RmVerdict

PrefixSpec == PrefixInit /\ [][PrefixNext]_prefixVars
-----------------------------------------------------------------------------
Writing(r) == ringWriter[r].pc # "off"

\* "It is a guard rail, not a distributed lock": two agents write one ring only when one
\* of the runs had passed the guard and not claimed the prefix when the other came to it,
\* or when an ended run's group could not be deleted or the state files not be read.
OneWriterOrRace ==
    \A r, q \in Runs :
        r # q /\ Writing(r) /\ Writing(q) /\ started[r].ring = started[q].ring =>
            \/ r \in started[q].open \/ q \in started[r].open
            \/ prefixFaults > 0

\* `checkpoint fetch` of a committed checkpoint fails only when someone was at work in the
\* ring under it, or had been against another writer or the deletion: a slot the metadata
\* names is whole and stays so until the metadata names another.
FetchFindsCommitted ==
    fetching.pc = "failed" /\ fetching.meta.version # Nothing =>
        \/ fetching.disturbed \/ removing.disturbed \/ prefixFaults > 0
        \/ \E r \in Runs : started[r].open # {}

\* `checkpoint rm` says it removed the prefix only when nothing of it is left, but for what
\* an agent has put there since the guard.
RemovedIsClean ==
    removing.pc = "removed" /\ ~removing.disturbed =>
        /\ meta[Shared("foo")].version = Nothing
        /\ \A s \in Slots, k \in Parts : slots[<<Shared("foo"), s, k>>] = Nothing

\* "--prefix foo would take ckpts/foobar/ with it": it never does.
NeighbourIsKept == meta[Shared("foobar")].version # Nothing
\* A named prefix under runs, fetch and rm at once (spec.rs, runner.rs, cli checkpoint.rs).
PrefixIsRespected ==
    OneWriterOrRace /\ FetchFindsCommitted /\ RemovedIsClean /\ NeighbourIsKept
=============================================================================
