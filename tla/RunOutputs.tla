----------------------------- MODULE RunOutputs -----------------------------
(***************************************************************************)
(* The outputs of one shard, from the files of the job's workdir to the    *)
(* directory of the operator: the agent resolves each pattern, archives    *)
(* what it matched and puts it part by part (run.rs, transfer.rs); the     *)
(* envelope lists what was put; `run` and `attach` fetch, check and unpack *)
(* each record of it that they admit (runner.rs).                          *)
(* A path is a sequence of names, <<>> the workdir; an archive is the set  *)
(* of its entries, and its digest is that set.                             *)
(***************************************************************************)
EXTENDS Naturals, Sequences, FiniteSets, SequencesExt

CONSTANTS
    TopNames, SubNames, \* names in the workdir, and in a directory of it
    Patterns,     \* [segments: Seq(name, "*" or "**"), tree: it ends in a further `**`]
    OutNames,     \* the names after the `:` of an --output ...
    PlainNames,   \* ... and those that are plain relative paths
    OutputCount,  \* outputs of the run
    PartFiles,    \* files that fit in a part: PART_SIZE
    PartLimit,    \* max_artifact_parts
    MaxShipFaults \* bound: parts that fail for good
ASSUME OutputsAssumption ==
    /\ PlainNames \subseteq OutNames /\ OutputCount \in Nat \ {0}
    /\ PartFiles \in Nat \ {0} /\ PartLimit \in Nat \ {0} /\ MaxShipFaults \in Nat
    /\ IsFiniteSet(TopNames) /\ IsFiniteSet(SubNames)
    /\ \A pattern \in Patterns : pattern.tree \in BOOLEAN

TreePaths == {<<>>} \cup {<<n>> : n \in TopNames} \cup {<<n, k>> : n \in TopNames, k \in SubNames}

VARIABLES
    tree,      \* what the job has left at each path: nothing, a file or a directory
    declared,  \* the outputs of the run: a name and a pattern each
    shipped,   \* the agent: its place, the output it is at, the archive in its spool
    parts,     \* object store: what the part of an output's name holds
    envelope,  \* the uploads of the result envelope; they are put all at once
    fetched,   \* the CLI: its place, the record and the part it is at
    collected, \* what has been unpacked under sf-out for an output's name
    missed,    \* the records whose fetch met a fault
    shipFaults

outputVars == <<tree, declared, shipped, parts, envelope, fetched, collected, missed, shipFaults>>

\* An entry's place need not be a path of the workdir: a name of a directory comes to the top.
Archives == SUBSET [at: Seq(TopNames \cup SubNames), src: TreePaths, via: TreePaths]
NoPart == [of |-> {}, index |-> PartLimit]      \* no object under that key

OutputsTypeOK ==
    /\ tree \in [TreePaths -> {"none", "file", "dir"}]
    /\ declared \in [1 .. OutputCount -> [name: OutNames, pattern: Patterns]]
    /\ shipped.pc \in {"glob", "put", "ended"} /\ shipped.at \in 1 .. OutputCount + 1
    /\ shipped.part \in 0 .. PartLimit /\ shipped.spool \in Archives
    /\ \A n \in OutNames, i \in 0 .. PartLimit - 1 : parts[<<n, i>>].index \in {i, PartLimit}
    /\ Len(envelope) \in 0 .. OutputCount
    /\ fetched.pc \in {"await", "admit", "fetch", "done"} /\ fetched.at \in 1 .. OutputCount + 1
    /\ fetched.part \in 0 .. PartLimit
    /\ missed \subseteq 1 .. OutputCount
    /\ shipFaults \in 0 .. MaxShipFaults

OutputsInit ==
    /\ tree \in [TreePaths -> {"none", "file", "dir"}]
    /\ tree[<<>>] = "dir"
    /\ \A p \in TreePaths : p # <<>> /\ tree[p] # "none" => tree[Front(p)] = "dir"
    /\ declared \in [1 .. OutputCount -> [name: OutNames, pattern: Patterns]]
    /\ shipped = [pc |-> "glob", at |-> 1, part |-> 0, spool |-> {}]
    /\ parts = [k \in OutNames \X (0 .. PartLimit - 1) |-> NoPart]
    /\ envelope = <<>>
    /\ fetched = [pc |-> "await", at |-> 1, part |-> 0]
    /\ collected = [n \in OutNames |-> {}] /\ missed = {} /\ shipFaults = 0
-----------------------------------------------------------------------------
(***************************************************************************)
(* The agent.                                                              *)
(***************************************************************************)
\* The glob crate: a leading `**` is any directory, the workdir included.
SegmentMatches(segment, name) == segment \in {name, "*"}
GlobMatches(path, segments) ==
    IF segments # <<>> /\ segments[1] = "**"
    THEN LET rest == Tail(segments)
         IN /\ Len(path) >= Len(rest) /\ path # <<>>
            /\ \A i \in 1 .. Len(rest) :
                  SegmentMatches(rest[i], path[Len(path) - Len(rest) + i])
    ELSE /\ Len(path) = Len(segments)
         /\ \A i \in 1 .. Len(path) : SegmentMatches(segments[i], path[i])

FilesBelow(path) == {q \in TreePaths : tree[q] = "file" /\ IsPrefix(path, q)}

NestedToo(paths) == paths                       \* mutant: what is nested is kept
TopMatches(paths) == {p \in paths : \A q \in paths : ~IsStrictPrefix(q, p)}
GlobPaths(segments) == TopMatches({p \in TreePaths : tree[p] # "none" /\ GlobMatches(p, segments)})

\* A trailing `**` stands for the directories that the rest matches.
GlobOutputs(pattern) ==
    IF pattern.tree THEN {p \in GlobPaths(pattern.segments) : tree[p] = "dir"}
                    ELSE GlobPaths(pattern.segments)

\* One match is flattened to the root of the archive, several keep their paths.
ArchivedAs(q, m, matches) ==
    IF Cardinality(matches) > 1 THEN q
    ELSE IF q = m THEN <<Last(q)>> ELSE SubSeq(q, Len(m) + 1, Len(q))
Compress(matches) ==
    UNION {{[at |-> ArchivedAs(q, m, matches), src |-> q, via |-> m] : q \in FilesBelow(m)} :
           m \in matches}

\* At least one part, if only of an archive without files.
PartCount(archive) ==
    LET full == (Cardinality(archive) + PartFiles - 1) \div PartFiles
    IN IF full = 0 THEN 1 ELSE full

\* An error ends upload_outputs, and the envelope has no uploads.
ShipFails ==
    /\ shipped' = [shipped EXCEPT !.pc = "ended", !.spool = {}]
    /\ envelope' = <<>>
    /\ fetched' = [fetched EXCEPT !.pc = "admit"]

SpoolOutput ==
    /\ shipped.pc = "glob" /\ shipped.at <= OutputCount
    /\ LET matches == GlobOutputs(declared[shipped.at].pattern)
           archive == Compress(matches)
       IN \/ /\ matches = {} \/ PartCount(archive) > PartLimit
             /\ ShipFails
          \/ /\ matches # {} /\ PartCount(archive) <= PartLimit
             /\ shipped' = [shipped EXCEPT !.pc = "put", !.part = 0, !.spool = archive]
             /\ UNCHANGED <<envelope, fetched>>
    /\ UNCHANGED <<tree, declared, parts, collected, missed, shipFaults>>

PutOutputPart ==
    /\ shipped.pc = "put"
    /\ \/ /\ parts' = [parts EXCEPT ![<<declared[shipped.at].name, shipped.part>>] =
                                       [of |-> shipped.spool, index |-> shipped.part]]
          /\ IF shipped.part + 1 < PartCount(shipped.spool)
             THEN shipped' = [shipped EXCEPT !.part = @ + 1] /\ UNCHANGED envelope
             ELSE /\ envelope' = Append(envelope, [name |-> declared[shipped.at].name,
                                                   parts |-> PartCount(shipped.spool),
                                                   sha256 |-> shipped.spool])
                  /\ shipped' = [shipped EXCEPT !.pc = "glob", !.at = @ + 1, !.spool = {}]
          /\ UNCHANGED <<fetched, shipFaults>>
       \/ /\ shipFaults < MaxShipFaults
          /\ shipFaults' = shipFaults + 1
          /\ ShipFails
          /\ UNCHANGED parts
    /\ UNCHANGED <<tree, declared, collected, missed>>

\* Only now is the envelope written, and the CLI goes on.
WriteEnvelope ==
    /\ shipped.pc = "glob" /\ shipped.at > OutputCount
    /\ shipped' = [shipped EXCEPT !.pc = "ended"]
    /\ fetched' = [fetched EXCEPT !.pc = "admit"]
    /\ UNCHANGED <<tree, declared, parts, envelope, collected, missed, shipFaults>>
-----------------------------------------------------------------------------
(***************************************************************************)
(* download_outputs; by now the group has been deleted.                    *)
(***************************************************************************)
Record == envelope[fetched.at]
NextRecord == [pc |-> "admit", at |-> fetched.at + 1, part |-> 0]

\* The names and the limit are those that the run was started with.
AdmitOutput(record) ==
    /\ record.name \in PlainNames
    /\ record.parts <= PartLimit
    /\ \E k \in DOMAIN declared : declared[k].name = record.name

AdmitRecord ==
    /\ fetched.pc = "admit" /\ fetched.at <= Len(envelope)
    /\ fetched' = IF AdmitOutput(Record) THEN [fetched EXCEPT !.pc = "fetch"] ELSE NextRecord
    /\ UNCHANGED <<tree, declared, shipped, parts, envelope, collected, missed, shipFaults>>

\* sha256 of the parts one after the other: they are the parts of that very archive.
ShaMatches(record) ==
    /\ \A i \in 0 .. record.parts - 1 :
          parts[<<record.name, i>>] = [of |-> record.sha256, index |-> i]

\* A fault of a part, or a wrong digest, is a warning and the next record.
FetchOutputPart ==
    /\ fetched.pc = "fetch"
    /\ \/ /\ fetched.part < Record.parts
          /\ fetched' = [fetched EXCEPT !.part = @ + 1]
          /\ UNCHANGED <<collected, missed, shipFaults>>
       \/ /\ fetched.part < Record.parts /\ shipFaults < MaxShipFaults
          /\ shipFaults' = shipFaults + 1
          /\ missed' = missed \cup {fetched.at}
          /\ fetched' = NextRecord
          /\ UNCHANGED collected
       \/ /\ fetched.part = Record.parts
          /\ collected' = IF ShaMatches(Record)
                          THEN [collected EXCEPT ![Record.name] = @ \cup Record.sha256]
                          ELSE collected
          /\ fetched' = NextRecord
          /\ UNCHANGED <<missed, shipFaults>>
    /\ UNCHANGED <<tree, declared, shipped, parts, envelope>>

CollectEnds ==
    /\ fetched.pc = "admit" /\ fetched.at > Len(envelope)
    /\ fetched' = [fetched EXCEPT !.pc = "done"]
    /\ UNCHANGED <<tree, declared, shipped, parts, envelope, collected, missed, shipFaults>>

OutputsNext ==
    \/ SpoolOutput \/ PutOutputPart \/ WriteEnvelope
    \/ AdmitRecord \/ FetchOutputPart \/ CollectEnds
OutputsSpec == OutputsInit /\ [][OutputsNext]_outputVars
-----------------------------------------------------------------------------
\* What a pattern asks for: the files it matches and those below a directory it matches;
\* with a trailing `**` those below the directories only.
Wanted(pattern) ==
    {q \in TreePaths :
        /\ tree[q] = "file"
        /\ \E p \in TreePaths : /\ tree[p] # "none" /\ GlobMatches(p, pattern.segments)
                                /\ IsPrefix(p, q) /\ (pattern.tree => tree[p] = "dir")}

SameName(k) == \E j \in DOMAIN declared \ {k} : declared[j].name = declared[k].name

\* A run that succeeded has every file of every output on the operator's disk, each once and
\* each in a place of its own: "each path is archived exactly once", and a trailing `**`
\* loses none of them. Two outputs of one name overwrite each other, a name that is no plain
\* path is refused after the work is done, and a part may fail; nothing else is lost.
OutputsArriveWhole ==
    fetched.pc = "done" =>
        \/ envelope = <<>>
        \/ /\ Len(envelope) = OutputCount
           /\ \A k \in 1 .. OutputCount :
                 declared[k].name \in PlainNames /\ ~SameName(k) /\ k \notin missed =>
                    LET got == collected[declared[k].name]
                    IN /\ {e.src : e \in got} = Wanted(declared[k].pattern)
                       /\ \A e, f \in got : e # f => e.src # f.src /\ e.at # f.at
=============================================================================
