---------------------------- MODULE FileDownload ----------------------------
(***************************************************************************)
(* `session cp NAME:PATH LOCAL` (cli session.rs) against GET /v1/files of  *)
(* the agent (serve.rs): one stat, then one request per chunk. A run takes *)
(* whatever the local file holds for a prefix of the remote one. The       *)
(* remote file may be replaced at any time; a chunk is known by the        *)
(* version it was read from, and what was local before is version 0.       *)
(***************************************************************************)
EXTENDS Naturals, Sequences

CONSTANTS
    MaxSize,      \* bound: chunks of a file
    MaxVersions   \* bound: versions of the remote file
ASSUME DownloadAssumption == MaxSize \in Nat \ {0} /\ MaxVersions \in Nat \ {0}

VARIABLES
    version, size,      \* the remote file
    local,              \* the local file: the version each chunk came from
    fetch               \* the cp: its place, the size and version its stat saw, its offset

downloadVars == <<version, size, local, fetch>>

DownloadTypeOK ==
    /\ version \in 1 .. MaxVersions /\ size \in 0 .. MaxSize
    /\ local \in Seq(0 .. MaxVersions) /\ Len(local) <= MaxSize
    /\ fetch \in [pc: {"idle", "open", "fetch", "done", "failed"},
                  size: 0 .. MaxSize, of: 0 .. MaxVersions, offset: 0 .. MaxSize]

DownloadInit ==
    /\ version = 1 /\ size = 1
    /\ local = <<>>
    /\ fetch = [pc |-> "idle", size |-> 0, of |-> 0, offset |-> 0]
-----------------------------------------------------------------------------
\* A command in the session, or a cp to it, writes another file there.
Replace ==
    /\ version < MaxVersions
    /\ version' = version + 1
    /\ size' \in 0 .. MaxSize
    /\ UNCHANGED <<local, fetch>>

\* Some other file is in the way before the first cp.
LocalLeftover ==
    /\ fetch.pc = "idle" /\ local = <<>>
    /\ local' \in {[i \in 1 .. n |-> 0] : n \in 1 .. MaxSize}
    /\ UNCHANGED <<version, size, fetch>>

\* GET /v1/files/stat, and the bytes GET /v1/files has at an offset: none past the end.
FileStat == [size |-> size, of |-> version]
ServedFrom(offset) == IF offset < size THEN <<version>> ELSE <<>>

Stat ==
    /\ fetch.pc \in {"idle", "done", "failed"}
    /\ fetch' = [pc |-> "open", size |-> FileStat.size, of |-> FileStat.of, offset |-> 0]
    /\ UNCHANGED <<version, size, local>>

Shorter(m, n) == IF m < n THEN m ELSE n
KeptAll(n) == local                             \* mutant: the file is not cut to the offset
Trimmed(n) == SubSeq(local, 1, n)

\* Open without truncation, cut to the resume point, seek there.
Open ==
    /\ fetch.pc = "open"
    /\ LET from == Shorter(Len(local), fetch.size) IN
          /\ local' = Trimmed(from)
          /\ fetch' = [fetch EXCEPT !.pc = "fetch", !.offset = from]
    /\ UNCHANGED <<version, size>>

\* One request; a remote file that has become shorter answers with nothing, which ends
\* the loop like the full size does.
FetchChunk ==
    /\ fetch.pc = "fetch"
    /\ IF fetch.offset < fetch.size /\ ServedFrom(fetch.offset) # <<>>
       THEN /\ local' = local \o ServedFrom(fetch.offset)
            /\ fetch' = [fetch EXCEPT !.offset = @ + 1]
       ELSE /\ fetch' = [fetch EXCEPT !.pc = "done"]
            /\ UNCHANGED local
    /\ UNCHANGED <<version, size>>

\* Three attempts, then an error; or the cp is interrupted. What is written stays.
DownloadFails ==
    /\ fetch.pc \in {"open", "fetch"}
    /\ fetch' = [fetch EXCEPT !.pc = "failed"]
    /\ UNCHANGED <<version, size, local>>

DownloadNext == Replace \/ LocalLeftover \/ Stat \/ Open \/ FetchChunk \/ DownloadFails

DownloadSpec == DownloadInit /\ [][DownloadNext]_downloadVars
-----------------------------------------------------------------------------
\* A cp that reports success, over however many interrupted runs, has a file of the size of
\* the remote one, unless that was replaced since the stat; and if what it resumed from
\* began as that file, it has that file, whole.
DownloadedIsWhole ==
    fetch.pc = "done" /\ version = fetch.of =>
        /\ Len(local) = size
        /\ local # <<>> /\ local[1] = version => local = [i \in 1 .. size |-> version]
=============================================================================
