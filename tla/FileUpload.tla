----------------------------- MODULE FileUpload -----------------------------
(***************************************************************************)
(* `session cp LOCAL NAME:PATH` (cli session.rs) against the upload API of *)
(* the agent (serve.rs). Every cp has an upload id of its own; all of them *)
(* copy to one remote path, one cp after another. The handler of a request *)
(* runs on when the client gives up on it, or is dropped where it stands.  *)
(* Every step on a file may fail. A file is its inode, known by the upload *)
(* that created it, and what it holds is the set of chunks that are no     *)
(* longer a hole. The bytes of an upload are those its sha256 announces    *)
(* unless the local file has changed between hashing and reading.          *)
(***************************************************************************)
EXTENDS Naturals, FiniteSets

CONSTANTS
    MaxCps,       \* bound: cps of one file, one after another; upload ids are 1 .. MaxCps
    LastChunk,    \* chunks are 0 .. LastChunk
    MaxTries,     \* attempts of put_chunk_with_retry
    MaxPuts       \* bound: upload_chunk handlers at work
ASSUME UploadAssumption ==
    LastChunk \in Nat /\ MaxCps \in Nat /\ MaxTries \in Nat \ {0} /\ MaxPuts \in Nat

VARIABLES
    changed,      \* uploads of a local file that changed after it was hashed
    entry,        \* the uploads table
    part,         \* uploads whose .part file has its name
    content,      \* the inode of each upload
    target,       \* the inode at the remote path
    puts,         \* upload_chunk handlers at work
    complete,     \* place of each upload_complete handler
    sweep,        \* place of each upload in prune
    cp,           \* the client
    broken        \* uploads whose init or complete handler was dropped half way or answered
                  \* an I/O error (500), or whose part could not be removed

files == <<part, content, target>>
uploadVars == <<changed, entry, files, puts, complete, sweep, cp, broken>>

Uploads == 1 .. MaxCps
Chunk == 0 .. LastChunk
NoFile == 0
Put == [u: Uploads, i: Chunk, try: 1 .. MaxTries, pc: {"look", "open", "write", "record"}]
Client == [u: Uploads \cup {NoFile}, i: Chunk, try: 1 .. MaxTries,
           pc: {"init", "insert", "put", "answer", "complete", "finish", "ok", "failed"}]

UploadTypeOK ==
    /\ changed \subseteq Uploads /\ entry \subseteq Uploads /\ part \subseteq Uploads
    /\ content \in [Uploads -> SUBSET Chunk]
    /\ target \in Uploads \cup {NoFile}
    /\ puts \subseteq Put
    /\ complete \in [Uploads -> {"none", "hash", "rename"}]
    /\ sweep \in [Uploads -> {"none", "remove", "delete"}]
    /\ cp \in Client
    /\ broken \subseteq Uploads

UploadInit ==
    /\ changed = {} /\ entry = {} /\ part = {} /\ puts = {} /\ broken = {}
    /\ content = [u \in Uploads |-> {}]
    /\ target = NoFile
    /\ complete = [u \in Uploads |-> "none"] /\ sweep = [u \in Uploads |-> "none"]
    /\ cp = [u |-> NoFile, i |-> 0, try |-> 1, pc |-> "failed"]
-----------------------------------------------------------------------------
(***************************************************************************)
(* upload_init and the chunks, as the client goes through them.            *)
(***************************************************************************)
\* The part file is created first and the table entry second.
InitCreate(u) ==
    /\ cp.pc \in {"ok", "failed"} /\ u = cp.u + 1
    /\ part' = part \cup {u}
    /\ cp' = [u |-> u, i |-> 0, try |-> 1, pc |-> "insert"]
    /\ changed' \in {changed, changed \cup {u}}
    /\ UNCHANGED <<entry, content, target, puts, complete, sweep, broken>>

\* set_len may fail, and the handler may be dropped: the file stays, in no table.
InitInsert ==
    /\ cp.pc = "insert"
    /\ \/ entry' = entry \cup {cp.u} /\ cp' = [cp EXCEPT !.pc = "put"] /\ UNCHANGED broken
       \/ broken' = broken \cup {cp.u} /\ cp' = [cp EXCEPT !.pc = "failed"] /\ UNCHANGED entry
    /\ UNCHANGED <<changed, files, puts, complete, sweep>>

PutChunk ==
    /\ cp.pc = "put" /\ Cardinality(puts) < MaxPuts
    /\ puts' = puts \cup {[u |-> cp.u, i |-> cp.i, try |-> cp.try, pc |-> "look"]}
    /\ cp' = [cp EXCEPT !.pc = "answer"]
    /\ UNCHANGED <<changed, entry, files, complete, sweep, broken>>

\* A 2xx answer: on to the next chunk. Any other, or none: try again, then give up.
Acked == IF cp.i = LastChunk THEN [cp EXCEPT !.pc = "complete"]
         ELSE [cp EXCEPT !.pc = "put", !.i = @ + 1, !.try = 1]
Refused == IF cp.try = MaxTries THEN [cp EXCEPT !.pc = "failed"]
           ELSE [cp EXCEPT !.pc = "put", !.try = @ + 1]

NoAnswer ==
    /\ cp.pc = "answer"
    /\ cp' = Refused
    /\ UNCHANGED <<changed, entry, files, puts, complete, sweep, broken>>
-----------------------------------------------------------------------------
(***************************************************************************)
(* upload_chunk: look the upload up, open the part, write, record.         *)
(***************************************************************************)
WaitsFor(h) == cp.pc = "answer" /\ cp.u = h.u /\ cp.i = h.i /\ cp.try = h.try

Proceed(h, pc) == puts' = (puts \ {h}) \cup {[h EXCEPT !.pc = pc]} /\ UNCHANGED cp
Replied(h, c) == puts' = puts \ {h} /\ cp' = IF WaitsFor(h) THEN c ELSE cp

ChunkLook(h) ==
    /\ h.pc = "look"
    /\ \/ h.u \in entry /\ Proceed(h, "open")
       \/ h.u \notin entry /\ Replied(h, Refused)
    /\ UNCHANGED <<changed, entry, files, complete, sweep, broken>>

ChunkOpen(h) ==
    /\ h.pc = "open"
    /\ \/ h.u \in part /\ Proceed(h, "write")
       \/ h.u \notin part /\ Replied(h, Refused)
    /\ UNCHANGED <<changed, entry, files, complete, sweep, broken>>

\* The open file is the inode, whatever has become of its name meanwhile. An error of the
\* last write is one of flush, which is ignored.
ChunkWrite(h) ==
    /\ h.pc = "write"
    /\ content' \in {content, [content EXCEPT ![h.u] = @ \cup {h.i}]}
    /\ Proceed(h, "record")
    /\ UNCHANGED <<changed, entry, part, target, complete, sweep, broken>>

ChunkRecord(h) ==
    /\ h.pc = "record"
    /\ Replied(h, IF h.u \in entry THEN Acked ELSE Refused)
    /\ UNCHANGED <<changed, entry, files, complete, sweep, broken>>

\* Or an I/O error: the answer is a 500, and the upload goes on.
ChunkDropped(h) ==
    /\ Replied(h, Refused)
    /\ UNCHANGED <<changed, entry, files, complete, sweep, broken>>
-----------------------------------------------------------------------------
(***************************************************************************)
(* upload_complete: out of the table, hash, rename.                        *)
(***************************************************************************)
AskComplete ==
    /\ cp.pc = "complete"
    /\ \/ /\ cp.u \in entry
          /\ entry' = entry \ {cp.u}
          /\ complete' = [complete EXCEPT ![cp.u] = "hash"]
          /\ cp' = [cp EXCEPT !.pc = "finish"]
       \/ cp.u \notin entry /\ cp' = [cp EXCEPT !.pc = "failed"] /\ UNCHANGED <<entry, complete>>
    /\ UNCHANGED <<changed, files, puts, sweep, broken>>

\* The handler ends; a client that still waits for it is told.
CompleteEnds(u, pc) ==
    /\ complete' = [complete EXCEPT ![u] = "none"]
    /\ cp' = IF cp.u = u /\ cp.pc = "finish" THEN [cp EXCEPT !.pc = pc] ELSE cp

Announced(u) == content[u] = Chunk /\ u \notin changed
VerifiedSize(u) == u \in part                   \* mutant: a part has its size from the start
Verified(u) == Announced(u)

\* sha256_file, or the rename, fails with the entry gone: so does the handler.
CompleteFails(u) == CompleteEnds(u, "failed") /\ broken' = broken \cup {u}

\* A mismatch removes the part, if it can be removed.
Hash(u) ==
    /\ complete[u] = "hash"
    /\ \/ /\ u \in part /\ Verified(u)
          /\ complete' = [complete EXCEPT ![u] = "rename"]
          /\ UNCHANGED <<part, cp, broken>>
       \/ ~Verified(u) /\ part' = part \ {u} /\ CompleteEnds(u, "failed") /\ UNCHANGED broken
       \/ CompleteFails(u) /\ UNCHANGED part
    /\ UNCHANGED <<changed, entry, content, target, puts, sweep>>

Rename(u) ==
    /\ complete[u] = "rename"
    /\ \/ /\ u \in part /\ part' = part \ {u} /\ target' = u
          /\ CompleteEnds(u, "ok") /\ UNCHANGED broken
       \/ CompleteFails(u) /\ UNCHANGED <<part, target>>
    /\ UNCHANGED <<changed, entry, content, puts, sweep>>

CompleteDropped(u) ==
    /\ complete[u] # "none"
    /\ CompleteFails(u)
    /\ UNCHANGED <<changed, entry, files, puts, sweep>>

NoVerdict ==
    /\ cp.pc = "finish"
    /\ cp' = [cp EXCEPT !.pc = "failed"]
    /\ UNCHANGED <<changed, entry, files, puts, complete, sweep, broken>>
-----------------------------------------------------------------------------
(***************************************************************************)
(* prune: collect what is stale, then remove each entry and its part. An   *)
(* upload is stale when its client has paused for UPLOAD_STALE.            *)
(***************************************************************************)
SweepCollect(u) ==
    /\ u \in entry /\ sweep[u] = "none"
    /\ sweep' = [sweep EXCEPT ![u] = "remove"]
    /\ UNCHANGED <<changed, entry, files, puts, complete, cp, broken>>

SweepRemove(u) ==
    /\ sweep[u] = "remove"
    /\ sweep' = [sweep EXCEPT ![u] = "delete"]
    /\ entry' = entry \ {u}
    /\ UNCHANGED <<changed, files, puts, complete, cp, broken>>

\* remove_file; its error is dropped.
SweepDelete(u) ==
    /\ sweep[u] = "delete"
    /\ sweep' = [sweep EXCEPT ![u] = "none"]
    /\ \/ part' = part \ {u} /\ UNCHANGED broken
       \/ broken' = broken \cup {u} /\ UNCHANGED part
    /\ UNCHANGED <<changed, entry, content, target, puts, complete, cp>>
-----------------------------------------------------------------------------
UploadNext ==
    \/ \E u \in Uploads :
          \/ InitCreate(u)
          \/ Hash(u) \/ Rename(u) \/ CompleteDropped(u)
          \/ SweepCollect(u) \/ SweepRemove(u) \/ SweepDelete(u)
    \/ InitInsert \/ PutChunk \/ NoAnswer \/ AskComplete \/ NoVerdict
    \/ \E h \in puts :
          ChunkLook(h) \/ ChunkOpen(h) \/ ChunkWrite(h) \/ ChunkRecord(h) \/ ChunkDropped(h)

UploadSpec == UploadInit /\ [][UploadNext]_uploadVars
-----------------------------------------------------------------------------
\* Whatever late chunks are still being written, the remote path never names a file that
\* is not, whole, what was announced.
TargetIsWhole == target # NoFile => Announced(target)

\* No interleaving forgets a preallocated part file: the table knows it, or a handler or the
\* sweep is about to take it away. What nobody takes away any more is the file of an upload
\* whose init or complete was cut off or met an I/O error (serve.rs answers 500 with the
\* entry gone or never made, and leaves the file), or could not be removed.
PartsAreReclaimed ==
    \A u \in part :
        \/ u \in entry \cup broken
        \/ complete[u] # "none" \/ sweep[u] # "none"
        \/ cp.u = u /\ cp.pc = "insert"
\* serve.rs: uploads, their sweep and their completion side by side.
UploadIsSound == TargetIsWhole /\ PartsAreReclaimed
=============================================================================
