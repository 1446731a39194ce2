----------------------------- MODULE ImagePush -----------------------------
(***************************************************************************)
(* `image push` (cli image.rs): build and push an image, here or on a      *)
(* remote host, and pin its digest in the lockfile, from which `run`,      *)
(* `session create` and `serve up` take what they deploy. Pushes may       *)
(* overlap and may be killed. A digest is the push that made it. A layer   *)
(* that a repository holds is referenced as it was FIRST pushed, whatever  *)
(* format a later push of it asks for (image.rs, docs/registry.md).        *)
(***************************************************************************)
CONSTANTS
    Pushes,       \* the pushes
    ImageNames,   \* image names, the keys of the lockfile and the repositories
    ImageLayers   \* what images are made of
ASSUME ImageAssumption == ImageNames # {}

VARIABLES
    push,         \* per push: place, image, layers, whether it runs on a remote, the format asked
    registry,     \* the images stored there
    blobs,        \* the layers stored there, each with the push that first stored it
    lock,         \* the lockfile as each push has loaded and merged it
    lockfile,     \* the lockfile: its entries, and whether it can be parsed
    authFiles,       \* pushes whose authfile lies on the remote
    leaked,       \* pushes that were killed, or could not remove it and said so
    deployed      \* the entry the last deploy went by, if any

pushVars == <<push, registry, blobs, lock, lockfile, authFiles, leaked, deployed>>

LockEntry == [image: ImageNames, digest: Pushes]
Absent == [readable |-> TRUE, entries |-> {}]
Unreadable == [readable |-> FALSE, entries |-> {}]
FormatRequests == {"unset", "gzip", "none", "zstd", "acknowledged", "xz"}
RemotePlaces == {"stream", "remote push", "read digest", "clean up"}
PushRecord ==
    [pc: {"idle", "login", "build", "mktemp", "load", "truncate", "write", "done", "failed"}
           \cup RemotePlaces,
     image: ImageNames, contents: SUBSET ImageLayers, remote: BOOLEAN,
     format: {"gzip", "none", "zstd"}, acknowledged: BOOLEAN, ok: BOOLEAN]

ImageTypeOK ==
    /\ push \in [Pushes -> PushRecord]
    /\ blobs \subseteq [layer: ImageLayers, by: Pushes]
    /\ registry \subseteq LockEntry /\ deployed \subseteq LockEntry
    /\ lock \in [Pushes -> SUBSET LockEntry]
    /\ lockfile \in [readable: BOOLEAN, entries: SUBSET LockEntry]
    /\ \A e, f \in lockfile.entries : e.image = f.image => e = f
    /\ authFiles \subseteq Pushes /\ leaked \subseteq Pushes

ImageInit ==
    /\ push = [p \in Pushes |-> [pc |-> "idle", image |-> CHOOSE i \in ImageNames : TRUE,
                                 contents |-> {}, remote |-> FALSE, format |-> "gzip",
                                 acknowledged |-> FALSE, ok |-> FALSE]]
    /\ registry = {} /\ blobs = {}
    /\ lock = [p \in Pushes |-> {}]
    /\ lockfile = Absent
    /\ authFiles = {} /\ leaked = {}
    /\ deployed = {}
-----------------------------------------------------------------------------
(***************************************************************************)
(* Before the upload: compression_args refuses what cannot be used, or     *)
(* what no node can unpack, before anything is authenticated or uploaded.  *)
(***************************************************************************)
AcceptedAny == FormatRequests                         \* mutant: a bare zstd passes
Accepted == {"unset", "gzip", "none", "acknowledged"}
Format(request) ==
    CASE request = "none" -> "none"
      [] request \in {"acknowledged", "zstd"} -> "zstd"
      [] OTHER -> "gzip"

Start(p, image, contents, remote, request) ==
    /\ push[p].pc = "idle"
    /\ push' = [push EXCEPT ![p] =
          [pc |-> IF request \in Accepted THEN "login" ELSE "failed",
           image |-> image, contents |-> contents, remote |-> remote,
           format |-> Format(request),
           acknowledged |-> request = "acknowledged", ok |-> FALSE]]
    /\ UNCHANGED <<registry, blobs, lock, lockfile, authFiles, leaked, deployed>>

Goto(p, pc) == push' = [push EXCEPT ![p].pc = pc]

\* Each external command may fail, which ends the push.
Login(p) ==
    /\ push[p].pc = "login"
    /\ Goto(p, "build") \/ Goto(p, "failed")
    /\ UNCHANGED <<registry, blobs, lock, lockfile, authFiles, leaked, deployed>>

Pushed(p) == [image |-> push[p].image, digest |-> p]

\* What the repository holds is referenced and not sent again.
Holding(image) == {b.layer : b \in {x \in blobs : push[x.by].image = image}}
StoreLayers(p, some) ==
    blobs' = blobs \cup [layer: some \ Holding(push[p].image), by: {p}]
StoreImage(p) ==
    /\ StoreLayers(p, push[p].contents)
    /\ registry' = registry \cup {Pushed(p)}

\* A copy that fails may have stored some layers, or all and the image.
StorePart(p) ==
    \/ StoreImage(p)
    \/ /\ \E some \in SUBSET push[p].contents : StoreLayers(p, some)
       /\ UNCHANGED registry
-----------------------------------------------------------------------------
(***************************************************************************)
(* The build and push: run_copy_to, or push_via_remote.                    *)
(***************************************************************************)
CopyTo(p) ==
    /\ push[p].pc = "build" /\ ~push[p].remote
    /\ \/ StoreImage(p) /\ Goto(p, "load")
       \/ StorePart(p) /\ Goto(p, "failed")
    /\ UNCHANGED <<lock, lockfile, authFiles, leaked, deployed>>

RemoteBuild(p) ==
    /\ push[p].pc = "build" /\ push[p].remote
    /\ Goto(p, "mktemp") \/ Goto(p, "failed")
    /\ UNCHANGED <<registry, blobs, lock, lockfile, authFiles, leaked, deployed>>

RemoteMktemp(p) ==
    /\ push[p].pc = "mktemp"
    /\ Goto(p, "stream") \/ Goto(p, "failed")
    /\ UNCHANGED <<registry, blobs, lock, lockfile, authFiles, leaked, deployed>>

\* From here on every early return still cleans up the remote directory.
FailRemote(p) == push' = [push EXCEPT ![p].pc = "clean up", ![p].ok = FALSE]

StreamAuth(p) ==
    /\ push[p].pc = "stream"
    /\ \/ authFiles' = authFiles \cup {p} /\ Goto(p, "remote push")
       \/ authFiles' \in {authFiles, authFiles \cup {p}} /\ FailRemote(p)
    /\ UNCHANGED <<registry, blobs, lock, lockfile, leaked, deployed>>

RemotePush(p) ==
    /\ push[p].pc = "remote push"
    /\ \/ StoreImage(p) /\ Goto(p, "read digest")
       \/ StorePart(p) /\ FailRemote(p)
    /\ UNCHANGED <<lock, lockfile, authFiles, leaked, deployed>>

ReadDigest(p) ==
    /\ push[p].pc = "read digest"
    /\ \/ push' = [push EXCEPT ![p].pc = "clean up", ![p].ok = TRUE]
       \/ FailRemote(p)
    /\ UNCHANGED <<registry, blobs, lock, lockfile, authFiles, leaked, deployed>>

\* Best effort; a directory that stays is reported.
CleanUp(p) ==
    /\ push[p].pc = "clean up"
    /\ \/ authFiles' = authFiles \ {p} /\ UNCHANGED leaked
       \/ leaked' = leaked \cup {p} /\ UNCHANGED authFiles
    /\ Goto(p, IF push[p].ok THEN "load" ELSE "failed")
    /\ UNCHANGED <<registry, blobs, lock, lockfile, deployed>>
-----------------------------------------------------------------------------
(***************************************************************************)
(* The lockfile: load, insert, and std::fs::write, which empties the file  *)
(* before it writes. Nothing keeps two pushes apart.                       *)
(***************************************************************************)
Insert(entries, new) == {e \in entries : e.image # new.image} \cup {new}

LoadLock(p) ==
    /\ push[p].pc = "load"
    /\ IF lockfile.readable
       THEN /\ lock' = [lock EXCEPT ![p] = Insert(lockfile.entries, Pushed(p))]
            /\ Goto(p, "truncate")
       ELSE Goto(p, "failed") /\ UNCHANGED lock
    /\ UNCHANGED <<registry, blobs, lockfile, authFiles, leaked, deployed>>

TruncateLock(p) ==
    /\ push[p].pc = "truncate"
    /\ lockfile' = Unreadable
    /\ Goto(p, "write")
    /\ UNCHANGED <<registry, blobs, lock, authFiles, leaked, deployed>>

\* What another push wrote after the file was emptied, and is longer, leaves its tail.
WriteLock(p) ==
    /\ push[p].pc = "write"
    /\ \/ lockfile' = [readable |-> TRUE, entries |-> lock[p]]
       \/ lockfile.readable /\ lockfile' = Unreadable
    /\ Goto(p, "done")
    /\ UNCHANGED <<registry, blobs, lock, authFiles, leaked, deployed>>

Kill(p) ==
    /\ push[p].pc \notin {"idle", "done", "failed"}
    /\ Goto(p, "failed")
    /\ leaked' = leaked \cup {p}
    /\ UNCHANGED <<registry, blobs, lock, lockfile, authFiles, deployed>>

\* resolve_deploy_image: a key of a readable lockfile is its digest, all else is itself.
Deploy(image) ==
    /\ deployed' = {e \in lockfile.entries : e.image = image}
    /\ UNCHANGED <<push, registry, blobs, lock, lockfile, authFiles, leaked>>
-----------------------------------------------------------------------------
PushNext(p) ==
    \/ \E image \in ImageNames, contents \in SUBSET ImageLayers \ {{}},
          remote \in BOOLEAN, request \in FormatRequests :
          Start(p, image, contents, remote, request)
    \/ Login(p) \/ CopyTo(p)
    \/ RemoteBuild(p) \/ RemoteMktemp(p) \/ StreamAuth(p) \/ RemotePush(p)
    \/ ReadDigest(p) \/ CleanUp(p)
    \/ LoadLock(p) \/ TruncateLock(p) \/ WriteLock(p) \/ Kill(p)

ImageNext == (\E p \in Pushes : PushNext(p)) \/ \E image \in ImageNames : Deploy(image)

ImageSpec == ImageInit /\ [][ImageNext]_pushVars
-----------------------------------------------------------------------------
\* Whatever overlaps, fails or is killed, what a deploy takes from the lockfile is stored
\* whole under that name, and a layer of it that the nodes cannot unpack was first pushed
\* there by a push that waived this by name. That need not be the push deployed: one that
\* asks for gzip pins an image with an earlier push's zstd layers, so that the "guarantee
\* that a Salad-bound image is never accidentally zstd" (image.rs) is for repositories
\* without such a push.
DeployedIsWhole ==
    \A e \in deployed :
        /\ e \in registry
        /\ push[e.digest].contents \subseteq Holding(e.image)
        /\ \A b \in blobs :
              (/\ push[b.by].image = e.image /\ push[b.by].format = "zstd"
               /\ b.layer \in push[e.digest].contents)
                 => push[b.by].acknowledged

\* The registry token does not stay on the remote "whether or not the push succeeded"
\* (image.rs), except where the removal failed or the push was killed.
TokenIsRemoved ==
    \A p \in authFiles : push[p].pc \in RemotePlaces \/ p \in leaked
\* image.rs push and the deploys that read its lockfile.
PushIsSound == DeployedIsWhole /\ TokenIsRemoved
=============================================================================
