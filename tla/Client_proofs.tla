---------------------------- MODULE Client_proofs -----------------------------
(***************************************************************************)
(* The clients of other services: pushes to the image registry, the        *)
(* headers that go to the tunnel and the storage, the calls of the         *)
(* SaladCloud API and the logs read through it, each for every value of    *)
(* the constants.                                                          *)
(***************************************************************************)
EXTENDS ImagePush, Credentials, ApiRetry, LogFollow, TLAPS, FiniteSetTheorems, SequenceTheorems
-----------------------------------------------------------------------------
(***************************************************************************)
(* What a deploy takes from the lock file is stored, layer by layer, and   *)
(* each layer in the format of the push that stored it first.              *)
(***************************************************************************)

\* An image is in a lock file once.
Unique(entries) == \A e, f \in entries : e.image = f.image => e = f

\* A node can unpack the layers that the push stores, or that was waived by name.
Startable(p) == push[p].format = "zstd" => push[p].acknowledged

\* A push that has put its image into the registry.
HasStored(p) ==
    push[p].pc \in {"load", "read digest"} \/ (push[p].pc = "clean up" /\ push[p].ok)

\* What holds of each push: what it has merged, and the places at which it has stored its
\* image and has its token on the remote.
Sound(p) ==
    /\ push[p].pc \notin {"idle", "failed"} => Startable(p)
    /\ HasStored(p) => Pushed(p) \in registry
    /\ lock[p] \subseteq registry /\ Unique(lock[p])
    /\ p \in authFiles => push[p].pc \in RemotePlaces \/ p \in leaked

\* An image in the registry is of the push that it names, and all there.
Whole(e) ==
    /\ push[e.digest].pc # "idle" /\ push[e.digest].image = e.image
    /\ \A layer \in push[e.digest].contents :
          \E b \in blobs : b.layer = layer /\ push[b.by].image = e.image

\* What the registry holds.
Stored ==
    /\ \A e \in registry : Whole(e)
    /\ \A b \in blobs : push[b.by].pc # "idle" /\ Startable(b.by)

\* What a step of p may add to the registry: layers of its own, and its image when the
\* repository then has each layer of it.
StoredBy(p) == registry \cup {Pushed(p)}
Stores(p) ==
    /\ blobs \subseteq blobs' /\ blobs' \subseteq blobs \cup [layer: ImageLayers, by: {p}]
    /\ \/ registry' = registry
       \/ /\ registry' = StoredBy(p)
          /\ \A layer \in push[p].contents :
                \E b \in blobs' : b.layer = layer /\ push[b.by].image = push[p].image

ImageInv ==
    /\ ImageTypeOK
    /\ \A p \in Pushes : Sound(p)
    /\ Stored
    /\ lockfile.entries \subseteq registry /\ deployed \subseteq registry

\* Nothing is pushed at first.
LEMMA InitImageInv == ImageInit => ImageInv
<1> SUFFICES ASSUME ImageInit PROVE ImageInv
    OBVIOUS
<1>1. ImageTypeOK
    <2>1. (CHOOSE i \in ImageNames : TRUE) \in ImageNames
        BY ImageAssumption
    <2>2. push \in [Pushes -> PushRecord]
        BY <2>1 DEF ImageInit, PushRecord
    <2>3. lockfile = Absent /\ Absent \in [readable: BOOLEAN, entries: SUBSET LockEntry]
        BY DEF ImageInit, Absent
    <2> QED BY <2>2, <2>3 DEF ImageInit, ImageTypeOK, Absent
<1> QED BY <1>1 DEF ImageInit, ImageInv, Sound, Stored, HasStored, Unique, Absent

\* The copies to the registry do no more than that.
LEMMA StoreIs ==
    ASSUME ImageInv, NEW p \in Pushes
    PROVE  /\ StoreImage(p) => Stores(p) /\ registry' = StoredBy(p)
           /\ StorePart(p) => Stores(p)
           /\ UNCHANGED <<registry, blobs>> => Stores(p)
<1>1. push[p].contents \subseteq ImageLayers
    BY DEF ImageInv, ImageTypeOK, PushRecord
<1>2. ASSUME NEW some \in SUBSET push[p].contents, StoreLayers(p, some)
      PROVE  /\ blobs \subseteq blobs' /\ blobs' \subseteq blobs \cup [layer: ImageLayers, by: {p}]
             /\ \A layer \in some :
                   \E b \in blobs' : b.layer = layer /\ push[b.by].image = push[p].image
    <2>1. blobs' = blobs \cup [layer: some \ Holding(push[p].image), by: {p}]
        BY <1>2 DEF StoreLayers
    <2>2. [layer: some \ Holding(push[p].image), by: {p}] \subseteq [layer: ImageLayers, by: {p}]
        BY <1>1
    <2>3. ASSUME NEW layer \in some
          PROVE  \E b \in blobs' : b.layer = layer /\ push[b.by].image = push[p].image
        <3>1. CASE layer \in Holding(push[p].image)
            BY <3>1, <2>1 DEF Holding
        <3>2. CASE layer \notin Holding(push[p].image)
            <4>1. [layer |-> layer, by |-> p] \in blobs'
                BY <3>2, <2>1
            <4> QED BY <4>1
        <3> QED BY <3>1, <3>2
    <2> QED BY <2>1, <2>2, <2>3
<1>3. StoreImage(p) => Stores(p) /\ registry' = StoredBy(p)
    <2> SUFFICES ASSUME StoreImage(p) PROVE Stores(p) /\ registry' = StoredBy(p)
        OBVIOUS
    <2>1. StoreLayers(p, push[p].contents) /\ registry' = StoredBy(p)
        BY DEF StoreImage, StoredBy
    <2>2. push[p].contents \in SUBSET push[p].contents
        OBVIOUS
    <2> QED BY <2>1, <2>2, <1>2 DEF Stores
<1>4. StorePart(p) => Stores(p)
    BY <1>2, <1>3 DEF StorePart, Stores
<1> QED BY <1>3, <1>4 DEF Stores

\* A step of one push: what it has to leave for the invariant to go on holding.
LEMMA OnePushMoves ==
    ASSUME ImageInv, NEW p \in Pushes, NEW r \in PushRecord, push' = [push EXCEPT ![p] = r],
           r.image = push[p].image, r.contents = push[p].contents, r.format = push[p].format,
           r.acknowledged = push[p].acknowledged,
           push[p].pc \notin {"idle", "failed"}, r.pc # "idle", Stores(p),
           r.pc \in {"load", "read digest"} \/ (r.pc = "clean up" /\ r.ok)
              => Pushed(p) \in registry',
           authFiles' \subseteq authFiles \cup {p},
           leaked \subseteq leaked', leaked' \subseteq leaked \cup {p},
           p \in authFiles' => r.pc \in RemotePlaces \/ p \in leaked',
           NEW l \in SUBSET registry', lock' = [lock EXCEPT ![p] = l], Unique(l),
           lockfile' \in [readable: BOOLEAN, entries: SUBSET registry'],
           Unique(lockfile'.entries), UNCHANGED deployed
    PROVE  ImageInv'
<1>0. /\ push \in [Pushes -> PushRecord] /\ registry \subseteq LockEntry
      /\ push[p] \in PushRecord /\ Startable(p) /\ Sound(p)
    BY DEF ImageInv, ImageTypeOK, Sound
<1>1. push' \in [Pushes -> PushRecord] /\ push'[p] = r /\ \A q \in Pushes \ {p} : push'[q] = push[q]
    BY <1>0
<1>2. Pushed(p) \in LockEntry /\ Pushed(p).digest = p /\ Pushed(p)' = Pushed(p)
    BY <1>0, <1>1 DEF Pushed, LockEntry, PushRecord
<1>3. registry' \subseteq LockEntry /\ registry \subseteq registry' /\ registry' \subseteq StoredBy(p)
    BY <1>0, <1>2 DEF Stores, StoredBy
<1>4. /\ lock' \in [Pushes -> SUBSET LockEntry]
      /\ lock'[p] = l /\ \A q \in Pushes \ {p} : lock'[q] = lock[q]
    <2>1. l \in SUBSET LockEntry /\ lock \in [Pushes -> SUBSET LockEntry]
        BY <1>3 DEF ImageInv, ImageTypeOK
    <2> QED BY <2>1
<1>5. lockfile' \in [readable: BOOLEAN, entries: SUBSET LockEntry]
      /\ lockfile'.entries \subseteq registry'
    BY <1>3
<1>6. ImageTypeOK'
    <2>1. authFiles' \subseteq Pushes /\ leaked' \subseteq Pushes /\ deployed' \subseteq LockEntry
        BY DEF ImageInv, ImageTypeOK
    <2>2. \A e, f \in lockfile'.entries : e.image = f.image => e = f
        BY DEF Unique
    <2>3. blobs' \subseteq [layer: ImageLayers, by: Pushes]
        BY DEF ImageInv, ImageTypeOK, Stores
    <2> QED BY <1>1, <1>3, <1>4, <1>5, <2>1, <2>2, <2>3 DEF ImageTypeOK
<1>7. Startable(p)' /\ \A q \in Pushes \ {p} : Startable(q) => Startable(q)'
    BY <1>0, <1>1 DEF Startable
<1>8. Stored'
    <2>1. \A q \in Pushes : /\ push'[q].image = push[q].image /\ push'[q].contents = push[q].contents
                            /\ push[q].pc # "idle" => push'[q].pc # "idle"
        BY <1>1
    <2>2. blobs \subseteq blobs' /\ \A b \in blobs' : b.by \in Pushes /\ (b \in blobs \/ b.by = p)
        BY DEF Stores, ImageInv, ImageTypeOK
    <2>3. ASSUME NEW b \in blobs' PROVE push'[b.by].pc # "idle" /\ Startable(b.by)'
        <3>1. CASE b.by = p
            BY <3>1, <1>1, <1>7
        <3>2. CASE b.by # p
            BY <3>2, <2>2, <1>1, <1>7 DEF ImageInv, Stored
        <3> QED BY <3>1, <3>2
    <2>4. ASSUME NEW e \in registry' PROVE Whole(e)'
        <3>1. CASE e \in registry
            <4>1. Whole(e) /\ e.digest \in Pushes
                BY <3>1, <1>0 DEF ImageInv, Stored, LockEntry
            <4>2. \A b \in blobs : b \in blobs' /\ push'[b.by].image = push[b.by].image
                BY <2>1, <2>2
            <4>3. /\ push'[e.digest].pc # "idle" /\ push'[e.digest].image = e.image
                  /\ push'[e.digest].contents = push[e.digest].contents
                BY <4>1, <2>1 DEF Whole
            <4>4. ASSUME NEW layer \in push[e.digest].contents
                  PROVE  \E b \in blobs' : b.layer = layer /\ push'[b.by].image = e.image
                <5>1. PICK b \in blobs : b.layer = layer /\ push[b.by].image = e.image
                    BY <4>1, <4>4 DEF Whole
                <5> QED BY <5>1, <4>2
            <4> QED BY <4>3, <4>4 DEF Whole
        <3>2. CASE e \notin registry
            <4>1. e = Pushed(p) /\ registry' # registry
                BY <3>2, <1>3 DEF StoredBy
            <4>2. e.digest = p /\ e.image = push[p].image
                BY <4>1 DEF Pushed
            <4>3. \A layer \in push[p].contents :
                      \E b \in blobs' : b.layer = layer /\ push[b.by].image = push[p].image
                BY <4>1 DEF Stores
            <4>4. /\ push'[p].pc # "idle" /\ push'[p].image = push[p].image
                  /\ push'[p].contents = push[p].contents
                BY <2>1, <1>1
            <4>5. \A b \in blobs' : push'[b.by].image = push[b.by].image
                BY <2>1, <2>2
            <4>6. ASSUME NEW layer \in push[p].contents
                  PROVE  \E b \in blobs' : b.layer = layer /\ push'[b.by].image = push[p].image
                <5>1. PICK b \in blobs' : b.layer = layer /\ push[b.by].image = push[p].image
                    BY <4>3, <4>6
                <5> QED BY <5>1, <4>5
            <4>7. /\ push'[e.digest].pc # "idle" /\ push'[e.digest].image = e.image
                  /\ push'[e.digest].contents = push[p].contents
                BY <4>2, <4>4
            <4>8. ASSUME NEW layer \in push'[e.digest].contents
                  PROVE  \E b \in blobs' : b.layer = layer /\ push'[b.by].image = e.image
                <5>1. layer \in push[p].contents
                    BY <4>7, <4>8
                <5>2. PICK b \in blobs' : b.layer = layer /\ push'[b.by].image = push[p].image
                    BY <4>6, <5>1
                <5> QED BY <4>2, <5>2
            <4> QED BY <4>7, <4>8 DEF Whole
        <3> QED BY <3>1, <3>2
    <2> QED BY <2>3, <2>4 DEF Stored
<1>9. ASSUME NEW q \in Pushes PROVE Sound(q)'
    <2>1. CASE q = p
        <3>1. push'[q].pc \notin {"idle", "failed"} => Startable(q)'
            BY <2>1, <1>7
        <3>2. HasStored(q)' => Pushed(q)' \in registry'
            BY <2>1, <1>1, <1>2 DEF HasStored
        <3>3. lock'[q] \subseteq registry' /\ Unique(lock[q])'
            BY <2>1, <1>4 DEF Unique
        <3>4. q \in authFiles' => push'[q].pc \in RemotePlaces \/ q \in leaked'
            BY <2>1, <1>1
        <3> QED BY <3>1, <3>2, <3>3, <3>4 DEF Sound
    <2>2. CASE q # p
        <3>1. push'[q] = push[q] /\ lock'[q] = lock[q] /\ Sound(q)
            BY <2>2, <1>1, <1>4 DEF ImageInv
        <3>2. (HasStored(q)' <=> HasStored(q)) /\ Pushed(q)' = Pushed(q)
              /\ (Startable(q)' <=> Startable(q)) /\ (Unique(lock[q])' <=> Unique(lock[q]))
            BY <3>1 DEF HasStored, Pushed, Startable, Unique
        <3>3. q \in authFiles' => q \in authFiles
            BY <2>2
        <3>4. q \in leaked => q \in leaked'
            OBVIOUS
        <3> QED BY <3>1, <3>2, <3>3, <3>4, <1>3 DEF Sound
    <2> QED BY <2>1, <2>2
<1>10. deployed' \subseteq registry'
    BY <1>3 DEF ImageInv
<1> QED BY <1>5, <1>6, <1>8, <1>9, <1>10 DEF ImageInv

PushPlaces ==
    {"login", "build", "mktemp", "load", "truncate", "write", "done", "failed"} \cup RemotePlaces
Placed(p, x, b) == [push[p] EXCEPT !.pc = x, !.ok = b]

\* A push moved to another place is a push still, of the same image.
LEMMA PlacedIs ==
    ASSUME ImageInv, NEW p \in Pushes, NEW x \in PushPlaces, NEW b \in BOOLEAN
    PROVE  /\ Placed(p, x, b) \in PushRecord
           /\ Placed(p, x, b).pc = x /\ (Placed(p, x, b).ok => b) /\ x # "idle"
           /\ Placed(p, x, b).image = push[p].image
           /\ Placed(p, x, b).contents = push[p].contents
           /\ Placed(p, x, b).format = push[p].format
           /\ Placed(p, x, b).acknowledged = push[p].acknowledged
<1>1. push[p] \in PushRecord
    BY DEF ImageInv, ImageTypeOK
<1> QED BY <1>1 DEF Placed, PushRecord, PushPlaces, RemotePlaces

\* Goto and FailRemote move a push and do nothing else to it.
LEMMA GotoIs ==
    ASSUME ImageInv, NEW p \in Pushes
    PROVE  /\ push[p] \in PushRecord /\ push[p].ok \in BOOLEAN
           /\ \A x \in PushPlaces : Goto(p, x) => push' = [push EXCEPT ![p] = Placed(p, x, push[p].ok)]
           /\ FailRemote(p) => push' = [push EXCEPT ![p] = Placed(p, "clean up", FALSE)]
<1>1. push \in [Pushes -> PushRecord] /\ push[p] \in PushRecord
    BY DEF ImageInv, ImageTypeOK
<1>2. push[p].ok \in BOOLEAN /\ \A x \in PushPlaces : [push[p] EXCEPT !.pc = x] = Placed(p, x, push[p].ok)
    BY <1>1 DEF PushRecord, Placed
<1> QED BY <1>1, <1>2 DEF Goto, FailRemote, Placed

\* A step that goes from one place to another, and leaves the lockfile alone.
LEMMA OneGoes ==
    ASSUME ImageInv, NEW p \in Pushes, NEW x \in PushPlaces, NEW b \in BOOLEAN,
           push' = [push EXCEPT ![p] = Placed(p, x, b)],
           push[p].pc \notin {"idle", "failed"}, Stores(p),
           x \in {"load", "read digest"} \/ (x = "clean up" /\ b) => Pushed(p) \in registry',
           authFiles' \subseteq authFiles \cup {p},
           leaked \subseteq leaked', leaked' \subseteq leaked \cup {p},
           p \in authFiles' => x \in RemotePlaces \/ p \in leaked',
           UNCHANGED <<lock, lockfile, deployed>>
    PROVE  ImageInv'
<1>1. lock' = [lock EXCEPT ![p] = lock[p]] /\ lock[p] \subseteq registry /\ Unique(lock[p])
    BY DEF ImageInv, ImageTypeOK, Sound
<1>2. registry \subseteq registry'
    BY DEF Stores, StoredBy
<1>3. lock[p] \in SUBSET registry'
    BY <1>1, <1>2
<1>4. lockfile' \in [readable: BOOLEAN, entries: SUBSET registry'] /\ Unique(lockfile'.entries)
    BY <1>2 DEF ImageInv, ImageTypeOK, Unique
<1>5. UNCHANGED deployed
    OBVIOUS
<1> DEFINE r == Placed(p, x, b)
<1>6. /\ r \in PushRecord /\ r.pc = x /\ (r.ok => b) /\ x # "idle" /\ r.image = push[p].image
      /\ r.contents = push[p].contents /\ r.format = push[p].format
      /\ r.acknowledged = push[p].acknowledged
    BY PlacedIs, ZenonT(30)
<1>7. push' = [push EXCEPT ![p] = r]
    OBVIOUS
<1> HIDE DEF r
<1> QED BY <1>1, <1>3, <1>4, <1>5, <1>6, <1>7, OnePushMoves, ZenonT(30)

\* The places before the upload, and the upload itself, here or on the remote.
LEMMA UploadKeepsInv ==
    ASSUME ImageInv, NEW p \in Pushes,
           \/ Login(p) \/ CopyTo(p) \/ RemoteBuild(p) \/ RemoteMktemp(p) \/ StreamAuth(p)
           \/ RemotePush(p) \/ ReadDigest(p) \/ CleanUp(p) \/ Kill(p)
    PROVE  ImageInv'
<1> DEFINE was == push[p].ok
<1>0. /\ was \in BOOLEAN /\ Sound(p) /\ Pushed(p) \in StoredBy(p)
      /\ UNCHANGED <<registry, blobs>> => Stores(p)
      /\ \A x \in PushPlaces : Goto(p, x) => push' = [push EXCEPT ![p] = Placed(p, x, was)]
      /\ FailRemote(p) => push' = [push EXCEPT ![p] = Placed(p, "clean up", FALSE)]
    BY GotoIs, StoreIs DEF ImageInv, StoredBy
<1>1. \A x \in {"login", "build", "mktemp", "load", "failed", "stream", "remote push",
               "read digest", "clean up"} : x \in PushPlaces
    BY DEF PushPlaces, RemotePlaces
<1>2. {"stream", "remote push", "read digest", "clean up"} = RemotePlaces
    BY DEF RemotePlaces
<1>3. push[p].pc \notin RemotePlaces => p \notin authFiles \/ p \in leaked
    BY <1>0 DEF Sound
<1> HIDE DEF was
<1>4. CASE Login(p) \/ RemoteBuild(p) \/ RemoteMktemp(p)
    <2>1. PICK x \in {"build", "failed", "mktemp", "stream"} : Goto(p, x)
        BY <1>4 DEF Login, RemoteBuild, RemoteMktemp
    <2>2. /\ UNCHANGED <<registry, blobs, authFiles, leaked, lock, lockfile, deployed>>
          /\ push[p].pc \in {"login", "build", "mktemp"}
        BY <1>4 DEF Login, RemoteBuild, RemoteMktemp
    <2>3. p \notin authFiles \/ p \in leaked
        BY <1>2, <1>3, <2>2
    <2> QED BY <1>0, <1>1, <2>1, <2>2, <2>3, OneGoes
<1>5. CASE CopyTo(p)
    <2>1. /\ UNCHANGED <<authFiles, leaked, lock, lockfile, deployed>> /\ push[p].pc = "build"
          /\ StoreImage(p) \/ StorePart(p)
        BY <1>5 DEF CopyTo
    <2>2. PICK x \in {"load", "failed"} : Goto(p, x) /\ (x = "load" => registry' = StoredBy(p))
        BY <1>5, StoreIs DEF CopyTo
    <2>3. (p \notin authFiles \/ p \in leaked) /\ Stores(p)
        BY <1>2, <1>3, <2>1, StoreIs
    <2> QED BY <1>0, <1>1, <2>1, <2>2, <2>3, OneGoes
<1>6. CASE StreamAuth(p)
    <2>1. /\ UNCHANGED <<registry, blobs, leaked, lock, lockfile, deployed>> /\ push[p].pc = "stream"
          /\ authFiles' \subseteq authFiles \cup {p}
        BY <1>6 DEF StreamAuth
    <2>2. Goto(p, "remote push") \/ FailRemote(p)
        BY <1>6 DEF StreamAuth
    <2> QED BY <1>0, <1>1, <1>2, <2>1, <2>2, OneGoes
<1>7. CASE RemotePush(p)
    <2>1. /\ UNCHANGED <<authFiles, leaked, lock, lockfile, deployed>> /\ push[p].pc = "remote push"
          /\ StoreImage(p) \/ StorePart(p)
        BY <1>7 DEF RemotePush
    <2>2. (Goto(p, "read digest") /\ registry' = StoredBy(p)) \/ FailRemote(p)
        BY <1>7, StoreIs DEF RemotePush
    <2>3. Stores(p)
        BY <2>1, StoreIs
    <2> QED BY <1>0, <1>1, <1>2, <2>1, <2>2, <2>3, OneGoes
<1>8. CASE ReadDigest(p)
    <2>1. /\ UNCHANGED <<registry, blobs, authFiles, leaked, lock, lockfile, deployed>>
          /\ push[p].pc = "read digest"
        BY <1>8 DEF ReadDigest
    <2>2. push' = [push EXCEPT ![p] = Placed(p, "clean up", TRUE)] \/ FailRemote(p)
        BY <1>8 DEF ReadDigest, Placed, ImageInv, ImageTypeOK
    <2>3. Pushed(p) \in registry
        BY <1>0, <2>1 DEF Sound, HasStored
    <2> QED BY <1>0, <1>1, <1>2, <2>1, <2>2, <2>3, OneGoes
<1>9. CASE CleanUp(p)
    <2>1. /\ UNCHANGED <<registry, blobs, lock, lockfile, deployed>> /\ push[p].pc = "clean up"
          /\ authFiles' \subseteq authFiles /\ leaked \subseteq leaked' /\ leaked' \subseteq leaked \cup {p}
          /\ p \notin authFiles' \/ p \in leaked'
        BY <1>9 DEF CleanUp
    <2>2. PICK x \in {"load", "failed"} : Goto(p, x) /\ (x = "load" => push[p].ok)
        BY <1>9 DEF CleanUp
    <2>3. x = "load" => Pushed(p) \in registry
        BY <1>0, <2>1, <2>2 DEF Sound, HasStored
    <2> QED BY <1>0, <1>1, <2>1, <2>2, <2>3, OneGoes
<1>10. CASE Kill(p)
    <2>1. /\ UNCHANGED <<registry, blobs, authFiles, lock, lockfile, deployed>>
          /\ push[p].pc \notin {"idle", "failed"}
          /\ leaked' = leaked \cup {p} /\ Goto(p, "failed")
        BY <1>10 DEF Kill
    <2> QED BY <1>0, <1>1, <2>1, OneGoes
<1> QED BY <1>4, <1>5, <1>6, <1>7, <1>8, <1>9, <1>10

\* A push that begins is at its first place, or is refused.
LEMMA StartKeepsInv ==
    ASSUME ImageInv, NEW p \in Pushes, NEW image \in ImageNames, NEW contents \in SUBSET ImageLayers,
           NEW remote \in BOOLEAN, NEW request \in FormatRequests,
           Start(p, image, contents, remote, request)
    PROVE  ImageInv'
<1> DEFINE pc == IF request \in Accepted THEN "login" ELSE "failed"
           waived == request = "acknowledged"
           r == [pc |-> pc, image |-> image, contents |-> contents, remote |-> remote,
                 format |-> Format(request), acknowledged |-> waived, ok |-> FALSE]
<1>1. push' = [push EXCEPT ![p] = r] /\ push[p].pc = "idle"
      /\ UNCHANGED <<registry, blobs, lock, lockfile, authFiles, leaked, deployed>>
    BY DEF Start
<1>2. Format(request) \in {"gzip", "none", "zstd"} /\ waived \in BOOLEAN
    BY DEF Format
<1>3. pc # "failed" => (Format(request) = "zstd" => waived)
    BY DEF Format, Accepted
<1>4. pc \in {"login", "failed"}
    OBVIOUS
<1>5. r \in PushRecord /\ r.pc = pc /\ r.format = Format(request) /\ r.acknowledged = waived
    <2> HIDE DEF pc, waived
    <2> QED BY <1>2, <1>4 DEF PushRecord
<1> HIDE DEF r, pc, waived
<1>6. push' \in [Pushes -> PushRecord] /\ push'[p] = r /\ \A q \in Pushes \ {p} : push'[q] = push[q]
    BY <1>1, <1>5 DEF ImageInv, ImageTypeOK
<1>7. ImageTypeOK'
    BY <1>1, <1>6 DEF ImageInv, ImageTypeOK
<1>8. (\A e \in registry : e.digest \in Pushes \ {p}) /\ \A b \in blobs : b.by \in Pushes \ {p}
    BY <1>1 DEF ImageInv, ImageTypeOK, LockEntry, Stored, Whole
<1>9. Stored'
    <2>1. ASSUME NEW e \in registry PROVE Whole(e)'
        <3>1. Whole(e)
            BY DEF ImageInv, Stored
        <3> QED BY <3>1, <1>1, <1>6, <1>8 DEF Whole
    <2>2. ASSUME NEW b \in blobs PROVE push'[b.by].pc # "idle" /\ Startable(b.by)'
        BY <1>6, <1>8 DEF ImageInv, Stored, Startable
    <2> QED BY <1>1, <2>1, <2>2 DEF Stored
<1>10. ASSUME NEW q \in Pushes PROVE Sound(q)'
    <2>1. CASE q = p
        <3>1. /\ ~HasStored(q)'
              /\ push'[q].pc \notin {"idle", "failed"} => Startable(q)'
            BY <2>1, <1>3, <1>4, <1>5, <1>6 DEF HasStored, Startable
        <3>2. Sound(q) /\ push[q].pc \notin RemotePlaces
            BY <2>1, <1>1 DEF ImageInv, RemotePlaces
        <3> QED BY <1>1, <3>1, <3>2 DEF Sound, Unique
    <2>2. CASE q # p
        <3>1. push'[q] = push[q] /\ Sound(q)
            BY <2>2, <1>6 DEF ImageInv
        <3>2. (HasStored(q)' <=> HasStored(q)) /\ Pushed(q)' = Pushed(q)
              /\ (Startable(q)' <=> Startable(q))
            BY <3>1 DEF HasStored, Pushed, Startable
        <3> QED BY <1>1, <3>1, <3>2 DEF Sound, Unique
    <2> QED BY <2>1, <2>2
<1> QED BY <1>1, <1>7, <1>9, <1>10 DEF ImageInv

\* The lockfile: what is merged and written was stored, one entry for each name.
LEMMA LockKeepsInv ==
    ASSUME ImageInv, NEW p \in Pushes, LoadLock(p) \/ TruncateLock(p) \/ WriteLock(p)
    PROVE  ImageInv'
<1> DEFINE was == push[p].ok
<1>0. /\ was \in BOOLEAN /\ Sound(p)
      /\ \A x \in PushPlaces : Goto(p, x) => push' = [push EXCEPT ![p] = Placed(p, x, was)]
    BY GotoIs DEF ImageInv
<1>1. \A x \in {"truncate", "write", "done", "failed"} : x \in PushPlaces
    BY DEF PushPlaces
<1>2. /\ push[p].pc \in {"load", "truncate", "write"}
      /\ UNCHANGED <<registry, blobs, authFiles, leaked, deployed>> /\ Stores(p)
    BY StoreIs DEF LoadLock, TruncateLock, WriteLock
<1>3. p \notin authFiles \/ p \in leaked
    BY <1>0, <1>2 DEF Sound, RemotePlaces
<1>4. /\ lockfile \in [readable: BOOLEAN, entries: SUBSET registry] /\ Unique(lockfile.entries)
      /\ Unreadable \in [readable: BOOLEAN, entries: SUBSET registry] /\ Unique(Unreadable.entries)
    BY DEF ImageInv, ImageTypeOK, Unique, Unreadable
<1> HIDE DEF was
\* What OnePushMoves asks of the new place, the copy in hand and the file.
<1>5. ASSUME NEW x \in {"truncate", "write", "done", "failed"}, Goto(p, x),
             NEW l \in SUBSET registry, lock' = [lock EXCEPT ![p] = l], Unique(l),
             lockfile' \in [readable: BOOLEAN, entries: SUBSET registry],
             Unique(lockfile'.entries)
      PROVE  ImageInv'
    <2> DEFINE r == Placed(p, x, was)
    <2>1. /\ r \in PushRecord /\ r.pc = x /\ x # "idle" /\ r.image = push[p].image
          /\ r.contents = push[p].contents /\ r.format = push[p].format
          /\ r.acknowledged = push[p].acknowledged
          /\ push' = [push EXCEPT ![p] = r]
        BY <1>0, <1>1, <1>5, PlacedIs
    <2> HIDE DEF r
    <2>2. UNCHANGED deployed /\ registry' = registry
        BY <1>2
    <2> QED BY <1>2, <1>3, <1>5, <2>1, <2>2, OnePushMoves
<1>6. lock[p] \in SUBSET registry /\ Unique(lock[p])
      /\ lock \in [Pushes -> SUBSET LockEntry]
    BY <1>0 DEF Sound, ImageInv, ImageTypeOK
<1>7. CASE LoadLock(p)
    <2>1. CASE lockfile.readable
        <3> DEFINE l == Insert(lockfile.entries, Pushed(p))
        <3>1. Pushed(p) \in registry
            BY <1>0, <1>7 DEF LoadLock, Sound, HasStored
        <3>2. l \in SUBSET registry /\ Unique(l)
            BY <1>4, <3>1 DEF Insert, Unique
        <3>3. lock' = [lock EXCEPT ![p] = l] /\ Goto(p, "truncate") /\ UNCHANGED lockfile
            BY <1>7, <2>1 DEF LoadLock
        <3> HIDE DEF l
        <3> QED BY <1>4, <1>5, <3>2, <3>3
    <2>2. CASE ~lockfile.readable
        BY <1>4, <1>5, <1>6, <1>7, <2>2 DEF LoadLock
    <2> QED BY <2>1, <2>2
<1>8. CASE TruncateLock(p)
    BY <1>4, <1>5, <1>6, <1>8 DEF TruncateLock
<1>9. CASE WriteLock(p)
    <2>1. [readable |-> TRUE, entries |-> lock[p]] \in [readable: BOOLEAN, entries: SUBSET registry]
          /\ [readable |-> TRUE, entries |-> lock[p]].entries = lock[p]
        BY <1>6
    <2> QED BY <1>4, <1>5, <1>6, <1>9, <2>1 DEF WriteLock
<1> QED BY <1>7, <1>8, <1>9

\* Each step of a push, of the lock file and of a deployment keeps the invariant.
LEMMA ImageInvStep == ImageInv /\ [ImageNext]_pushVars => ImageInv'
<1> SUFFICES ASSUME ImageInv, [ImageNext]_pushVars PROVE ImageInv'
    OBVIOUS
<1>1. ASSUME UNCHANGED <<push, registry, blobs, lock, lockfile, authFiles, leaked>>,
             deployed' \subseteq lockfile.entries \cup deployed
      PROVE  ImageInv'
    <2>1. ImageTypeOK'
        BY <1>1 DEF ImageInv, ImageTypeOK
    <2>2. \A p \in Pushes : Sound(p)'
        BY <1>1 DEF ImageInv, Sound, HasStored, Startable, Pushed, Unique
    <2>3. Stored'
        BY <1>1 DEF ImageInv, Stored, Whole, Startable
    <2> QED BY <1>1, <2>1, <2>2, <2>3 DEF ImageInv
<1>2. CASE UNCHANGED pushVars
    BY <1>1, <1>2 DEF pushVars
<1>3. ASSUME NEW image \in ImageNames, Deploy(image) PROVE ImageInv'
    BY <1>1, <1>3 DEF Deploy
<1> QED BY <1>2, <1>3, UploadKeepsInv, StartKeepsInv, LockKeepsInv DEF ImageNext, PushNext

\* Every reachable state satisfies ImageInv.
LEMMA ImageInvariant == ImageSpec => []ImageInv
<1> QED BY InitImageInv, ImageInvStep, PTL DEF ImageSpec

\* Every reachable state of the pushes is within their types.
LEMMA ImageTyped == ImageSpec => []ImageTypeOK
<1>1. ImageInv => ImageTypeOK
    BY DEF ImageInv
<1> QED BY ImageInvariant, <1>1, PTL

\* cli image.rs: however pushes overlap, fail and are killed, a deploy takes from the lockfile
\* only what is stored whole, a layer that the nodes cannot unpack came from a push that
\* waived this by name, and no token stays on a remote unreported.
THEOREM PushSound == ImageSpec => []PushIsSound
<1>1. ImageInv => PushIsSound
    <2> SUFFICES ASSUME ImageInv PROVE PushIsSound
        OBVIOUS
    <2>1. ASSUME NEW e \in deployed
          PROVE  /\ e \in registry
                 /\ push[e.digest].contents \subseteq Holding(e.image)
                 /\ \A b \in blobs : push[b.by].format = "zstd" => push[b.by].acknowledged
        <3>1. e \in registry /\ Whole(e)
            BY DEF ImageInv, Stored
        <3>2. push[e.digest].contents \subseteq Holding(e.image)
            BY <3>1 DEF Whole, Holding
        <3> QED BY <3>1, <3>2 DEF ImageInv, Stored, Startable
    <2>2. TokenIsRemoved
        BY DEF ImageInv, ImageTypeOK, TokenIsRemoved, Sound
    <2> QED BY <2>1, <2>2 DEF PushIsSound, DeployedIsWhole
<1> QED BY <1>1, ImageInvariant, PTL
-----------------------------------------------------------------------------
(***************************************************************************)
(* A credential stays with the origin it is for.                           *)
(***************************************************************************)

\* What a header may say.
HeaderWords == {"browser", "key", "x-hop", "session", "tunnel", "gateway"}

\* A request as the browser makes one: a header of one hop is named where it is sent.
Asking(headers) ==
    /\ headers \in Headers
    /\ headers["cookie"] = Cookies
    /\ headers["connection"] \in {<<>>, <<"x-hop">>}
    /\ headers["connection"] = <<>> => headers["x-hop"] = <<>>

\* The same request as the tunnel sends it on.
PassedOn(headers) ==
    /\ headers \in Headers
    /\ headers["salad-api-key"] = <<"key">>
    /\ headers["x-hop"] = <<>>
    /\ headers["cookie"] = Cookies

\* Where the browser may be.
OffGateway == {"tunnel", "gateway over http", "elsewhere", "nowhere"}

\* One request is under way at a time, and it carries the cookies the browser has now.
CredentialsInv ==
    /\ browser \in [pc: {"idle", "waiting"}, at: OffGateway,
                    cookie: BOOLEAN, loggedIn: BOOLEAN]
    /\ browser.loggedIn => browser.cookie
    /\ visits \in 0 .. MaxVisits
    /\ apiClient \in [pc: {"asking", "done"}, at: {"home"}, hops: 0 .. MaxRedirects]
    /\ atTunnel = NoHeaders \/ (Asking(atTunnel) /\ upstream = Nowhere /\ browser.pc = "waiting")
    /\ \/ upstream = Nowhere
       \/ /\ atTunnel = NoHeaders /\ browser.pc = "waiting"
          /\ upstream \in [headers: Headers, at: {"gateway"}] /\ PassedOn(upstream.headers)

\* The request with no header is a request.
LEMMA NoHeadersTyped == NoHeaders \in Headers
<1>1. \A n \in HeaderNames : <<>> \in Seq(HeaderWords)
    OBVIOUS
<1> QED BY <1>1 DEF NoHeaders, Headers, HeaderWords

\* The invariant implies the types.
LEMMA CredentialsInvIsTyped == CredentialsInv => CredentialsTypeOK
<1> SUFFICES ASSUME CredentialsInv PROVE CredentialsTypeOK
    OBVIOUS
<1>1. atTunnel \in Headers
    BY NoHeadersTyped DEF CredentialsInv, Asking
<1>2. upstream \in [headers: Headers, at: Origins \cup {"nowhere"}]
    <2>1. CASE upstream = Nowhere
        BY <2>1, NoHeadersTyped DEF Nowhere
    <2>2. CASE upstream \in [headers: Headers, at: {"gateway"}]
        BY <2>2 DEF Origins
    <2> QED BY <2>1, <2>2 DEF CredentialsInv
<1> QED BY <1>1, <1>2 DEF CredentialsInv, CredentialsTypeOK, Origins, OffGateway, Servers

\* The browser has asked for nothing at first.
LEMMA InitCredentialsInv == CredentialsInit => CredentialsInv
BY CredentialsAssumption DEF CredentialsInit, CredentialsInv, OffGateway

\* The tunnel takes what is meant for one hop out, puts its own key in, and keeps the cookies.
LEMMA SentOn ==
    ASSUME NEW headers \in Headers, Asking(headers)
    PROVE  PassedOn([InsertKey(StripHopByHop(headers)) EXCEPT !["host"] = <<"gateway">>])
<1> DEFINE stripped == StripHopByHop(headers)
           sent == [InsertKey(stripped) EXCEPT !["host"] = <<"gateway">>]
<1>1. /\ <<>> \in Seq(HeaderWords) /\ <<"key">> \in Seq(HeaderWords)
      /\ <<"gateway">> \in Seq(HeaderWords)
    BY DEF HeaderWords
<1>2. headers \in [HeaderNames -> Seq(HeaderWords)]
    BY DEF Headers, HeaderWords
<1>3. stripped \in [HeaderNames -> Seq(HeaderWords)]
    BY <1>1, <1>2 DEF StripHopByHop
<1>4. stripped["x-hop"] = <<>>
    <2>1. CASE headers["connection"] = <<>>
        BY <2>1 DEF Asking, StripHopByHop, HeaderNames
    <2>2. CASE headers["connection"] = <<"x-hop">>
        <3>1. "x-hop" \in Named(headers)
            BY <2>2 DEF Named
        <3> QED BY <3>1 DEF StripHopByHop, HeaderNames
    <2> QED BY <2>1, <2>2 DEF Asking
<1>5. stripped["cookie"] = Cookies
    <2>1. "cookie" \notin Named(headers)
        BY DEF Asking, Named
    <2> QED BY <2>1 DEF Asking, StripHopByHop, HopByHop, HeaderNames
<1> HIDE DEF stripped
<1>6. /\ sent \in [HeaderNames -> Seq(HeaderWords)]
      /\ sent["salad-api-key"] = <<"key">>
      /\ sent["x-hop"] = stripped["x-hop"] /\ sent["cookie"] = stripped["cookie"]
    BY <1>1, <1>3 DEF InsertKey, HeaderNames
<1> HIDE DEF sent
<1>7. PassedOn(sent)
    BY <1>4, <1>5, <1>6 DEF PassedOn, Headers, HeaderWords
<1> QED BY <1>7 DEF sent, stripped

\* A request of the browser is one as Asking describes it.
LEMMA VisitKeepsInv ==
    ASSUME CredentialsInv, NEW own \in BOOLEAN, NEW hop \in BOOLEAN, Visit(own, hop)
    PROVE  CredentialsInv'
<1>1. /\ browser' = [browser EXCEPT !.pc = "waiting", !.at = "tunnel"]
      /\ browser'.cookie = browser.cookie
      /\ browser' \in [pc: {"idle", "waiting"}, at: OffGateway,
                       cookie: BOOLEAN, loggedIn: BOOLEAN]
      /\ (browser.loggedIn => browser.cookie)' /\ browser'.pc = "waiting"
    BY DEF Visit, CredentialsInv, OffGateway
<1>2. upstream' = Nowhere /\ UNCHANGED apiClient
    BY DEF Visit, CredentialsInv
<1>3. visits' \in 0 .. MaxVisits
    BY CredentialsAssumption DEF Visit, CredentialsInv
<1>4. /\ <<>> \in Seq(HeaderWords) /\ <<"browser">> \in Seq(HeaderWords)
      /\ <<"x-hop">> \in Seq(HeaderWords) /\ <<"tunnel">> \in Seq(HeaderWords)
      /\ <<"session", "session">> \in Seq(HeaderWords)
    BY DEF HeaderWords
<1>12. Cookies \in Seq(HeaderWords)
    BY <1>4 DEF Cookies
<1>5. Cookies' = Cookies
    BY <1>1 DEF Cookies
<1>6. NoHeaders \in [HeaderNames -> Seq(HeaderWords)]
    BY <1>4 DEF NoHeaders
<1> DEFINE mine == IF own THEN <<"browser">> ELSE <<>>
           named == IF hop THEN <<"x-hop">> ELSE <<>>
           oneHop == IF hop THEN <<"browser">> ELSE <<>>
           said == Cookies
<1>7. /\ mine \in Seq(HeaderWords) /\ named \in Seq(HeaderWords) /\ oneHop \in Seq(HeaderWords)
      /\ said \in Seq(HeaderWords)
      /\ named \in {<<>>, <<"x-hop">>} /\ (named = <<>> => oneHop = <<>>)
    BY <1>4, <1>12
<1>8. atTunnel' = [NoHeaders EXCEPT !["salad-api-key"] = mine, !["connection"] = named,
                                   !["x-hop"] = oneHop, !["cookie"] = said,
                                   !["host"] = <<"tunnel">>]
    BY DEF Visit
<1>9. said = Cookies'
    BY <1>5
<1> HIDE DEF mine, named, oneHop, said
<1>10. /\ atTunnel' \in [HeaderNames -> Seq(HeaderWords)]
       /\ atTunnel'["cookie"] = said /\ atTunnel'["connection"] = named
       /\ atTunnel'["x-hop"] = oneHop
    BY <1>4, <1>6, <1>7, <1>8 DEF HeaderNames
<1>11. Asking(atTunnel)'
    BY <1>7, <1>9, <1>10 DEF Asking, Headers, HeaderWords
<1> QED BY <1>1, <1>2, <1>3, <1>11 DEF CredentialsInv

\* The browser, the tunnel, the gateway and the API client keep the invariant.
LEMMA CredentialsInvStep ==
    CredentialsInv /\ [CredentialsNext]_credentialVars => CredentialsInv'
<1> SUFFICES ASSUME CredentialsInv, [CredentialsNext]_credentialVars PROVE CredentialsInv'
    OBVIOUS
<1> USE DEF CredentialsInv
<1>1. CASE UNCHANGED credentialVars
    BY <1>1 DEF credentialVars, Asking, PassedOn, Cookies
<1>2. CASE Send
    <2>1. atTunnel \in Headers /\ Asking(atTunnel) /\ upstream = Nowhere /\ browser.pc = "waiting"
        BY <1>2 DEF Send, Asking
    <2> DEFINE sent == [InsertKey(StripHopByHop(atTunnel)) EXCEPT !["host"] = <<"gateway">>]
    <2>2. PassedOn(sent) /\ upstream' = [headers |-> sent, at |-> "gateway"]
        BY <1>2, <2>1, SentOn DEF Send
    <2> HIDE DEF sent
    <2>3. upstream' \in [headers: Headers, at: {"gateway"}] /\ upstream'.headers = sent
        BY <2>2 DEF PassedOn
    <2>4. UNCHANGED <<browser, visits, apiClient>> /\ atTunnel' = NoHeaders /\ Cookies' = Cookies
        BY <1>2 DEF Send, Cookies
    <2>5. PassedOn(upstream.headers)'
        BY <2>2, <2>3, <2>4 DEF PassedOn
    <2> QED BY <2>1, <2>3, <2>4, <2>5
<1>3. CASE TooLarge
    BY <1>3 DEF TooLarge
<1>4. CASE SendFails
    BY <1>4 DEF SendFails
<1>5. ASSUME NEW location \in {"none", "gateway", "gateway over http", "elsewhere"},
             NEW login \in BOOLEAN, Respond(location, login)
      PROVE  CredentialsInv'
    <2>1. upstream # Nowhere /\ HandBack(location, login) /\ UNCHANGED <<atTunnel, visits, apiClient>>
        BY <1>5 DEF Respond, TunnelFollows
    <2>2. upstream' = Nowhere /\ atTunnel' = NoHeaders
        BY <2>1 DEF HandBack
    <2> DEFINE at == IF location = "none" THEN browser.at ELSE Rewritten(location)
               cookie == browser.cookie \/ login
               loggedIn == browser.loggedIn \/ login
    <2>3. at \in OffGateway
        BY DEF Rewritten, OffGateway
    <2>4. cookie \in BOOLEAN /\ loggedIn \in BOOLEAN /\ (loggedIn => cookie)
        BY Zenon
    <2>5. browser' = [browser EXCEPT !.pc = "idle", !.at = at, !.cookie = cookie,
                                     !.loggedIn = loggedIn]
        BY <2>1 DEF HandBack, StripCookieDomain
    <2> HIDE DEF at, cookie, loggedIn
    <2>6. /\ browser' \in [pc: {"idle", "waiting"}, at: OffGateway,
                           cookie: BOOLEAN, loggedIn: BOOLEAN]
          /\ (browser.loggedIn => browser.cookie)'
        BY <2>3, <2>4, <2>5
    <2> QED BY <2>1, <2>2, <2>6
<1>6. CASE Responded
    BY <1>6 DEF Responded, Asking, PassedOn, Cookies
<1>7. ASSUME NEW to \in Servers, Redirect(to) PROVE CredentialsInv'
    <2>1. apiClient' \in [pc: {"asking", "done"}, at: {"home"}, hops: 0 .. MaxRedirects]
        <3> DEFINE next == apiClient.hops + 1
        <3>1. apiClient.hops \in Nat /\ apiClient.at = "home"
            BY CredentialsAssumption
        <3>2. next > MaxRedirects \/ next \in 0 .. MaxRedirects
            BY <3>1, CredentialsAssumption
        <3> HIDE DEF next
        <3>3. \/ apiClient' = [apiClient EXCEPT !.pc = "done"]
              \/ /\ to = "home" /\ next \in 0 .. MaxRedirects
                 /\ apiClient' = [apiClient EXCEPT !.at = to, !.hops = next]
            BY <1>7, <3>1, <3>2 DEF Redirect, SameOrigin, TooManyRedirects, next
        <3> QED BY <3>3
    <2> QED BY <1>7, <2>1 DEF Redirect, Asking, PassedOn, Cookies
<1> QED BY <1>1, <1>2, <1>3, <1>4, <1>5, <1>6, <1>7, VisitKeepsInv DEF CredentialsNext, ClientStep

\* Every reachable state satisfies CredentialsInv.
LEMMA CredentialsInvariant == CredentialsSpec => []CredentialsInv
<1> QED BY InitCredentialsInv, CredentialsInvStep, PTL DEF CredentialsSpec

\* Every reachable state of the tunnel and the redirected client is within its types.
LEMMA CredentialsTyped == CredentialsSpec => []CredentialsTypeOK
<1> QED BY CredentialsInvariant, CredentialsInvIsTyped, PTL

\* tunnel.rs forward, rewrite_upstream_url, strip_cookie_domain; transfer.rs
\* credentialed_client_builder: whatever the browser, the app and a redirecting server do, a
\* credential goes to the origin it is for only, with the headers that belong there, and an
\* app's redirect to its own https URL comes back to the tunnel, with the login.
THEOREM CredentialsKept == CredentialsSpec => []CredentialsStayHome
<1>1. CredentialsInv => CredentialsStayHome
    <2> SUFFICES ASSUME CredentialsInv PROVE CredentialsStayHome
        OBVIOUS
    <2>1. KeyStaysHome
        BY DEF CredentialsInv, KeyStaysHome, PassedOn, Nowhere
    <2>2. browser.at \in OffGateway /\ (browser.loggedIn => browser.cookie)
        BY DEF CredentialsInv
    <2>3. OwnRedirectsComeBack
        BY <2>2 DEF OwnRedirectsComeBack, OffGateway
    <2> QED BY <2>1, <2>3 DEF CredentialsStayHome
<1> QED BY <1>1, CredentialsInvariant, PTL
-----------------------------------------------------------------------------
(***************************************************************************)
(* A create makes one group at most. The argument: an attempt that may     *)
(* have been served is not repeated, unless the answer says that nothing   *)
(* was done.                                                               *)
(***************************************************************************)

\* A task and its call.
CallRecord ==
    [pc: {"idle", "acquire", "flying", "backoff", "done"}, asks: Asked,
     attempt: 0 .. MaxAttempts - 1, adopts: BOOLEAN, result: Results]

\* What a task may still do: there is an attempt left while it backs off, and its create has
\* made no group as long as it may be sent again.
MayStillCreate(c) == CreateOnce(c) /\ call[c].pc \in {"acquire", "flying", "backoff"}
Attempt(c) ==
    /\ call[c].pc = "backoff" => call[c].attempt + 1 < MaxAttempts
    /\ servedPosts[c] \in {0, 1}
    /\ MayStillCreate(c) => servedPosts[c] = 0

\* What a cool-down leaves in the bucket.
CoolIsEmpty == cooling => tokens = 0

\* The inductive invariant.
ApiInv ==
    /\ call \in [Callers -> CallRecord] /\ servedPosts \in [Callers -> 0 .. MaxAttempts]
    /\ tokens \in 0 .. Burst /\ flaws \in 0 .. MaxFlaws
    /\ group \in BOOLEAN /\ cooling \in BOOLEAN
    /\ \A c \in Callers : Attempt(c)
    /\ CoolIsEmpty

\* The invariant implies the types.
LEMMA ApiInvIsTyped == ApiInv => ApiTypeOK
BY DEF ApiInv, ApiTypeOK, CallRecord

\* No task has called at first.
LEMMA InitApiInv == ApiInit => ApiInv
<1> SUFFICES ASSUME ApiInit PROVE ApiInv
    OBVIOUS
<1> USE ApiAssumption
<1>1. Idle \in CallRecord
    BY DEF Idle, CallRecord, Asked, Results
<1>2. call \in [Callers -> CallRecord] /\ servedPosts \in [Callers -> 0 .. MaxAttempts]
    BY <1>1 DEF ApiInit
<1>3. tokens \in 0 .. Burst /\ flaws \in 0 .. MaxFlaws
    BY DEF ApiInit
<1>4. group \in BOOLEAN /\ cooling \in BOOLEAN /\ CoolIsEmpty
    BY Zenon DEF ApiInit, CoolIsEmpty
<1>5. \A c \in Callers : Attempt(c)
    BY DEF ApiInit, Attempt, MayStillCreate, Idle
<1> QED BY <1>2, <1>3, <1>4, <1>5 DEF ApiInv

\* A step of one task: it is enough to look at its own call and its own posts.
LEMMA OneCallMoves ==
    ASSUME ApiInv, NEW c \in Callers, NEW r \in CallRecord, NEW n \in {0, 1},
           call' = [call EXCEPT ![c] = r], servedPosts' = [servedPosts EXCEPT ![c] = n],
           r.pc = "backoff" => r.attempt + 1 < MaxAttempts,
           r.asks = "create" /\ ~r.adopts /\ r.pc \in {"acquire", "flying", "backoff"} => n = 0
    PROVE  /\ call' \in [Callers -> CallRecord] /\ servedPosts' \in [Callers -> 0 .. MaxAttempts]
           /\ \A d \in Callers : Attempt(d)'
<1>1. call' \in [Callers -> CallRecord]
    BY DEF ApiInv
<1>2. n \in 0 .. MaxAttempts
    BY ApiAssumption
<1>3. servedPosts' \in [Callers -> 0 .. MaxAttempts]
    BY <1>2 DEF ApiInv
<1>4. ASSUME NEW d \in Callers PROVE Attempt(d)'
    <2>1. CASE d = c
        <3>1. call'[d] = r /\ servedPosts'[d] = n
            BY <2>1 DEF ApiInv
        <3> QED BY <3>1 DEF Attempt, MayStillCreate, CreateOnce
    <2>2. CASE d # c
        <3>1. call'[d] = call[d] /\ servedPosts'[d] = servedPosts[d] /\ Attempt(d)
            BY <2>2 DEF ApiInv
        <3> QED BY <3>1 DEF Attempt, MayStillCreate, CreateOnce
    <2> QED BY <2>1, <2>2
<1> QED BY <1>1, <1>3, <1>4

\* What is known of a task: its record, its attempts and what its create has done.
LEMMA CallKept ==
    ASSUME ApiInv, NEW c \in Callers
    PROVE  /\ call[c] \in CallRecord /\ call[c].attempt \in 0 .. MaxAttempts - 1
           /\ servedPosts[c] \in {0, 1} /\ servedPosts = [servedPosts EXCEPT ![c] = servedPosts[c]]
           /\ Attempt(c)
BY DEF ApiInv, CallRecord, Attempt

\* A method begins a run, or its caller takes the result.
LEMMA BeginKeepsInv ==
    ASSUME ApiInv, NEW c \in Callers, NEW asks \in Asked, Begin(c, asks) \/ Return(c)
    PROVE  ApiInv'
<1> USE ApiAssumption
<1>1. Idle \in CallRecord /\ [Idle EXCEPT !.pc = "acquire", !.asks = asks] \in CallRecord
    <2>1. Idle \in CallRecord
        BY DEF Idle, CallRecord, Asked, Results
    <2> HIDE DEF Idle
    <2> QED BY <2>1 DEF CallRecord
<1>2. /\ call' \in [Callers -> CallRecord] /\ servedPosts' \in [Callers -> 0 .. MaxAttempts]
      /\ \A d \in Callers : Attempt(d)'
    <2>1. CASE Begin(c, asks)
        <3> DEFINE r == [Idle EXCEPT !.pc = "acquire", !.asks = asks]
        <3>1. call' = [call EXCEPT ![c] = r] /\ servedPosts' = [servedPosts EXCEPT ![c] = 0]
            BY <2>1 DEF Begin
        <3>2. r.pc = "acquire" /\ r \in CallRecord
            BY <1>1 DEF Idle
        <3> HIDE DEF r
        <3> QED BY <3>1, <3>2, OneCallMoves
    <2>2. CASE Return(c)
        <3>1. call' = [call EXCEPT ![c] = Idle]
              /\ servedPosts' = [servedPosts EXCEPT ![c] = servedPosts[c]]
            BY <2>2, CallKept DEF Return
        <3>2. Idle.pc = "idle"
            BY DEF Idle
        <3> QED BY <1>1, <3>1, <3>2, CallKept, OneCallMoves
    <2> QED BY <2>1, <2>2
<1>3. UNCHANGED <<tokens, group, cooling, flaws>>
    BY DEF Begin, Return
<1>4. (cooling => tokens = 0)'
    BY <1>3 DEF ApiInv, CoolIsEmpty
<1> QED BY <1>2, <1>3, <1>4 DEF ApiInv, CoolIsEmpty

\* What the plane does leaves its group and the posts typed; a post counts once.
LEMMA ServeKeeps ==
    ASSUME ApiInv, NEW c \in Callers, call[c].pc = "flying", Serve(c)
    PROVE  /\ group' \in BOOLEAN
           /\ \E n \in {0, 1} : /\ servedPosts' = [servedPosts EXCEPT ![c] = n]
                                /\ ~(CreateOnce(c) /\ ~group) => n = servedPosts[c]
<1>1. group' \in BOOLEAN
    <2>1. group' = TRUE \/ group' = FALSE \/ group' = group
        BY DEF Serve
    <2> QED BY <2>1, Zenon DEF ApiInv
<1>2. CASE CreateOnce(c) /\ ~group
    <2>1. servedPosts[c] = 0
        BY <1>2, CallKept DEF Attempt, MayStillCreate
    <2>2. servedPosts' = [servedPosts EXCEPT ![c] = 1]
        BY <1>2, <2>1 DEF Serve
    <2> QED BY <1>1, <1>2, <2>2
<1>3. CASE ~(CreateOnce(c) /\ ~group)
    <2>1. servedPosts' = [servedPosts EXCEPT ![c] = servedPosts[c]] /\ servedPosts[c] \in {0, 1}
        BY <1>3, CallKept DEF Serve
    <2> QED BY <1>1, <2>1
<1> QED BY <1>2, <1>3

\* An answer of the plane, or none.
LEMMA AnswerKeepsInv ==
    ASSUME ApiInv, NEW c \in Callers,
           \/ ServedRequest(c) \/ NoConnection(c) \/ LostAnswer(c) \/ BrokenAnswer(c)
           \/ TooManyRequests(c)
    PROVE  ApiInv'
<1> USE ApiAssumption
<1>0. call[c] \in CallRecord /\ call[c].pc = "flying" /\ Attempt(c) /\ servedPosts[c] \in {0, 1}
    BY CallKept DEF ServedRequest, NoConnection, LostAnswer, BrokenAnswer, TooManyRequests
<1>1. /\ call' \in [Callers -> CallRecord] /\ servedPosts' \in [Callers -> 0 .. MaxAttempts]
      /\ (\A d \in Callers : Attempt(d)') /\ group' \in BOOLEAN
    <2> DEFINE retried == [call[c] EXCEPT !.pc = "backoff"]
               over(result) == [call[c] EXCEPT !.pc = "done", !.result = result]
               adopt == [call[c] EXCEPT !.pc = "acquire", !.attempt = 0, !.adopts = TRUE]
    <2>1. /\ retried \in CallRecord /\ retried.pc = "backoff" /\ retried.attempt = call[c].attempt
          /\ retried.asks = call[c].asks /\ retried.adopts = call[c].adopts
        BY <1>0 DEF CallRecord
    <2>2. \A result \in Results : over(result) \in CallRecord /\ over(result).pc = "done"
        BY <1>0 DEF CallRecord
    <2>3. adopt \in CallRecord /\ adopt.adopts /\ adopt.pc = "acquire"
        <3>1. 0 \in 0 .. MaxAttempts - 1
            OBVIOUS
        <3> QED BY <1>0, <3>1 DEF CallRecord
    <2>4. SleepBackoff(c) => call' = [call EXCEPT ![c] = retried]
        BY DEF SleepBackoff, CallGoes, ApiInv
    <2>5. \A result \in Results : RunReturns(c, result) => call' = [call EXCEPT ![c] = over(result)]
        BY DEF RunReturns, ApiInv
    <2>6. call' = [call EXCEPT ![c].pc = "acquire", ![c].attempt = 0, ![c].adopts = TRUE]
             => call' = [call EXCEPT ![c] = adopt]
        BY DEF ApiInv
    <2>7. IsLast(c) \/ retried.attempt + 1 < MaxAttempts
        BY <1>0, <2>1 DEF IsLast, CallRecord
    <2> HIDE DEF retried, over, adopt
    <2>8. PICK n \in {0, 1} : /\ servedPosts' = [servedPosts EXCEPT ![c] = n]
                              /\ n = servedPosts[c] \/ Serve(c)
        <3>1. CASE Serve(c)
            BY <1>0, <3>1, ServeKeeps
        <3>2. CASE UNCHANGED servedPosts
            BY <1>0, <3>2, CallKept
        <3> QED BY <3>1, <3>2 DEF ServedRequest, NoConnection, LostAnswer, BrokenAnswer, TooManyRequests
    <2>9. group' \in BOOLEAN
        <3>1. CASE Serve(c)
            BY <1>0, <3>1, ServeKeeps
        <3>2. CASE UNCHANGED group
            BY <3>2, Zenon DEF ApiInv
        <3> QED BY <3>1, <3>2 DEF ServedRequest, NoConnection, LostAnswer, BrokenAnswer, TooManyRequests
    <2>10. CASE \E result \in Results : RunReturns(c, result)
        BY <2>10, <2>2, <2>5, <2>8, <2>9, OneCallMoves
    <2>11. CASE call' = [call EXCEPT ![c] = adopt]
        BY <2>11, <2>3, <2>8, <2>9, OneCallMoves
    <2>12. CASE SleepBackoff(c) /\ ~IsLast(c) /\ UNCHANGED servedPosts
        <3>1. retried.asks = "create" /\ ~retried.adopts => servedPosts[c] = 0
            BY <1>0, <2>1 DEF Attempt, MayStillCreate, CreateOnce
        <3> QED BY <2>12, <3>1, <1>0, <2>1, <2>4, <2>7, <2>9, CallKept, OneCallMoves
    <2>13. CASE SleepBackoff(c) /\ ~IsLast(c) /\ ~CreateOnce(c)
        <3>1. ~(retried.asks = "create" /\ ~retried.adopts)
            BY <2>13, <2>1 DEF CreateOnce
        <3> QED BY <2>13, <3>1, <2>1, <2>4, <2>7, <2>8, <2>9, OneCallMoves
    <2>14. CASE ServedRequest(c)
        <3>1. \A x \in {"adopted", "notFound", "ok"} : x \in Results
            BY DEF Results
        <3>2. \/ call' = [call EXCEPT ![c].pc = "acquire", ![c].attempt = 0, ![c].adopts = TRUE]
              \/ RunReturns(c, "adopted") \/ RunReturns(c, "notFound") \/ RunReturns(c, "ok")
            BY <2>14 DEF ServedRequest
        <3> QED BY <3>1, <3>2, <2>6, <2>10, <2>11
    <2>15. CASE NoConnection(c) \/ LostAnswer(c) \/ BrokenAnswer(c) \/ TooManyRequests(c)
        <3>1. "error" \in Results
            BY DEF Results
        <3> QED BY <3>1, <2>15, <2>10, <2>12, <2>13
               DEF NoConnection, LostAnswer, BrokenAnswer, TooManyRequests, RetryableAfterReached
    <2> QED BY <2>14, <2>15
<1>2. /\ tokens' \in 0 .. Burst /\ flaws' \in 0 .. MaxFlaws
      /\ tokens' = tokens \/ tokens' = 0
    BY DEF ApiInv, ServedRequest, NoConnection, LostAnswer, BrokenAnswer, TooManyRequests, Flaw, Drain
<1>3. (cooling' = cooling /\ tokens' = tokens) \/ (cooling' = TRUE /\ tokens' = 0)
    <2>1. CASE TooManyRequests(c)
        BY <2>1, Zenon DEF TooManyRequests, Drain
    <2>2. CASE ServedRequest(c) \/ NoConnection(c) \/ LostAnswer(c) \/ BrokenAnswer(c)
        <3>1. tokens' = tokens /\ UNCHANGED cooling
            BY <2>2 DEF ServedRequest, NoConnection, LostAnswer, BrokenAnswer
        <3> QED BY <3>1, Zenon
    <2> QED BY <2>1, <2>2
<1>4. cooling' \in BOOLEAN /\ CoolIsEmpty'
    <2>1. cooling \in BOOLEAN /\ (cooling => tokens = 0)
        BY DEF ApiInv, CoolIsEmpty
    <2>2. CASE UNCHANGED <<cooling, tokens>>
        BY <2>1, <2>2, Zenon DEF CoolIsEmpty
    <2>3. CASE cooling' = TRUE /\ tokens' = 0
        BY <2>3, Zenon DEF CoolIsEmpty
    <2> QED BY <1>3, <2>2, <2>3, Zenon
<1> QED BY <1>1, <1>2, <1>4 DEF ApiInv

\* The bucket: a token comes back, or is taken for an attempt. And a pause ends.
LEMMA BucketKeepsInv ==
    ASSUME ApiInv, NEW c \in Callers, RefillLocked \/ Acquire(c) \/ NextAttempt(c)
    PROVE  ApiInv'
<1> USE ApiAssumption
<1>1. CASE RefillLocked
    <2>1. tokens' \in 0 .. Burst /\ cooling' = FALSE
        BY <1>1 DEF RefillLocked, ApiInv
    <2>2. /\ call' \in [Callers -> CallRecord] /\ servedPosts' \in [Callers -> 0 .. MaxAttempts]
          /\ flaws' \in 0 .. MaxFlaws
          /\ \A d \in Callers : Attempt(d)'
        BY <1>1 DEF RefillLocked, ApiInv, Attempt, MayStillCreate, CreateOnce
    <2>3. group' \in BOOLEAN /\ cooling' \in BOOLEAN /\ CoolIsEmpty'
        BY <1>1, <2>1, Zenon DEF RefillLocked, ApiInv, CoolIsEmpty
    <2> QED BY <2>1, <2>2, <2>3 DEF ApiInv
<1>2. CASE Acquire(c) \/ NextAttempt(c)
    <2>0. call[c] \in CallRecord /\ Attempt(c) /\ UNCHANGED <<servedPosts, group, cooling, flaws>>
        BY <1>2, CallKept DEF Acquire, NextAttempt
    <2>1. /\ tokens' \in 0 .. Burst
          /\ tokens = 0 => tokens' = 0
        BY <1>2 DEF Acquire, NextAttempt, ApiInv
    <2> DEFINE flies == [call[c] EXCEPT !.pc = "flying"]
               retried == [call[c] EXCEPT !.pc = "acquire", !.attempt = @ + 1]
    <2>2. Acquire(c) => call' = [call EXCEPT ![c] = flies]
        BY DEF Acquire, CallGoes, ApiInv
    <2>3. NextAttempt(c) => call' = [call EXCEPT ![c] = retried]
        BY DEF NextAttempt, ApiInv
    <2>4. /\ flies \in CallRecord /\ flies.pc = "flying"
          /\ flies.asks = call[c].asks /\ flies.adopts = call[c].adopts
        BY <2>0 DEF CallRecord
    <2>5. NextAttempt(c) => /\ retried \in CallRecord /\ retried.pc = "acquire"
                            /\ retried.asks = call[c].asks /\ retried.adopts = call[c].adopts
        <3>1. NextAttempt(c) => call[c].attempt + 1 \in 0 .. MaxAttempts - 1
            BY <2>0 DEF CallRecord, Attempt, NextAttempt
        <3> QED BY <2>0, <3>1 DEF CallRecord
    <2> HIDE DEF flies, retried
    <2>6. call[c].asks = "create" /\ ~call[c].adopts => servedPosts[c] = 0
        BY <1>2, <2>0 DEF Acquire, NextAttempt, Attempt, MayStillCreate, CreateOnce
    <2>7. servedPosts' = [servedPosts EXCEPT ![c] = servedPosts[c]] /\ servedPosts[c] \in {0, 1}
        BY <2>0, CallKept
    <2>8. /\ call' \in [Callers -> CallRecord] /\ servedPosts' \in [Callers -> 0 .. MaxAttempts]
          /\ \A d \in Callers : Attempt(d)'
        <3>1. CASE Acquire(c)
            BY <3>1, <2>2, <2>4, <2>6, <2>7, OneCallMoves
        <3>2. CASE NextAttempt(c)
            BY <3>2, <2>3, <2>5, <2>6, <2>7, OneCallMoves
        <3> QED BY <1>2, <3>1, <3>2
    <2>9. CoolIsEmpty' /\ group' \in BOOLEAN /\ cooling' \in BOOLEAN
        BY <2>0, <2>1, Zenon DEF CoolIsEmpty, ApiInv
    <2> QED BY <2>0, <2>1, <2>8, <2>9 DEF ApiInv
<1> QED BY <1>1, <1>2

\* Each attempt, answer, fault and pause of a call keeps the invariant.
LEMMA ApiInvStep == ApiInv /\ [ApiNext]_apiVars => ApiInv'
<1> SUFFICES ASSUME ApiInv, [ApiNext]_apiVars PROVE ApiInv'
    OBVIOUS
<1>1. CASE UNCHANGED apiVars
    <2>1. /\ call' = call /\ servedPosts' = servedPosts /\ tokens' = tokens /\ flaws' = flaws
          /\ group' = group /\ cooling' = cooling
        BY <1>1 DEF apiVars
    <2> QED BY <2>1 DEF ApiInv, Attempt, MayStillCreate, CreateOnce, CoolIsEmpty
<1>2. CASE RefillLocked
    <2>1. CASE Callers = {}
        <3>1. tokens' \in 0 .. Burst /\ cooling' = FALSE
            BY <1>2, ApiAssumption DEF RefillLocked, ApiInv
        <3> QED BY <1>2, <2>1, <3>1 DEF RefillLocked, ApiInv, CoolIsEmpty
    <2>2. CASE Callers # {}
        <3>1. PICK c \in Callers : TRUE
            BY <2>2
        <3> QED BY <1>2, <3>1, BucketKeepsInv
    <2> QED BY <2>1, <2>2
<1>3. ASSUME NEW c \in Callers,
             \/ CreateContainerGroup(c) \/ DeleteContainerGroup(c)
             \/ UpdateContainerGroup(c) \/ StartContainerGroup(c) \/ StopContainerGroup(c)
             \/ SwitchInstance(c) \/ GetContainerGroup(c) \/ ListContainerGroups(c)
             \/ ReadLogs(c) \/ ReadInstances(c) \/ ReadOrganization(c) \/ Return(c)
      PROVE  ApiInv'
    <2>1. \E asks \in Asked : Begin(c, asks) \/ Return(c)
        BY <1>3 DEF Asked, CreateContainerGroup, DeleteContainerGroup, UpdateContainerGroup,
           StartContainerGroup, StopContainerGroup, SwitchInstance, GetContainerGroup,
           ListContainerGroups, ReadLogs, ReadInstances, ReadOrganization
    <2> QED BY <2>1, BeginKeepsInv
<1> QED BY <1>1, <1>2, <1>3, AnswerKeepsInv, BucketKeepsInv DEF ApiNext

\* Every reachable state satisfies ApiInv.
LEMMA ApiInvariant == ApiSpec => []ApiInv
<1> QED BY InitApiInv, ApiInvStep, PTL DEF ApiSpec

\* Every reachable state of the API client is within its types.
LEMMA ApiTyped == ApiSpec => []ApiTypeOK
<1> QED BY ApiInvariant, ApiInvIsTyped, PTL

\* api client.rs run, retry.rs CreateOnce: however the attempts of a create end (refused, lost,
\* served without an answer), and whatever others delete meanwhile, it makes one group at most.
THEOREM CreateIsOnce == ApiSpec => []CreatesOnce
<1>1. ApiInv => CreatesOnce
    <2> SUFFICES ASSUME ApiInv, NEW c \in Callers PROVE servedPosts[c] <= 1
        BY DEF CreatesOnce
    <2>1. servedPosts[c] = 0 \/ servedPosts[c] = 1
        BY DEF ApiInv, Attempt
    <2> QED BY <2>1
<1> QED BY <1>1, ApiInvariant, PTL

\* retry.rs TokenBucket: after a 429 the bucket is empty until a token comes back, so that no
\* task of the process sends.
THEOREM CoolDownHolds == ApiSpec => CoolsDown
<1>1. ApiInv /\ [ApiNext]_apiVars =>
        [cooling => \A c \in Callers : ~(call[c].pc = "acquire" /\ call'[c].pc = "flying")]_apiVars
    <2> SUFFICES ASSUME ApiInv, ApiNext, cooling, NEW c \in Callers,
                        call[c].pc = "acquire", call'[c].pc = "flying"
                 PROVE  FALSE
        OBVIOUS
    <2>0. tokens = 0 /\ call \in [Callers -> CallRecord]
        BY DEF ApiInv, CoolIsEmpty
    <2>1. call' # call
        OBVIOUS
    <2>2. PICK d \in Callers :
            \/ CreateContainerGroup(d) \/ DeleteContainerGroup(d)
            \/ UpdateContainerGroup(d) \/ StartContainerGroup(d) \/ StopContainerGroup(d)
            \/ SwitchInstance(d) \/ GetContainerGroup(d) \/ ListContainerGroups(d)
            \/ ReadLogs(d) \/ ReadInstances(d) \/ ReadOrganization(d) \/ Return(d)
            \/ ServedRequest(d) \/ NoConnection(d) \/ LostAnswer(d)
            \/ BrokenAnswer(d) \/ TooManyRequests(d) \/ NextAttempt(d)
        BY <2>0, <2>1 DEF ApiNext, RefillLocked, Acquire
    <2>3. call[d].pc # "acquire" /\ \A e \in Callers \ {d} : call'[e] = call[e]
        BY <2>0, <2>2 DEF CreateContainerGroup, DeleteContainerGroup, UpdateContainerGroup,
           StartContainerGroup, StopContainerGroup, SwitchInstance, GetContainerGroup,
           ListContainerGroups, ReadLogs, ReadInstances, ReadOrganization, Begin, Return,
           ServedRequest, NoConnection, LostAnswer, BrokenAnswer, TooManyRequests, NextAttempt,
           RunReturns, SleepBackoff, CallGoes
    <2> QED BY <2>3
<1> QED BY <1>1, ApiInvariant, PTL DEF ApiSpec, CoolsDown
-----------------------------------------------------------------------------
(***************************************************************************)
(* InOrder lists a finite set in any strict total order.                   *)
(***************************************************************************)

\* before[e] is what comes before e in a strict total order of the finite set S.
OrdersAll(S, before) ==
    /\ IsFiniteSet(S) /\ before \in [S -> SUBSET S]
    /\ \A e \in S : e \notin before[e]
    /\ \A d, e \in S : d \in before[e] => before[d] \subseteq before[e]
    /\ \A d, e \in S : d = e \/ d \in before[e] \/ e \in before[d]

\* Of two members, the earlier one has fewer before it.
LEMMA RankGrows ==
    ASSUME NEW S, NEW before, OrdersAll(S, before)
    PROVE  /\ \A e \in S : Cardinality(before[e]) \in 0 .. Cardinality(S) - 1
           /\ \A d, e \in S : d \in before[e]
                                 => Cardinality(before[d]) < Cardinality(before[e])
<1>1. Cardinality(S) \in Nat
    BY FS_CardinalityType DEF OrdersAll
<1>2. ASSUME NEW e \in S PROVE IsFiniteSet(before[e]) /\ Cardinality(before[e]) \in Nat
    <2>1. before[e] \in SUBSET S
        BY DEF OrdersAll
    <2>2. IsFiniteSet(S)
        BY DEF OrdersAll
    <2>3. IsFiniteSet(before[e])
        BY <2>1, <2>2, FS_Subset
    <2> QED BY <2>3, FS_CardinalityType
<1>3. ASSUME NEW e \in S PROVE Cardinality(before[e]) < Cardinality(S)
    <2>1. before[e] \in SUBSET S /\ S # before[e] /\ IsFiniteSet(S)
        BY DEF OrdersAll
    <2>2. Cardinality(before[e]) <= Cardinality(S) /\ Cardinality(S) # Cardinality(before[e])
        BY <2>1, FS_Subset
    <2> QED BY <2>2, <1>1, <1>2
<1>4. ASSUME NEW d \in S, NEW e \in S, d \in before[e]
      PROVE  Cardinality(before[d]) < Cardinality(before[e])
    <2>1. before[d] \in SUBSET before[e] /\ before[e] # before[d]
        BY <1>4 DEF OrdersAll
    <2>2. /\ Cardinality(before[d]) <= Cardinality(before[e])
          /\ Cardinality(before[e]) # Cardinality(before[d])
        BY <2>1, <1>2, FS_Subset
    <2> QED BY <2>2, <1>2
<1> QED BY <1>1, <1>2, <1>3, <1>4

\* InOrder is a sequence of the members, each of them once, in the order.
LEMMA InOrderLists ==
    ASSUME NEW S, NEW before, OrdersAll(S, before)
    PROVE  /\ Cardinality(S) \in Nat
           /\ InOrder(S, before) \in [1 .. Cardinality(S) -> S]
           /\ \A e \in S : \E k \in 1 .. Cardinality(S) : InOrder(S, before)[k] = e
           /\ \A j, k \in 1 .. Cardinality(S) :
                 j < k => InOrder(S, before)[j] \in before[InOrder(S, before)[k]]
<1> DEFINE n == Cardinality(S)
           rank == [e \in S |-> Cardinality(before[e])]
           s == InOrder(S, before)
<1>1. n \in Nat /\ IsFiniteSet(S)
    BY FS_CardinalityType DEF OrdersAll
<1>2. IsFiniteSet(0 .. n - 1) /\ Cardinality(0 .. n - 1) = n
    <2>1. 0 \in Int /\ n - 1 \in Int
        BY <1>1
    <2>2. /\ IsFiniteSet(0 .. n - 1)
          /\ Cardinality(0 .. n - 1) = IF 0 > n - 1 THEN 0 ELSE (n - 1) - 0 + 1
        BY <2>1, FS_Interval
    <2> HIDE DEF n
    <2> QED BY <2>2, <1>1
<1>3. rank \in Injection(S, 0 .. n - 1)
    <2>1. rank \in [S -> 0 .. n - 1]
        BY RankGrows
    <2>2. \A d, e \in S : rank[d] = rank[e] => d = e
        <3>1. \A d, e \in S : d \in before[e] => rank[d] < rank[e]
            BY RankGrows
        <3>2. \A d, e \in S : d = e \/ d \in before[e] \/ e \in before[d]
            BY DEF OrdersAll
        <3> QED BY <3>1, <3>2, <2>1, <1>1
    <2> QED BY <2>1, <2>2 DEF Injection, IsInjective
<1>4. rank \in Surjection(S, 0 .. n - 1)
    BY <1>1, <1>2, <1>3, FS_Injection
<1>5. ASSUME NEW k \in 1 .. n PROVE \E e \in S : Cardinality(before[e]) = k - 1
    <2>1. k - 1 \in 0 .. n - 1
        BY <1>1
    <2> QED BY <2>1, <1>4 DEF Surjection
<1>6. ASSUME NEW k \in 1 .. n PROVE s[k] \in S /\ Cardinality(before[s[k]]) = k - 1
    <2>1. s[k] = CHOOSE e \in S : Cardinality(before[e]) = k - 1
        BY DEF InOrder
    <2> QED BY <2>1, <1>5
<1>7. s \in [1 .. n -> S]
    BY <1>6 DEF InOrder
<1>8. ASSUME NEW e \in S PROVE \E k \in 1 .. n : s[k] = e
    <2> DEFINE k == Cardinality(before[e]) + 1
    <2>1. Cardinality(before[e]) \in 0 .. n - 1
        BY RankGrows
    <2>2. k \in 1 .. n /\ k - 1 = Cardinality(before[e])
        BY <2>1, <1>1
    <2>3. s[k] \in S /\ Cardinality(before[s[k]]) = Cardinality(before[e])
        BY <2>2, <1>6
    <2>4. s[k] = e
        BY <2>3, <1>3 DEF Injection, IsInjective
    <2> QED BY <2>2, <2>4
<1>9. ASSUME NEW j \in 1 .. n, NEW k \in 1 .. n, j < k PROVE s[j] \in before[s[k]]
    <2>1. s[j] \in S /\ s[k] \in S
        BY <1>6
    <2>2. Cardinality(before[s[j]]) = j - 1 /\ Cardinality(before[s[k]]) = k - 1
        BY <1>6
    <2>3. s[j] # s[k]
        BY <2>2, <1>9, <1>1
    <2>4. s[k] \notin before[s[j]]
        <3>1. s[k] \in before[s[j]] => k - 1 < j - 1
            BY <2>1, <2>2, RankGrows
        <3> QED BY <3>1, <1>9, <1>1
    <2> QED BY <2>1, <2>3, <2>4 DEF OrdersAll
<1> QED BY <1>1, <1>7, <1>8, <1>9
-----------------------------------------------------------------------------
\* Instants and their milliseconds.
LEMMA MilliGrows ==
    ASSUME NEW t \in Nat, NEW u \in Nat, t <= u
    PROVE  Milli(t) \in Nat /\ Milli(t) <= Milli(u)
BY LogAssumption DEF Milli

LEMMA NextMilli ==
    ASSUME NEW t \in Nat
    PROVE  Milli(t + SubMillis) = Milli(t) + 1
BY LogAssumption DEF Milli

LEMMA MilliOfWhole ==
    ASSUME NEW n \in Nat, NEW offset \in 0 .. SubMillis - 1
    PROVE  Milli(SubMillis * n + offset) = n
BY LogAssumption DEF Milli
-----------------------------------------------------------------------------
\* Finitely many entries.
LEMMA EntriesFinite == IsFiniteSet(LogEntry)
<1> DEFINE P == Millis \X (1 .. 3)
           f == [p \in P |-> [time |-> p[1], nth |-> p[2]]]
<1>1. IsFiniteSet(P)
    <2>1. 0 \in Int /\ LastMilli \in Int /\ 1 \in Int /\ 3 \in Int
        BY LogAssumption
    <2>2. IsFiniteSet(Millis) /\ IsFiniteSet(1 .. 3)
        BY <2>1, FS_Interval DEF Millis
    <2> QED BY <2>2, FS_Product
<1>2. f \in Surjection(P, LogEntry)
    <2>1. f \in [P -> LogEntry]
        BY DEF LogEntry
    <2>2. ASSUME NEW e \in LogEntry PROVE \E p \in P : f[p] = e
        <3>1. <<e.time, e.nth>> \in P /\ e = [time |-> e.time, nth |-> e.nth]
            BY DEF LogEntry
        <3>2. f[<<e.time, e.nth>>] = [time |-> e.time, nth |-> e.nth]
            BY <3>1
        <3> QED BY <3>1, <3>2
    <2> QED BY <2>1, <2>2 DEF Surjection
<1> QED BY <1>1, <1>2, FS_Surjection

\* A page of entries is put into the order in which they were written.
LEMMA OldestFirstLists ==
    ASSUME NEW S \in SUBSET LogEntry
    PROVE  /\ OldestFirst(S) \in Seq(S)
           /\ \A e \in S : \E k \in 1 .. Len(OldestFirst(S)) : OldestFirst(S)[k] = e
           /\ \A j, k \in 1 .. Len(OldestFirst(S)) :
                 j < k => Older(OldestFirst(S)[j], OldestFirst(S)[k])
<1> DEFINE before == [e \in S |-> {d \in S : Older(d, e)}]
           s == OldestFirst(S)
<1>1. IsFiniteSet(S)
    BY EntriesFinite, FS_Subset
<1>2. \A e \in S : e.time \in Int /\ e.nth \in Int /\ e = [time |-> e.time, nth |-> e.nth]
    BY LogAssumption DEF LogEntry, Millis
<1>3. OrdersAll(S, before)
    <2>1. before \in [S -> SUBSET S] /\ \A e \in S : e \notin before[e]
        BY <1>2 DEF Older
    <2>2. ASSUME NEW d \in S, NEW e \in S, d \in before[e] PROVE before[d] \subseteq before[e]
        BY <2>2, <1>2 DEF Older
    <2>3. ASSUME NEW d \in S, NEW e \in S PROVE d = e \/ d \in before[e] \/ e \in before[d]
        BY <1>2 DEF Older
    <2> QED BY <1>1, <2>1, <2>2, <2>3 DEF OrdersAll
<1>4. s = InOrder(S, before)
    BY DEF OldestFirst
<1> HIDE DEF s, before
<1>5. /\ Cardinality(S) \in Nat /\ s \in [1 .. Cardinality(S) -> S]
      /\ \A e \in S : \E k \in 1 .. Cardinality(S) : s[k] = e
      /\ \A j, k \in 1 .. Cardinality(S) : j < k => s[j] \in before[s[k]]
    BY <1>3, <1>4, InOrderLists
<1>6. s \in Seq(S) /\ Len(s) = Cardinality(S)
    BY <1>5
<1>7. ASSUME NEW j \in 1 .. Len(s), NEW k \in 1 .. Len(s), j < k PROVE Older(s[j], s[k])
    <2>1. s[j] \in before[s[k]] /\ s[k] \in S
        BY <1>5, <1>6, <1>7
    <2> QED BY <2>1 DEF before
<1> QED BY <1>5, <1>6, <1>7 DEF s

\* Entries of one millisecond that were pushed in the order in which they were written.
InPushOrder(s) ==
    \A i, j \in DOMAIN s : i < j /\ s[i].time = s[j].time => s[i].nth < s[j].nth

\* The stable sort puts such entries into the order in which they were written.
LEMMA StableSortedOrders ==
    ASSUME NEW s \in Seq(LogEntry), InPushOrder(s)
    PROVE  /\ StableSorted(s) \in Seq(LogEntry) /\ Len(StableSorted(s)) = Len(s)
           /\ \A k \in 1 .. Len(s) : \E i \in 1 .. Len(s) : StableSorted(s)[k] = s[i]
           /\ \A i \in 1 .. Len(s) : \E k \in 1 .. Len(s) : StableSorted(s)[k] = s[i]
           /\ \A j, k \in 1 .. Len(s) : j < k => Older(StableSorted(s)[j], StableSorted(s)[k])
<1> DEFINE n == Len(s)
           D == DOMAIN s
           before == [i \in D |-> {j \in D : s[j].time < s[i].time
                                              \/ (s[j].time = s[i].time /\ j < i)}]
           perm == InOrder(D, before)
           t == StableSorted(s)
<1>1. n \in Nat /\ D = 1 .. n /\ \A i \in D : s[i] \in LogEntry
    BY LenProperties, ElementOfSeq
<1>2. \A i \in D : s[i].time \in Int /\ s[i].nth \in Int
    BY <1>1, LogAssumption DEF LogEntry, Millis
<1>3. OrdersAll(D, before)
    <2>1. before \in [D -> SUBSET D] /\ \A i \in D : i \notin before[i]
        BY <1>1, <1>2
    <2>2. ASSUME NEW i \in D, NEW j \in D, i \in before[j] PROVE before[i] \subseteq before[j]
        BY <2>2, <1>1, <1>2
    <2>3. ASSUME NEW i \in D, NEW j \in D PROVE i = j \/ i \in before[j] \/ j \in before[i]
        BY <1>1, <1>2
    <2>4. IsFiniteSet(D)
        <3>1. 1 \in Int /\ n \in Int
            BY <1>1
        <3> QED BY <3>1, <1>1, FS_Interval
    <2> QED BY <2>1, <2>2, <2>3, <2>4 DEF OrdersAll
<1>4. Cardinality(D) = n
    <2>1. 1 \in Int /\ n \in Int
        BY <1>1
    <2>2. Cardinality(1 .. n) = IF 1 > n THEN 0 ELSE n - 1 + 1
        BY <2>1, FS_Interval
    <2> HIDE DEF n, D
    <2> QED BY <2>2, <1>1
<1>5. t = [k \in D |-> s[perm[k]]]
    BY DEF StableSorted
<1>6. /\ perm \in [1 .. n -> D]
      /\ \A i \in D : \E k \in 1 .. n : perm[k] = i
      /\ \A j, k \in 1 .. n : j < k => perm[j] \in before[perm[k]]
    <2> HIDE DEF before, D
    <2> QED BY <1>3, <1>4, InOrderLists
<1>7. \A k \in 1 .. n : perm[k] \in 1 .. n /\ t[k] = s[perm[k]]
    <2> HIDE DEF perm, t, D, n
    <2> QED BY <1>1, <1>5, <1>6
<1>8. t \in Seq(LogEntry) /\ Len(t) = n
    <2> HIDE DEF perm, t, n
    <2>1. t \in [1 .. n -> LogEntry]
        BY <1>1, <1>5, <1>7
    <2> QED BY <2>1, <1>1
<1>9. ASSUME NEW j \in 1 .. n, NEW k \in 1 .. n, j < k PROVE Older(t[j], t[k])
    <2>1. perm[j] \in before[perm[k]] /\ perm[k] \in D
        BY <1>6, <1>9
    <2>2. \/ s[perm[j]].time < s[perm[k]].time
          \/ s[perm[j]].time = s[perm[k]].time /\ perm[j] < perm[k]
        <3> HIDE DEF perm, D
        <3> QED BY <2>1
    <2>3. perm[j] \in D /\ t[j] = s[perm[j]] /\ t[k] = s[perm[k]]
        BY <1>1, <1>7
    <2> HIDE DEF perm, t, n
    <2> QED BY <2>1, <2>2, <2>3 DEF InPushOrder, Older
<1>10. \A i \in 1 .. n : \E k \in 1 .. n : t[k] = s[i]
    <2> HIDE DEF perm, t, n, before, D
    <2> SUFFICES ASSUME NEW i \in 1 .. n PROVE \E k \in 1 .. n : t[k] = s[i]
        OBVIOUS
    <2>1. PICK k \in 1 .. n : perm[k] = i
        BY <1>1, <1>6
    <2> QED BY <2>1, <1>7
<1> HIDE DEF perm
<1> QED BY <1>7, <1>8, <1>9, <1>10

\* The stack t is s without its top window, and with those of r on it.
TopReplaced(s, r, t) ==
    /\ Len(s) \in Nat /\ Len(s) >= 1 /\ Last(s) = s[Len(s)] /\ Last(s) \in Nat \X Nat
    /\ t \in Seq(Nat \X Nat) /\ Len(t) = Len(s) - 1 + Len(r)
    /\ \A i \in 1 .. Len(s) - 1 : t[i] = s[i]
    /\ \A i \in 1 .. Len(r) : t[Len(s) - 1 + i] = r[i]

\* The top window is taken off the stack, and others are put on in its place.
LEMMA Replaced ==
    ASSUME NEW s \in Seq(Nat \X Nat), s # <<>>, NEW r \in Seq(Nat \X Nat),
           NEW t, t = Front(s) \o r
    PROVE  TopReplaced(s, r, t)
<1> DEFINE T == Nat \X Nat
<1> HIDE DEF T
<1>0. s \in Seq(T) /\ r \in Seq(T)
    BY DEF T
<1>1. Len(s) \in Nat /\ Len(s) >= 1 /\ Len(r) \in Nat
    <2>1. Len(s) \in Nat \ {0} /\ Len(r) \in Nat
        BY <1>0, EmptySeq, LenProperties
    <2> QED BY <2>1
<1>2. Last(s) = s[Len(s)] /\ Last(s) \in T
    BY <1>0, <1>1, ElementOfSeq DEF Last
<1>3. /\ Front(s) \in Seq(T) /\ Len(Front(s)) = Len(s) - 1
      /\ \A i \in 1 .. Len(s) - 1 : Front(s)[i] = s[i]
    <2>1. 1 \in Int /\ Len(s) - 1 \in Int /\ \A i \in 1 .. Len(s) - 1 : s[i] \in T
        BY <1>0, <1>1, ElementOfSeq
    <2>2. /\ Front(s) \in Seq(T)
          /\ Len(Front(s)) = IF 1 <= Len(s) - 1 THEN (Len(s) - 1) - 1 + 1 ELSE 0
          /\ \A i \in 1 .. (Len(s) - 1) - 1 + 1 : Front(s)[i] = s[1 + i - 1]
        BY <2>1, SubSeqProperties DEF Front
    <2>3. /\ (Len(s) - 1) - 1 + 1 = Len(s) - 1
          /\ \A i \in 1 .. Len(s) - 1 : 1 + i - 1 = i
        BY <1>1
    <2>4. (IF 1 <= Len(s) - 1 THEN (Len(s) - 1) - 1 + 1 ELSE 0) = Len(s) - 1
        <3>1. CASE 1 <= Len(s) - 1
            BY <3>1, <2>3
        <3>2. CASE ~(1 <= Len(s) - 1)
            BY <3>2, <1>1, <2>3
        <3> QED BY <3>1, <3>2
    <2> QED BY <2>2, <2>3, <2>4
<1>4. /\ Front(s) \o r \in Seq(T) /\ Len(Front(s) \o r) = Len(Front(s)) + Len(r)
      /\ \A i \in 1 .. Len(Front(s)) + Len(r) :
            (Front(s) \o r)[i] = IF i <= Len(Front(s)) THEN Front(s)[i]
                                                       ELSE r[i - Len(Front(s))]
    BY <1>0, <1>3, ConcatProperties
<1>5. Len(t) = Len(s) - 1 + Len(r) /\ \A i \in 1 .. Len(s) - 1 : t[i] = s[i]
    BY <1>1, <1>3, <1>4
<1>6. ASSUME NEW i \in 1 .. Len(r) PROVE t[Len(s) - 1 + i] = r[i]
    <2>1. PICK c : c = Len(s) /\ c \in Nat /\ c >= 1
        BY <1>1
    <2>2. PICK a : a = Len(r) /\ a \in Nat
        BY <1>1
    <2>3. PICK m : m = Len(Front(s))
        OBVIOUS
    <2>4. m = c - 1
        BY <1>3, <2>1, <2>3
    <2>5. i \in 1 .. a
        BY <2>2
    <2>6. PICK k : k = c - 1 + i
        OBVIOUS
    <2>7. k \in 1 .. m + a /\ ~(k <= m) /\ k - m = i
        <3>1. c \in Nat /\ c >= 1 /\ a \in Nat
            BY <2>1, <2>2
        <3> QED BY ONLY <3>1, <2>4, <2>5, <2>6
    <2>8. t[k] = IF k <= m THEN Front(s)[k] ELSE r[k - m]
        BY <2>2, <2>3, <2>7, <1>4
    <2>9. t[k] = r[i]
        BY <2>7, <2>8
    <2> QED BY <2>1, <2>6, <2>9
<1>7. Last(s) \in Nat \X Nat /\ t \in Seq(Nat \X Nat)
    BY <1>2, <1>4 DEF T
<1> QED BY <1>1, <1>2, <1>5, <1>6, <1>7 DEF TopReplaced
-----------------------------------------------------------------------------
\* While windows are left: they follow each other, what has been kept is newer than all of
\* them, and unless the fetch has admitted a loss nothing is missing but what they hold.
Ahead ==
    /\ cutBy \subseteq {"narrow"}
    /\ \A i, j \in DOMAIN logFetch.stack :
          i < j => Milli(logFetch.stack[i][2]) < Milli(logFetch.stack[j][1])
    /\ \A i \in DOMAIN logFetch.stack, k \in DOMAIN out :
          Milli(logFetch.stack[i][2]) < out[k].time
    /\ cutBy = {} => \A e \in LogEntries :
                        Kept(e) \/ \E i \in DOMAIN logFetch.stack : e \in Held(logFetch.stack[i])

\* Before the sort: if nothing but the limit has cut the fetch short, what is missing is
\* older than all that was kept.
Closed ==
    cutBy \subseteq {"limit"} =>
        \A e \in LogEntries :
            Kept(e) \/ (cutBy # {} /\ \A k \in DOMAIN out : e.time < out[k].time)

LogInv ==
    /\ log \in [Millis -> Bursts]
    /\ logFetch \in [pc: {"query", "sort", "print", "failed"}, queries: Nat,
                     stack: Seq(Nat \X Nat)]
    /\ out \in Seq(LogEntries)
    /\ truncated \in BOOLEAN /\ cutBy \subseteq {"limit", "queries", "narrow"}
    /\ truncated <=> cutBy # {}
    /\ InPushOrder(out)
    /\ logFetch.pc = "query" => Ahead
    /\ logFetch.pc = "sort" => Closed
    /\ logFetch.pc = "print" => LogTailIsHonest

\* The fetch keeps to its budget and to windows that begin in the log or next to it.
Budgeted ==
    /\ logFetch.queries \in 0 .. MaxQueries
    /\ \A i \in DOMAIN logFetch.stack :
          /\ logFetch.stack[i][1] < SubMillis * (LastMilli + 3)
          /\ logFetch.stack[i][2] < SubMillis * (LastMilli + 2)

\* The first window spans the log.
LEMMA InitLogInv == LogInit => LogInv
<1> SUFFICES ASSUME LogInit PROVE LogInv
    OBVIOUS
<1>1. PICK offset \in 0 .. SubMillis - 1 :
         logFetch = [pc |-> "query", queries |-> 0,
                     stack |-> << <<offset, SubMillis * (LastMilli + 1) + offset>> >>]
    BY DEF LogInit
<1> DEFINE w == <<offset, SubMillis * (LastMilli + 1) + offset>>
<1>2. w \in Nat \X Nat
    <2>1. SubMillis \in Nat /\ LastMilli + 1 \in Nat /\ offset \in Nat
        BY LogAssumption
    <2>2. SubMillis * (LastMilli + 1) \in Nat
        BY <2>1
    <2> QED BY <2>1, <2>2
<1>3. logFetch.stack = <<w>> /\ DOMAIN logFetch.stack = {1} /\ logFetch.stack[1] = w
    BY <1>1
<1>4. logFetch \in [pc: {"query", "sort", "print", "failed"}, queries: Nat,
                    stack: Seq(Nat \X Nat)]
    BY <1>1, <1>2
<1>5. Milli(w[1]) = 0 /\ Milli(w[2]) = LastMilli + 1
    <2>1. SubMillis * 0 + offset = offset
        BY LogAssumption
    <2>2. 0 \in Nat /\ LastMilli + 1 \in Nat
        BY LogAssumption
    <2>3. Milli(SubMillis * 0 + offset) = 0
        BY <2>2, MilliOfWhole
    <2>4. Milli(SubMillis * (LastMilli + 1) + offset) = LastMilli + 1
        BY <2>2, MilliOfWhole
    <2> QED BY <2>1, <2>3, <2>4
<1>6. \A e \in LogEntries : e \in Held(w)
    BY <1>5, LogAssumption DEF Held, LogEntries, LogEntry, Millis
<1>7. Ahead
    <2> HIDE DEF w
    <2> QED BY <1>3, <1>6 DEF Ahead, LogInit
<1>8. logFetch.pc = "query" /\ out = <<>> /\ truncated = FALSE /\ cutBy = {}
      /\ log \in [Millis -> Bursts]
    BY <1>1 DEF LogInit
<1>9. InPushOrder(out) /\ out \in Seq(LogEntries)
    BY <1>8 DEF InPushOrder
<1> QED BY <1>4, <1>7, <1>8, <1>9 DEF LogInv

\* A window of the stack and its milliseconds.
LEMMA WindowTyped ==
    ASSUME NEW s \in Seq(Nat \X Nat), NEW i \in 1 .. Len(s)
    PROVE  /\ s[i] \in Nat \X Nat /\ s[i][1] \in Nat /\ s[i][2] \in Nat
           /\ Milli(s[i][1]) \in Nat /\ Milli(s[i][2]) \in Nat
<1>1. s[i] \in Nat \X Nat
    BY ElementOfSeq
<1>2. s[i][1] \in Nat /\ s[i][2] \in Nat
    BY <1>1
<1>3. s[i][1] <= s[i][1] /\ s[i][2] <= s[i][2]
    BY <1>2
<1> QED BY <1>1, <1>2, <1>3, MilliGrows

\* The middle of a window that is wide.
LEMMA Middle ==
    ASSUME NEW w \in Nat \X Nat, Wide(w)
    PROVE  LET mid == w[1] + (w[2] - w[1]) \div 2
           IN mid \in Nat /\ w[1] <= mid /\ mid <= w[2]
<1>1. MinWindow * SubMillis \in Nat
    BY LogAssumption
<1>2. w[1] \in Nat /\ w[2] \in Nat /\ w[2] - w[1] > MinWindow * SubMillis
    BY DEF Wide
<1>3. w[2] - w[1] \in Nat
    BY <1>1, <1>2
<1>4. (w[2] - w[1]) \div 2 \in Nat /\ (w[2] - w[1]) \div 2 <= w[2] - w[1]
    BY <1>3
<1> QED BY <1>2, <1>4

\* Halving a window leaves nothing out and nothing twice.
LEMMA SplitKeepsInv == LogInv /\ Split => LogInv'
<1> SUFFICES ASSUME LogInv, Split PROVE LogInv'
    OBVIOUS
<1>1. /\ logFetch.pc = "query" /\ logFetch.stack # <<>> /\ Wide(Last(logFetch.stack))
      /\ UNCHANGED <<log, out, truncated, cutBy>>
    BY DEF Split, Query
<1>2. PICK s : s \in Seq(Nat \X Nat) /\ s = logFetch.stack /\ s # <<>>
    BY <1>1 DEF LogInv
<1>3. PICK n : n \in Nat /\ n >= 1 /\ n = Len(s) /\ DOMAIN s = 1 .. n /\ Last(s) = s[n]
    <2>1. <<>> \in Seq(Nat \X Nat) /\ Len(s) \in Nat \ {0} /\ DOMAIN s = 1 .. Len(s)
        BY <1>2, EmptySeq, LenProperties
    <2>2. Len(s) \in Nat /\ Len(s) >= 1
        BY <2>1
    <2> QED BY <2>1, <2>2 DEF Last
<1>4. PICK w : w \in Nat \X Nat /\ w = s[n] /\ w = Last(s) /\ Wide(w)
    BY <1>1, <1>2, <1>3, ElementOfSeq
<1>5. PICK mid :
         /\ mid \in Nat /\ mid = w[1] + (w[2] - w[1]) \div 2 /\ w[1] <= mid /\ mid <= w[2]
         /\ w[1] \in Nat /\ w[2] \in Nat
    BY <1>4, Middle
<1>6. PICK r :
         /\ r \in Seq(Nat \X Nat) /\ r = Halves(w, mid) /\ Len(r) = 2
         /\ r[1] = <<w[1], mid>> /\ r[2] = <<mid + SubMillis, w[2]>>
    <2>1. mid + SubMillis \in Nat
        BY <1>5, LogAssumption
    <2>2. <<w[1], mid>> \in Nat \X Nat /\ <<mid + SubMillis, w[2]>> \in Nat \X Nat
        BY <2>1, <1>5
    <2> DEFINE r == << <<w[1], mid>>, <<mid + SubMillis, w[2]>> >>
    <2>3. r \in Seq(Nat \X Nat) /\ Len(r) = 2
        BY <2>2
    <2>4. r[1] = <<w[1], mid>> /\ r[2] = <<mid + SubMillis, w[2]>> /\ r = Halves(w, mid)
        BY DEF Halves
    <2> HIDE DEF r
    <2> QED BY <2>3, <2>4
<1>7. PICK t : t = Front(s) \o r
    OBVIOUS
<1>8. /\ t \in Seq(Nat \X Nat) /\ Len(t) = Len(s) - 1 + Len(r)
      /\ \A i \in 1 .. Len(s) - 1 : t[i] = s[i]
      /\ \A i \in 1 .. Len(r) : t[Len(s) - 1 + i] = r[i]
    <2>1. s \in Seq(Nat \X Nat) /\ s # <<>> /\ r \in Seq(Nat \X Nat) /\ t = Front(s) \o r
        BY <1>2, <1>6, <1>7
    <2>2. TopReplaced(s, r, t)
        BY <2>1, Replaced, Zenon
    <2> QED BY <2>2 DEF TopReplaced
<1>9. t \in Seq(Nat \X Nat) /\ DOMAIN t = 1 .. n + 1 /\ t = logFetch'.stack
    <2>1. logFetch' = [logFetch EXCEPT !.queries = @ + 1, !.stack = Front(@) \o r]
        BY <1>2, <1>4, <1>5, <1>6 DEF Split, Query
    <2>2. logFetch'.stack = t
        BY <2>1, <1>2, <1>7 DEF LogInv
    <2>3. t \in Seq(Nat \X Nat) /\ Len(t) = Len(s) - 1 + Len(r)
        BY <1>8
    <2>4. Len(t) = n + 1
        BY <2>3, <1>3, <1>6
    <2> QED BY <2>2, <2>3, <2>4, LenProperties
<1>10. \A i \in 1 .. n - 1 : t[i] = s[i]
    BY <1>3, <1>8
<1>11. t[n] = <<w[1], mid>> /\ t[n + 1] = <<mid + SubMillis, w[2]>>
    <2>1. \A i \in 1 .. Len(r) : t[Len(s) - 1 + i] = r[i]
        BY <1>8
    <2>2. 1 \in 1 .. 2 /\ 2 \in 1 .. 2 /\ n - 1 + 1 = n /\ n - 1 + 2 = n + 1
        BY <1>3
    <2>3. t[n - 1 + 1] = r[1] /\ t[n - 1 + 2] = r[2]
        BY <2>1, <2>2, <1>3, <1>6
    <2> QED BY <2>2, <2>3, <1>6
<1>12. /\ Milli(w[1]) \in Nat /\ Milli(w[2]) \in Nat /\ Milli(mid) \in Nat
      /\ Milli(w[1]) <= Milli(mid) /\ Milli(mid) <= Milli(w[2])
      /\ Milli(mid + SubMillis) = Milli(mid) + 1
    BY <1>5, MilliGrows, NextMilli
<1>13. \A i \in 1 .. n : Milli(s[i][1]) \in Nat /\ Milli(s[i][2]) \in Nat
    BY <1>2, <1>3, WindowTyped
<1>14. Ahead
    BY <1>1 DEF LogInv
<1>15. \A i, j \in 1 .. n : i < j => Milli(s[i][2]) < Milli(s[j][1])
    BY <1>2, <1>3, <1>14 DEF Ahead
<1>16. \A k \in DOMAIN out : out[k].time \in Int
    <2>1. \A e \in LogEntries : e.time \in Int
        BY LogAssumption DEF LogEntries, LogEntry, Millis
    <2> QED BY <2>1, LenProperties, ElementOfSeq DEF LogInv
<1>17. ASSUME NEW i \in 1 .. n + 1
       PROVE  \/ i \in 1 .. n - 1 /\ t[i] = s[i] /\ i \in 1 .. n /\ i < n
              \/ i = n
              \/ i = n + 1
    BY <1>3, <1>10
<1>18. ASSUME NEW i \in DOMAIN t, NEW j \in DOMAIN t, i < j
       PROVE  Milli(t[i][2]) < Milli(t[j][1])
    <2>0. i \in 1 .. n + 1 /\ j \in 1 .. n + 1 /\ n \in 1 .. n
        BY <1>3, <1>9
    <2>1. CASE j \in 1 .. n - 1 /\ t[j] = s[j] /\ j \in 1 .. n /\ j < n
        <3>1. i \in 1 .. n - 1 /\ i \in 1 .. n /\ t[i] = s[i]
            BY <2>0, <2>1, <1>3, <1>17, <1>18
        <3> QED BY <2>1, <3>1, <1>15, <1>18
    <2>2. CASE j = n
        <3>1. i \in 1 .. n /\ t[i] = s[i]
            BY <2>0, <2>2, <1>3, <1>17, <1>18
        <3>2. Milli(s[i][2]) < Milli(w[1])
            BY <3>1, <2>0, <2>2, <1>4, <1>15, <1>18
        <3> QED BY <3>1, <3>2, <2>2, <1>9, <1>10, <1>11
    <2>3. CASE j = n + 1
        <3>1. CASE i = n
            BY <2>3, <3>1, <1>9, <1>10, <1>11, <1>12
        <3>2. CASE i # n
            <4>1. i \in 1 .. n /\ t[i] = s[i] /\ i < n
                BY <3>2, <2>0, <2>3, <1>3, <1>17, <1>18
            <4>2. Milli(s[i][2]) < Milli(w[1]) /\ Milli(s[i][2]) \in Nat
                BY <4>1, <2>0, <1>4, <1>13, <1>15
            <4>3. Milli(s[i][2]) < Milli(mid) + 1
                BY <4>2, <1>12
            <4> QED BY <4>1, <4>3, <2>3, <1>9, <1>10, <1>11, <1>12
        <3> QED BY <3>1, <3>2
    <2> QED BY <2>0, <2>1, <2>2, <2>3, <1>17
<1>19. ASSUME NEW i \in DOMAIN t, NEW k \in DOMAIN out PROVE Milli(t[i][2]) < out[k].time
    <2>1. \A j \in 1 .. n : Milli(s[j][2]) < out[k].time
        BY <1>2, <1>3, <1>14 DEF Ahead
    <2>2. Milli(w[2]) < out[k].time /\ n \in 1 .. n
        BY <2>1, <1>3, <1>4
    <2>3. CASE i = n
        <3>1. t[i][2] = mid
            BY <2>3, <1>11
        <3>2. Milli(mid) < out[k].time
            BY <2>2, <1>12, <1>16
        <3> QED BY <3>1, <3>2
    <2>4. CASE i = n + 1
        BY <2>2, <2>4, <1>9, <1>10, <1>11
    <2>5. i \in 1 .. n + 1
        BY <1>9, <1>10, <1>11
    <2> QED BY <2>1, <2>3, <2>4, <2>5, <1>17
<1>20. ASSUME NEW e \in LogEntries, e \in Held(w)
       PROVE  e \in Held(t[n]) \/ e \in Held(t[n + 1])
    <2>1. e.time \in Int /\ Milli(w[1]) <= e.time /\ e.time <= Milli(w[2])
        BY <1>20, LogAssumption DEF Held, LogEntries, LogEntry, Millis
    <2>2. e.time <= Milli(mid) \/ Milli(mid + SubMillis) <= e.time
        BY <2>1, <1>12
    <2>3. \/ Milli(t[n][1]) <= e.time /\ e.time <= Milli(t[n][2])
          \/ Milli(t[n + 1][1]) <= e.time /\ e.time <= Milli(t[n + 1][2])
        BY <2>1, <2>2, <1>9, <1>10, <1>11
    <2> QED BY <2>3 DEF Held
<1>21. ASSUME cutBy = {}, NEW e \in LogEntries
       PROVE  Kept(e) \/ \E i \in DOMAIN t : e \in Held(t[i])
    <2>1. Kept(e) \/ \E i \in DOMAIN s : e \in Held(s[i])
        BY <1>2, <1>14, <1>21 DEF Ahead
    <2>2. ASSUME NEW i \in DOMAIN s, e \in Held(s[i]) PROVE \E j \in DOMAIN t : e \in Held(t[j])
        <3>1. n \in DOMAIN t /\ n + 1 \in DOMAIN t
            BY <1>3, <1>9
        <3>2. CASE i = n
            BY <3>1, <3>2, <2>2, <1>4, <1>20
        <3>3. CASE i # n
            <4>1. i \in 1 .. n - 1 /\ i \in DOMAIN t
                BY <3>3, <2>2, <1>3, <1>9
            <4> QED BY <4>1, <2>2, <1>9, <1>10, <1>11
        <3> QED BY <3>2, <3>3
    <2> QED BY <2>1, <2>2
<1>22. LogEntries' = LogEntries /\ (\A e : Kept(e)' <=> Kept(e)) /\ \A v : Held(v)' = Held(v)
    BY <1>1 DEF LogEntries, Kept, Held
<1>23. Ahead'
    <2>1. cutBy' \subseteq {"narrow"}
        BY <1>1, <1>14 DEF Ahead
    <2>2. \A i, j \in DOMAIN logFetch'.stack :
             i < j => Milli(logFetch'.stack[i][2]) < Milli(logFetch'.stack[j][1])
        BY <1>9, <1>10, <1>11, <1>18
    <2>3. \A i \in DOMAIN logFetch'.stack, k \in DOMAIN out' :
             Milli(logFetch'.stack[i][2]) < out'[k].time
        BY <1>1, <1>9, <1>10, <1>11, <1>19
    <2>4. cutBy' = {} => \A e \in LogEntries' :
             Kept(e)' \/ \E i \in DOMAIN logFetch'.stack : e \in Held(logFetch.stack[i])'
        <3>1. \A i : Held(logFetch.stack[i])' = Held(t[i])
            BY <1>1, <1>9, <1>10, <1>11 DEF Held, LogEntries
        <3> QED BY <3>1, <1>1, <1>9, <1>10, <1>11, <1>21, <1>22
    <2> QED BY <2>1, <2>2, <2>3, <2>4 DEF Ahead, Milli
<1>24. logFetch' \in [pc: {"query", "sort", "print", "failed"}, queries: Nat,
                      stack: Seq(Nat \X Nat)] /\ logFetch'.pc = "query"
    <2>1. /\ logFetch \in [pc: {"query", "sort", "print", "failed"}, queries: Nat,
                           stack: Seq(Nat \X Nat)]
          /\ logFetch.pc = "query"
        BY <1>1 DEF LogInv
    <2>2. logFetch' = [logFetch EXCEPT !.queries = logFetch.queries + 1, !.stack = t]
        BY <2>1, <1>2, <1>4, <1>5, <1>6, <1>9 DEF Split, Query
    <2>3. logFetch.queries + 1 \in Nat
        BY <2>1
    <2> QED BY <2>1, <2>2, <2>3, <1>9
<1> QED BY <1>1, <1>22, <1>23, <1>24 DEF LogInv, InPushOrder

\* A page that is kept: what is new of it is added after the rest.
Adds(page) ==
    /\ page \subseteq LogEntries /\ OldestFirst(Fresh(page)) \in Seq(Fresh(page))
    /\ out' \in Seq(LogEntries)
    /\ Len(out') = Len(out) + Len(OldestFirst(Fresh(page)))
    /\ \A k \in DOMAIN out : k \in DOMAIN out' /\ out'[k] = out[k]
    /\ \A e \in Fresh(page) : \E k \in DOMAIN out' : out'[k] = e
    /\ \A k \in DOMAIN out' : k \notin DOMAIN out => out'[k] \in Fresh(page)
    /\ \A j, k \in DOMAIN out' :
          j < k /\ j \notin DOMAIN out => k \notin DOMAIN out /\ Older(out'[j], out'[k])

LEMMA PageIsAdded ==
    ASSUME out \in Seq(LogEntries), NEW page \in SUBSET LogEntries,
           out' = out \o OldestFirst(Fresh(page))
    PROVE  Adds(page)
<1> DEFINE F == Fresh(page)
<1>0. F \subseteq page /\ F \subseteq LogEntries /\ F \in SUBSET LogEntry
    BY DEF Fresh, LogEntries
<1>1. PICK q : q = OldestFirst(F)
    OBVIOUS
<1>2. /\ q \in Seq(F)
      /\ \A e \in F : \E k \in 1 .. Len(q) : q[k] = e
      /\ \A j, k \in 1 .. Len(q) : j < k => Older(q[j], q[k])
    <2> HIDE DEF F
    <2> QED BY <1>0, <1>1, OldestFirstLists
<1> HIDE DEF F
<1>3. q \in Seq(LogEntries)
    <2>1. q \in [1 .. Len(q) -> F] /\ Len(q) \in Nat
        BY <1>2, LenProperties
    <2> QED BY <2>1, <1>0
<1>4. PICK m : m \in Nat /\ m = Len(out)
    BY LenProperties
<1>5. PICK l : l \in Nat /\ l = Len(q)
    BY <1>3, LenProperties
<1>6. /\ out' \in Seq(LogEntries) /\ Len(out') = m + l
      /\ \A k \in 1 .. m + l : out'[k] = IF k <= m THEN out[k] ELSE q[k - m]
    BY <1>1, <1>3, <1>4, <1>5, ConcatProperties DEF F
<1>7. DOMAIN out = 1 .. m /\ DOMAIN out' = 1 .. m + l
    BY <1>4, <1>6, LenProperties
<1>8. ASSUME NEW k \in DOMAIN out PROVE k \in DOMAIN out' /\ out'[k] = out[k]
    <2>1. k \in 1 .. m + l /\ k <= m
        BY <1>4, <1>5, <1>7
    <2> QED BY <2>1, <1>6, <1>7
<1>9. ASSUME NEW e \in F PROVE \E k \in DOMAIN out' : out'[k] = e
    <2>1. PICK j \in 1 .. l : q[j] = e
        BY <1>2, <1>5
    <2>2. PICK k : k = m + j
        OBVIOUS
    <2>3. k \in 1 .. m + l /\ ~(k <= m) /\ k - m = j
        BY <2>1, <2>2, <1>4, <1>5
    <2> QED BY <2>1, <2>3, <1>6, <1>7
<1>10. ASSUME NEW k \in DOMAIN out', k \notin DOMAIN out
       PROVE  k - m \in 1 .. l /\ out'[k] = q[k - m]
    <2>1. k \in 1 .. m + l /\ ~(k <= m) /\ k - m \in 1 .. l
        BY <1>4, <1>5, <1>7, <1>10
    <2> QED BY <2>1, <1>6
<1>11. ASSUME NEW k \in DOMAIN out', k \notin DOMAIN out PROVE out'[k] \in F
    BY <1>10, <1>11, <1>2, <1>5, ElementOfSeq
<1>12. ASSUME NEW j \in DOMAIN out', NEW k \in DOMAIN out', j < k, j \notin DOMAIN out
       PROVE  k \notin DOMAIN out /\ Older(out'[j], out'[k])
    <2>1. k \notin DOMAIN out /\ j - m < k - m
        BY <1>12, <1>4, <1>5, <1>7
    <2>2. j - m \in 1 .. l /\ k - m \in 1 .. l /\ out'[j] = q[j - m] /\ out'[k] = q[k - m]
        BY <2>1, <1>10, <1>12
    <2> QED BY <2>1, <2>2, <1>2, <1>5
<1> QED BY <1>0, <1>1, <1>2, <1>4, <1>5, <1>6, <1>8, <1>9, <1>11, <1>12 DEF Adds, F

\* Of the lines that a page repeats one is kept.
LEMMA PageIsKept ==
    ASSUME NEW page \in SUBSET LogEntries, Adds(page), NEW e \in page
    PROVE  Kept(e)'
<1>0. \A d \in page : d.time \in Int /\ d.nth \in 1 .. 3
    BY LogAssumption DEF LogEntries, LogEntry, Millis
<1>1. \A d : Kept(d) => Kept(d)'
    BY DEF Adds, Kept
<1>2. ASSUME NEW d \in Fresh(page) PROVE Kept(d)'
    BY DEF Adds, Kept, SameLine
<1>3. ASSUME NEW d, SameLine(d, e), Kept(d)' PROVE Kept(e)'
    BY <1>3 DEF Kept, SameLine, Text
<1>4. ASSUME ~Kept(e), NEW d \in page, SameLine(d, e), Older(d, e) PROVE Kept(d)'
    <2>1. d.time = e.time /\ d.nth < e.nth /\ Text(d) = Text(e)
        BY <1>0, <1>4 DEF SameLine, Older
    <2>2. ASSUME NEW c \in page, SameLine(c, d), Older(c, d) PROVE FALSE
        <3>1. c.nth < d.nth /\ Text(c) = Text(d) /\ c.nth \in 1 .. 3 /\ d.nth \in 1 .. 3
            BY <2>2, <1>0 DEF SameLine, Older
        <3> QED BY <3>1, <2>1, <1>0 DEF Text
    <2>3. Kept(d) \/ d \in Fresh(page)
        BY <2>2 DEF Fresh
    <2> QED BY <2>3, <1>1, <1>2
<1>5. CASE Kept(e)
    BY <1>5, <1>1
<1>6. CASE ~Kept(e) /\ e \in Fresh(page)
    BY <1>6, <1>2
<1>7. CASE ~Kept(e) /\ e \notin Fresh(page)
    <2>1. PICK d \in page : SameLine(d, e) /\ Older(d, e)
        BY <1>7 DEF Fresh
    <2> QED BY <2>1, <1>3, <1>4, <1>7
<1> QED BY <1>5, <1>6, <1>7

\* A window whose page is kept is newer than those that are left.
LEMMA CollectKeepsLogInv == LogInv /\ Collect => LogInv'
<1> SUFFICES ASSUME LogInv, Collect PROVE LogInv'
    OBVIOUS
<1>1. /\ logFetch.pc = "query" /\ logFetch.stack # <<>> /\ Ahead /\ log' = log
      /\ out \in Seq(LogEntries)
    BY DEF Collect, Query, LogInv
<1>2. PICK s : s \in Seq(Nat \X Nat) /\ s = logFetch.stack /\ s # <<>>
    BY <1>1 DEF LogInv
<1>3. PICK n : n \in Nat /\ n >= 1 /\ n = Len(s) /\ DOMAIN s = 1 .. n /\ Last(s) = s[n]
    <2>1. <<>> \in Seq(Nat \X Nat) /\ Len(s) \in Nat \ {0} /\ DOMAIN s = 1 .. Len(s)
        BY <1>2, EmptySeq, LenProperties
    <2>2. Len(s) \in Nat /\ Len(s) >= 1
        BY <2>1
    <2> QED BY <2>1, <2>2 DEF Last
<1>4. PICK w : w = s[n] /\ w = Last(s)
    BY <1>3
<1>5. /\ truncated' = (truncated \/ Full(w))
      /\ cutBy' = IF Full(w) THEN cutBy \cup {"narrow"} ELSE cutBy
      /\ \E page \in Pages(w) : out' = out \o OldestFirst(Fresh(page))
      /\ Query(<<>>)
    BY <1>2, <1>4 DEF Collect
<1>6. PICK page \in Pages(w) : out' = out \o OldestFirst(Fresh(page))
    BY <1>5
<1>7. page \subseteq Held(w) /\ page \in SUBSET LogEntries /\ (~Full(w) => page = Held(w))
    BY <1>6 DEF Pages, Held
<1>8. Adds(page)
    BY <1>1, <1>6, <1>7, PageIsAdded
<1>9. PICK t : t = Front(s) \o <<>>
    OBVIOUS
<1>10. /\ t \in Seq(Nat \X Nat) /\ Len(t) = n - 1 + 0
       /\ \A i \in 1 .. n - 1 : t[i] = s[i]
    <2>1. s \in Seq(Nat \X Nat) /\ s # <<>> /\ <<>> \in Seq(Nat \X Nat) /\ Len(<<>>) = 0
        BY <1>2, EmptySeq
    <2>2. TopReplaced(s, <<>>, t)
        BY <2>1, <1>9, Replaced, Zenon
    <2> QED BY <2>1, <2>2, <1>3 DEF TopReplaced
<1>11. DOMAIN t = 1 .. n - 1
    <2>1. n - 1 + 0 = n - 1
        BY <1>3
    <2> QED BY <2>1, <1>10, LenProperties
<1>12. logFetch'.stack = t /\ logFetch'.pc = "query"
       /\ logFetch' \in [pc: {"query", "sort", "print", "failed"}, queries: Nat,
                         stack: Seq(Nat \X Nat)]
    <2>1. logFetch' = [logFetch EXCEPT !.queries = @ + 1, !.stack = Front(@) \o <<>>]
        BY <1>5 DEF Query
    <2>2. logFetch' = [logFetch EXCEPT !.queries = logFetch.queries + 1, !.stack = t]
        BY <2>1, <1>2, <1>9 DEF LogInv
    <2>3. /\ logFetch \in [pc: {"query", "sort", "print", "failed"}, queries: Nat,
                           stack: Seq(Nat \X Nat)]
          /\ logFetch.queries + 1 \in Nat
        BY DEF LogInv
    <2> QED BY <2>2, <2>3, <1>1, <1>10
<1>13. ASSUME NEW i \in DOMAIN t
       PROVE  i \in DOMAIN s /\ t[i] = s[i] /\ i < n /\ n \in DOMAIN s
    <2>1. i \in 1 .. n - 1
        BY <1>11
    <2>2. i \in 1 .. n /\ i < n /\ n \in 1 .. n
        BY <2>1, <1>3
    <2> QED BY <2>1, <2>2, <1>3, <1>10
<1>14. ASSUME NEW e \in Held(w)
       PROVE  e.time \in Int /\ Milli(w[1]) <= e.time /\ e.time <= Milli(w[2])
    BY LogAssumption DEF Held, LogEntries, LogEntry, Millis
<1>15. Milli(w[1]) \in Nat /\ Milli(w[2]) \in Nat
    <2>1. n \in 1 .. Len(s)
        BY <1>3
    <2> QED BY <2>1, <1>2, <1>4, WindowTyped
<1>16. Fresh(page) \subseteq Held(w)
    BY <1>7 DEF Fresh
<1>17. ASSUME NEW i \in DOMAIN t, NEW k \in DOMAIN out' PROVE Milli(t[i][2]) < out'[k].time
    <2>1. CASE k \in DOMAIN out
        BY <2>1, <1>1, <1>2, <1>8, <1>13 DEF Ahead, Adds
    <2>2. CASE k \notin DOMAIN out
        <3>1. out'[k] \in Held(w)
            BY <2>2, <1>8, <1>16 DEF Adds
        <3>2. Milli(t[i][2]) < Milli(w[1])
            BY <1>1, <1>2, <1>4, <1>13 DEF Ahead
        <3>3. Milli(t[i][2]) \in Nat
            <4>1. i \in 1 .. Len(t)
                BY <1>10, LenProperties
            <4> QED BY <4>1, <1>10, WindowTyped
        <3> QED BY <3>1, <3>2, <3>3, <1>14, <1>15
    <2> QED BY <2>1, <2>2
<1>18. InPushOrder(out')
    <2> SUFFICES ASSUME NEW i \in DOMAIN out', NEW j \in DOMAIN out', i < j,
                        out'[i].time = out'[j].time
                 PROVE  out'[i].nth < out'[j].nth
        BY DEF InPushOrder
    <2>1. CASE i \in DOMAIN out /\ j \in DOMAIN out
        <3>1. out[i] = out'[i] /\ out[j] = out'[j]
            BY <2>1, <1>8 DEF Adds
        <3>2. InPushOrder(out)
            BY DEF LogInv
        <3>3. out[i].time = out[j].time => out[i].nth < out[j].nth
            BY <2>1, <3>2 DEF InPushOrder
        <3> QED BY <3>1, <3>3
    <2>2. CASE i \in DOMAIN out /\ j \notin DOMAIN out
        <3>1. out'[j] \in Held(w)
            BY <2>2, <1>8, <1>16 DEF Adds
        <3>2. Milli(w[2]) < out'[i].time
            <4>1. n \in DOMAIN s
                BY <1>3
            <4> QED BY <4>1, <2>2, <1>1, <1>2, <1>4, <1>8 DEF Ahead, Adds
        <3> QED BY <3>1, <3>2, <1>14, <1>15
    <2>3. CASE i \notin DOMAIN out
        <3>1. Older(out'[i], out'[j]) /\ out'[i] \in Held(w)
            BY <2>3, <1>8, <1>16 DEF Adds
        <3> QED BY <3>1, <1>14 DEF Older
    <2> QED BY <2>1, <2>2, <2>3
<1>19. LogEntries' = LogEntries /\ \A v : Held(v)' = Held(v)
    BY <1>1 DEF LogEntries, Held
<1>20. ASSUME cutBy' = {}, NEW e \in LogEntries
       PROVE  Kept(e)' \/ \E i \in DOMAIN t : e \in Held(t[i])
    <2>1. cutBy = {} /\ ~Full(w)
        BY <1>5, <1>20
    <2>2. Kept(e) \/ \E i \in DOMAIN s : e \in Held(s[i])
        BY <2>1, <1>1, <1>2 DEF Ahead
    <2>3. CASE Kept(e)
        BY <2>3, <1>8 DEF Kept, Adds
    <2>4. ASSUME NEW i \in DOMAIN s, e \in Held(s[i])
          PROVE  Kept(e)' \/ \E j \in DOMAIN t : e \in Held(t[j])
        <3>1. CASE i = n
            <4>1. e \in page
                BY <2>1, <2>4, <3>1, <1>4, <1>7
            <4> QED BY <4>1, <1>7, <1>8, PageIsKept
        <3>2. CASE i # n
            <4>1. i \in 1 .. n - 1
                BY <3>2, <1>3
            <4> QED BY <4>1, <2>4, <1>10, <1>11
        <3> QED BY <3>1, <3>2
    <2> QED BY <2>2, <2>3, <2>4
<1>21. Ahead'
    <2>1. cutBy' \subseteq {"narrow"}
        BY <1>1, <1>5 DEF Ahead
    <2>2. \A i, j \in DOMAIN logFetch'.stack :
             i < j => Milli(logFetch'.stack[i][2]) < Milli(logFetch'.stack[j][1])
        BY <1>1, <1>2, <1>12, <1>13 DEF Ahead
    <2>3. \A i \in DOMAIN logFetch'.stack, k \in DOMAIN out' :
             Milli(logFetch'.stack[i][2]) < out'[k].time
        BY <1>12, <1>17
    <2>4. cutBy' = {} => \A e \in LogEntries' :
             Kept(e)' \/ \E i \in DOMAIN logFetch'.stack : e \in Held(logFetch.stack[i])'
        <3>1. \A i : Held(logFetch.stack[i])' = Held(t[i])
            BY <1>1, <1>12 DEF Held, LogEntries
        <3> QED BY <3>1, <1>12, <1>19, <1>20
    <2> QED BY <2>1, <2>2, <2>3, <2>4 DEF Ahead, Milli
<1>22. /\ truncated' \in BOOLEAN /\ cutBy' \subseteq {"limit", "queries", "narrow"}
       /\ truncated' <=> cutBy' # {}
    <2>1. /\ truncated \in BOOLEAN /\ (truncated <=> cutBy # {})
          /\ cutBy \subseteq {"limit", "queries", "narrow"}
        BY DEF LogInv
    <2>2. Full(w) \in BOOLEAN
        BY DEF Full
    <2>3. CASE Full(w)
        BY <2>3, <1>5, <2>1
    <2>4. CASE ~Full(w)
        BY <2>4, <1>5, <2>1
    <2> QED BY <2>3, <2>4
<1>23. out' \in Seq(LogEntries')
    BY <1>8, <1>19 DEF Adds
<1>24. InPushOrder(out)'
    BY <1>18 DEF InPushOrder
<1> QED BY <1>1, <1>12, <1>21, <1>22, <1>23, <1>24 DEF LogInv

\* Giving up leaves the older windows.
LEMMA GivingUpKeepsInv ==
    LogInv /\ (OutOfBudget \/ QueryFails \/ AllVisited) => LogInv'
<1>1. ASSUME LogInv, OutOfBudget PROVE LogInv'
    <2>1. PICK why \in {"limit", "queries"} :
             /\ truncated' = TRUE /\ cutBy' = cutBy \cup {why}
             /\ logFetch' = [logFetch EXCEPT !.pc = "sort"]
             /\ log' = log /\ out' = out /\ logFetch.pc = "query"
        BY <1>1 DEF OutOfBudget, StopEarly
    <2>2. /\ LogEntries' = LogEntries /\ (InPushOrder(out)' <=> InPushOrder(out))
          /\ \A e : Kept(e)' <=> Kept(e)
        BY <2>1 DEF LogEntries, InPushOrder, Kept
    <2>3. Ahead /\ InPushOrder(out) /\ out \in Seq(LogEntries)
        BY <1>1, <2>1 DEF LogInv
    <2>4. ASSUME cutBy' \subseteq {"limit"}, NEW e \in LogEntries
          PROVE  Kept(e) \/ \A k \in DOMAIN out : e.time < out[k].time
        <3>1. cutBy = {}
            BY <2>1, <2>3, <2>4 DEF Ahead
        <3>2. ASSUME NEW i \in DOMAIN logFetch.stack, e \in Held(logFetch.stack[i]),
                     NEW k \in DOMAIN out
              PROVE  e.time < out[k].time
            <4>1. e.time <= Milli(logFetch.stack[i][2])
                BY <3>2 DEF Held
            <4>2. Milli(logFetch.stack[i][2]) < out[k].time
                BY <2>3, <3>2 DEF Ahead
            <4>3. e.time \in Int /\ out[k].time \in Int
                <5>1. \A d \in LogEntries : d.time \in Int
                    BY LogAssumption DEF LogEntries, LogEntry, Millis
                <5> QED BY <5>1, <2>3, LenProperties, ElementOfSeq
            <4>4. Milli(logFetch.stack[i][2]) \in Nat
                <5>1. PICK s : s \in Seq(Nat \X Nat) /\ s = logFetch.stack
                    BY <1>1 DEF LogInv
                <5>2. i \in 1 .. Len(s)
                    BY <5>1, <3>2, LenProperties
                <5> QED BY <5>1, <5>2, WindowTyped
            <4> QED BY <4>1, <4>2, <4>3, <4>4
        <3> QED BY <3>1, <3>2, <2>3 DEF Ahead
    <2>5. Closed'
        <3>1. cutBy' # {}
            BY <2>1
        <3> QED BY <3>1, <2>1, <2>2, <2>4 DEF Closed
    <2>6. logFetch' \in [pc: {"query", "sort", "print", "failed"}, queries: Nat,
                         stack: Seq(Nat \X Nat)] /\ logFetch'.pc = "sort"
        BY <1>1, <2>1 DEF LogInv
    <2>7. cutBy' \subseteq {"limit", "queries", "narrow"} /\ truncated' /\ cutBy' # {}
        BY <1>1, <2>1 DEF LogInv
    <2> QED BY <1>1, <2>1, <2>2, <2>3, <2>5, <2>6, <2>7 DEF LogInv
<1>2. ASSUME LogInv, QueryFails PROVE LogInv'
    <2>1. /\ logFetch' = [logFetch EXCEPT !.pc = "failed"] /\ out' = <<>>
          /\ log' = log /\ truncated' = truncated /\ cutBy' = cutBy
        BY <1>2 DEF QueryFails
    <2>2. logFetch' \in [pc: {"query", "sort", "print", "failed"}, queries: Nat,
                         stack: Seq(Nat \X Nat)] /\ logFetch'.pc = "failed"
        BY <1>2, <2>1 DEF LogInv
    <2>3. InPushOrder(out)' /\ out' \in Seq(LogEntries')
        BY <2>1 DEF InPushOrder
    <2> QED BY <1>2, <2>1, <2>2, <2>3 DEF LogInv
<1>3. ASSUME LogInv, AllVisited PROVE LogInv'
    <2>1. /\ logFetch' = [logFetch EXCEPT !.pc = "sort"] /\ logFetch.stack = <<>>
          /\ log' = log /\ truncated' = truncated /\ cutBy' = cutBy /\ out' = out
          /\ logFetch.pc = "query"
        BY <1>3 DEF AllVisited
    <2>2. /\ LogEntries' = LogEntries /\ (InPushOrder(out)' <=> InPushOrder(out))
          /\ \A e : Kept(e)' <=> Kept(e)
        BY <2>1 DEF LogEntries, InPushOrder, Kept
    <2>3. Ahead
        BY <1>3, <2>1 DEF LogInv
    <2>4. Closed'
        <3>1. ASSUME cutBy \subseteq {"limit"} PROVE cutBy = {}
            BY <3>1, <2>3 DEF Ahead
        <3>2. DOMAIN logFetch.stack = {}
            BY <2>1
        <3>3. cutBy = {} => \A e \in LogEntries : Kept(e)
            BY <2>3, <3>2 DEF Ahead
        <3> QED BY <2>1, <2>2, <3>1, <3>3 DEF Closed
    <2>5. logFetch' \in [pc: {"query", "sort", "print", "failed"}, queries: Nat,
                         stack: Seq(Nat \X Nat)] /\ logFetch'.pc = "sort"
        BY <1>3, <2>1 DEF LogInv
    <2> QED BY <1>3, <2>1, <2>2, <2>4, <2>5 DEF LogInv
<1> QED BY <1>1, <1>2, <1>3

\* What is printed is the newest part of what was kept, in order.
LEMMA SortKeepsInv == LogInv /\ SortAndTrim => LogInv'
<1> SUFFICES ASSUME LogInv, SortAndTrim PROVE LogInv'
    OBVIOUS
<1>1. /\ logFetch.pc = "sort" /\ logFetch' = [logFetch EXCEPT !.pc = "print"] /\ log' = log
      /\ Closed /\ InPushOrder(out) /\ out \in Seq(LogEntries)
    BY DEF SortAndTrim, LogInv
<1>2. PICK t : t = StableSorted(out)
    OBVIOUS
<1>3. PICK n : n \in Nat /\ n = Len(out) /\ DOMAIN out = 1 .. n
    BY <1>1, LenProperties
<1>4. /\ t \in Seq(LogEntry) /\ Len(t) = n
      /\ \A k \in 1 .. n : \E i \in 1 .. n : t[k] = out[i]
      /\ \A i \in 1 .. n : \E k \in 1 .. n : t[k] = out[i]
      /\ \A j, k \in 1 .. n : j < k => Older(t[j], t[k])
    <2>1. out \in Seq(LogEntry)
        <3>1. out \in [1 .. n -> LogEntries] /\ LogEntries \subseteq LogEntry
            BY <1>1, <1>3, LenProperties DEF LogEntries
        <3> QED BY <3>1, <1>3
    <2> QED BY <2>1, <1>1, <1>2, <1>3, StableSortedOrders
<1>5. PICK cut : /\ cut \in 0 .. n /\ (cut # 0 <=> n > Limit)
                 /\ cut = IF n > Limit THEN n - Limit ELSE 0
    <2>1. Limit \in Nat
        BY LogAssumption
    <2> QED BY <2>1, <1>3
<1>6. ASSUME NEW k \in 1 .. n PROVE t[k] \in LogEntries
    BY <1>1, <1>3, <1>4, ElementOfSeq
<1>7. /\ out' \in Seq(LogEntries) /\ DOMAIN out' = 1 .. n - cut
      /\ \A k \in 1 .. n - cut : out'[k] = t[cut + k] /\ cut + k \in 1 .. n
    <2>0. Limit \in Nat /\ Limit >= 1
        BY LogAssumption
    <2>1. CASE n > Limit
        <3>1. out' = SubSeq(t, n - Limit + 1, n)
            BY <2>1, <1>2, <1>4 DEF SortAndTrim
        <3>2. PICK a : a \in Int /\ a = n - Limit + 1 /\ a >= 1 /\ a <= n /\ cut = a - 1
            <4>1. cut = n - Limit
                BY <2>1, <1>5
            <4>2. n \in Nat
                BY <1>3
            <4>3. /\ (n - Limit) + 1 \in Int /\ (n - Limit) + 1 >= 1 /\ (n - Limit) + 1 <= n
                  /\ cut = ((n - Limit) + 1) - 1
                BY ONLY <4>1, <4>2, <2>0, <2>1
            <4> QED BY <4>3
        <3>3. \A k \in a .. n : t[k] \in LogEntries
            BY <3>2, <1>3, <1>6
        <3>4. /\ SubSeq(t, a, n) \in Seq(LogEntries)
              /\ Len(SubSeq(t, a, n)) = IF a <= n THEN n - a + 1 ELSE 0
              /\ \A k \in 1 .. n - a + 1 : SubSeq(t, a, n)[k] = t[a + k - 1]
            BY <3>2, <3>3, <1>3, SubSeqProperties
        <3>5. n - a + 1 = n - cut /\ \A k \in 1 .. n - cut : a + k - 1 = cut + k
            BY <3>2, <1>3
        <3>6. \A k \in 1 .. n - cut : cut + k \in 1 .. n
            BY <3>2, <1>3
        <3>7. out' = SubSeq(t, a, n)
            BY <3>1, <3>2
        <3>8. /\ out' \in Seq(LogEntries) /\ Len(out') = n - cut
              /\ \A k \in 1 .. n - cut : out'[k] = t[cut + k]
            BY <3>2, <3>4, <3>5, <3>7
        <3> QED BY <3>6, <3>8, LenProperties
    <2>2. CASE ~(n > Limit)
        <3>1. out' = t /\ cut = 0
            BY <2>2, <1>2, <1>4, <1>5 DEF SortAndTrim
        <3>2. n - 0 = n /\ \A k \in 1 .. n : 0 + k = k
            BY <1>3
        <3>3. t \in Seq(LogEntries) /\ DOMAIN t = 1 .. n
            <4>1. t \in [1 .. n -> LogEntries]
                <5>1. t \in [1 .. n -> LogEntry]
                    BY <1>4, LenProperties
                <5> QED BY <5>1, <1>6
            <4> QED BY <4>1, <1>3
        <3> QED BY <3>1, <3>2, <3>3
    <2> QED BY <2>1, <2>2
<1>8. \A e \in LogEntries : e.time \in Int /\ e.nth \in Int
                            /\ e = [time |-> e.time, nth |-> e.nth]
    BY LogAssumption DEF LogEntries, LogEntry, Millis
<1>9. ASSUME NEW i \in DOMAIN out', NEW j \in DOMAIN out', i < j
      PROVE  Older(out'[i], out'[j])
    <2>1. cut + i \in 1 .. n /\ cut + j \in 1 .. n /\ out'[i] = t[cut + i] /\ out'[j] = t[cut + j]
        BY <1>7
    <2>2. cut + i < cut + j
        BY <1>9, <1>3, <1>5, <1>7
    <2> QED BY <2>1, <2>2, <1>4
<1>10. LogEntries' = LogEntries /\ DistinctLines' = DistinctLines
    BY <1>1 DEF LogEntries, DistinctLines
<1>11. ASSUME NEW e \in Missing', cutBy' \subseteq {"limit"},
              NEW i \in DOMAIN out'
       PROVE  Older(e, out'[i])
    <2>1. /\ e \in LogEntries /\ \A d \in LogEntries : ~(SameLine(d, e) /\ Older(d, e))
          /\ \A k \in DOMAIN out' : ~SameLine(out'[k], e)
        <3>1. e \in DistinctLines' /\ \A d \in Printed' : ~SameLine(d, e)
            BY <1>11 DEF Missing, SameLine, Text
        <3> QED BY <3>1, <1>10 DEF DistinctLines, Printed
    <2>2. cutBy \subseteq {"limit"}
        <3>1. cutBy \subseteq cutBy'
            BY DEF SortAndTrim
        <3> QED BY <3>1, <1>11
    <2>3. out'[i] \in LogEntries /\ cut + i \in 1 .. n /\ out'[i] = t[cut + i]
        BY <1>6, <1>7
    <2>4. CASE Kept(e)
        <3>1. PICK j \in 1 .. n : SameLine(t[j], e)
            BY <2>4, <1>3, <1>4 DEF Kept
        <3>2. t[j] \in LogEntries
            BY <1>6
        <3>3. t[j] = e \/ Older(e, t[j])
            BY <2>1, <3>1, <3>2, <1>8 DEF SameLine, Older
        <3>4. j <= cut
            <4>1. CASE j > cut
                <5>1. j - cut \in 1 .. n - cut /\ cut + (j - cut) = j
                    BY <4>1, <1>3, <1>5
                <5>2. out'[j - cut] = t[j] /\ j - cut \in DOMAIN out'
                    BY <5>1, <1>7
                <5> QED BY <5>2, <2>1, <3>1
            <4> QED BY <4>1, <1>3, <1>5
        <3>5. j < cut + i
            BY <3>4, <1>3, <1>5, <1>7
        <3>6. Older(t[j], out'[i])
            BY <3>5, <2>3, <1>4
        <3> QED BY <3>2, <3>3, <3>6, <2>1, <2>3, <1>8 DEF Older
    <2>5. CASE ~Kept(e)
        <3>1. \A k \in DOMAIN out : e.time < out[k].time
            BY <2>1, <2>2, <2>5, <1>1 DEF Closed
        <3>2. PICK k \in 1 .. n : out'[i] = out[k]
            <4>1. PICK c \in 1 .. n : out'[i] = t[c]
                BY <2>3
            <4>2. \A j \in 1 .. n : \E k \in 1 .. n : t[j] = out[k]
                BY <1>4
            <4>3. PICK k \in 1 .. n : t[c] = out[k]
                BY <4>1, <4>2, Zenon
            <4> QED BY <4>1, <4>3
        <3> QED BY <3>1, <3>2, <1>3 DEF Older
    <2> QED BY <2>4, <2>5
<1>12. ASSUME ~truncated' PROVE Missing' = {}
    <2>1. cutBy = {} /\ cut = 0
        <3>1. ~truncated /\ ~(n > Limit)
            BY <1>12, <1>2, <1>4 DEF SortAndTrim
        <3> QED BY <3>1, <1>5 DEF LogInv
    <2> SUFFICES ASSUME NEW e \in Missing' PROVE FALSE
        OBVIOUS
    <2>2. e \in LogEntries /\ \A k \in DOMAIN out' : ~SameLine(out'[k], e)
        <3>1. e \in DistinctLines' /\ \A d \in Printed' : ~SameLine(d, e)
            BY DEF Missing, SameLine, Text
        <3> QED BY <3>1, <1>10 DEF DistinctLines, Printed
    <2>3. Kept(e)
        BY <2>1, <2>2, <1>1 DEF Closed
    <2>4. PICK j \in 1 .. n : SameLine(t[j], e)
        BY <2>3, <1>3, <1>4 DEF Kept
    <2>5. j \in 1 .. n - cut /\ cut + j = j
        BY <2>1, <1>3
    <2>6. out'[j] = t[j] /\ j \in DOMAIN out'
        BY <2>5, <1>7
    <2> QED BY <2>2, <2>4, <2>6
<1>13. LogTailIsHonest'
    <2>1. NothingLostUnsaid'
        BY <1>12 DEF NothingLostUnsaid
    <2>2. \A i, j \in DOMAIN out' : i < j => Older(out'[i], out'[j])
        BY <1>9
    <2>3. cutBy' = {"limit"} => \A e \in Missing', d \in Printed' : Older(e, d)
        <3>1. \A d \in Printed' : \E i \in DOMAIN out' : d = out'[i]
            BY DEF Printed
        <3> QED BY <3>1, <1>11
    <2> QED BY <2>1, <2>2, <2>3 DEF LogTailIsHonest, TailInOrder, Older
<1>14. InPushOrder(out)'
    <2>1. \A i, j \in DOMAIN out' : i < j /\ out'[i].time = out'[j].time
                                      => out'[i].nth < out'[j].nth
        <3> SUFFICES ASSUME NEW i \in DOMAIN out', NEW j \in DOMAIN out', i < j,
                            out'[i].time = out'[j].time
                     PROVE  out'[i].nth < out'[j].nth
            OBVIOUS
        <3>1. Older(out'[i], out'[j]) /\ out'[i] \in LogEntries /\ out'[j] \in LogEntries
            BY <1>9, <1>7, <1>6
        <3> QED BY <3>1, <1>8 DEF Older
    <2> QED BY <2>1 DEF InPushOrder
<1>15. /\ truncated' \in BOOLEAN /\ cutBy' \subseteq {"limit", "queries", "narrow"}
       /\ truncated' <=> cutBy' # {}
    BY DEF SortAndTrim, LogInv
<1>16. logFetch' \in [pc: {"query", "sort", "print", "failed"}, queries: Nat,
                      stack: Seq(Nat \X Nat)] /\ logFetch'.pc = "print"
    BY <1>1 DEF LogInv
<1> QED BY <1>1, <1>7, <1>10, <1>13, <1>14, <1>15, <1>16 DEF LogInv

LEMMA LogInvStep == LogInv /\ [LogNext]_logVars => LogInv'
<1> SUFFICES ASSUME LogInv, [LogNext]_logVars PROVE LogInv'
    OBVIOUS
<1>1. CASE UNCHANGED logVars
    <2>1. /\ log' = log /\ logFetch' = logFetch /\ out' = out /\ truncated' = truncated
          /\ cutBy' = cutBy
        BY <1>1 DEF logVars
    <2>2. /\ LogEntries' = LogEntries /\ (\A e : Kept(e)' <=> Kept(e))
          /\ (InPushOrder(out)' <=> InPushOrder(out))
        BY <2>1 DEF LogEntries, Kept, InPushOrder
    <2>3. \A i : Held(logFetch.stack[i])' = Held(logFetch.stack[i])
        BY <2>1 DEF Held, LogEntries
    <2>4. Ahead => Ahead'
        BY <2>1, <2>2, <2>3 DEF Ahead, Milli
    <2>5. Closed => Closed'
        BY <2>1, <2>2 DEF Closed
    <2>6. Missing' = Missing /\ Printed' = Printed
        BY <2>1 DEF Missing, DistinctLines, LogEntries, Printed
    <2>7. LogTailIsHonest => LogTailIsHonest'
        BY <2>1, <2>6 DEF LogTailIsHonest, NothingLostUnsaid, TailInOrder
    <2> QED BY <2>1, <2>2, <2>4, <2>5, <2>7 DEF LogInv
<1> QED BY <1>1, SplitKeepsInv, CollectKeepsLogInv, GivingUpKeepsInv, SortKeepsInv DEF LogNext

\* At first there is one window, of the whole log.
LEMMA InitBudgeted == LogInit => Budgeted
<1> SUFFICES ASSUME LogInit PROVE Budgeted
    OBVIOUS
<1>1. PICK offset \in 0 .. SubMillis - 1 :
         logFetch = [pc |-> "query", queries |-> 0,
                     stack |-> << <<offset, SubMillis * (LastMilli + 1) + offset>> >>]
    BY DEF LogInit
<1>2. PICK a : a = SubMillis * (LastMilli + 1) /\ a \in Nat
    BY LogAssumption
<1>3. SubMillis * (LastMilli + 2) = a + SubMillis /\ SubMillis * (LastMilli + 3) = a + SubMillis + SubMillis
    BY <1>2, LogAssumption
<1>4. offset < a + SubMillis + SubMillis /\ a + offset < a + SubMillis
    BY <1>2, LogAssumption
<1>5. logFetch.queries \in 0 .. MaxQueries
    BY <1>1, LogAssumption
<1>6. DOMAIN logFetch.stack = {1} /\ logFetch.stack[1] = <<offset, a + offset>>
    BY <1>1, <1>2
<1> QED BY <1>3, <1>4, <1>5, <1>6 DEF Budgeted

\* A query takes the top window away, and puts the halves of a wide one in its place.
LEMMA BudgetStep == LogInv /\ Budgeted /\ [LogNext]_logVars => Budgeted'
<1> SUFFICES ASSUME LogInv, Budgeted, [LogNext]_logVars PROVE Budgeted'
    OBVIOUS
<1> DEFINE NearLog(w) == w[1] < SubMillis * (LastMilli + 3) /\ w[2] < SubMillis * (LastMilli + 2)
<1>1. PICK s : s = logFetch.stack /\ s \in Seq(Nat \X Nat)
    BY DEF LogInv
<1>2. \A i \in 1 .. Len(s) : NearLog(s[i])
    BY <1>1, LenProperties DEF Budgeted
<1>3. ASSUME NEW r \in Seq(Nat \X Nat), Query(r), \A i \in 1 .. Len(r) : NearLog(r[i])
      PROVE  Budgeted'
    <2>1. /\ s # <<>> /\ logFetch.queries < MaxQueries
          /\ logFetch' = [logFetch EXCEPT !.queries = @ + 1, !.stack = Front(@) \o r]
        BY <1>1, <1>3 DEF Query
    <2>2. PICK t : t = Front(s) \o r
        OBVIOUS
    <2>3. logFetch'.stack = t /\ logFetch'.queries = logFetch.queries + 1
        BY <2>1, <2>2, <1>1 DEF LogInv
    <2>4. TopReplaced(s, r, t)
        BY <1>1, <1>3, <2>1, <2>2, Replaced, Zenon
    <2>5. PICK n : n \in Nat /\ n >= 1 /\ n = Len(s)
        BY <2>4 DEF TopReplaced
    <2>6. PICK m : m \in Nat /\ m = Len(r)
        BY LenProperties
    <2>7. DOMAIN t = 1 .. Len(t) /\ Len(t) = n - 1 + m
        BY <2>4, <2>5, <2>6, LenProperties DEF TopReplaced
    <2>8. ASSUME NEW i \in DOMAIN t PROVE NearLog(t[i])
        <3>1. i \in 1 .. n - 1 + m
            BY <2>7
        <3>2. CASE i <= n - 1
            <4>1. i \in 1 .. n - 1 /\ i \in 1 .. n
                BY <3>1, <3>2, <2>5, <2>6
            <4>2. t[i] = s[i]
                BY <4>1, <2>4, <2>5 DEF TopReplaced
            <4>3. NearLog(s[i])
                BY <4>1, <1>2, <2>5
            <4> QED BY <4>2, <4>3
        <3>3. CASE ~(i <= n - 1)
            <4>1. PICK j : j = i - (n - 1)
                OBVIOUS
            <4>2. j \in 1 .. m /\ n - 1 + j = i
                BY <3>1, <3>3, <4>1, <2>5, <2>6
            <4>3. t[i] = r[j]
                BY <4>2, <2>4, <2>5, <2>6 DEF TopReplaced
            <4>4. NearLog(r[j])
                BY <4>2, <1>3, <2>6
            <4> QED BY <4>3, <4>4
        <3> QED BY <3>2, <3>3
    <2>9. logFetch'.queries \in 0 .. MaxQueries
        BY <2>1, <2>3, LogAssumption DEF Budgeted
    <2> QED BY <2>3, <2>8, <2>9 DEF Budgeted
<1>4. CASE Split
    <2>1. PICK w : w = Last(s) /\ Wide(w) /\ s # <<>>
                   /\ Query(Halves(w, w[1] + (w[2] - w[1]) \div 2))
        BY <1>1, <1>4 DEF Split
    <2>2. Last(s) = s[Len(s)] /\ Len(s) \in 1 .. Len(s)
        BY <1>1, <2>1 DEF Last
    <2>3. w \in Nat \X Nat /\ NearLog(w) /\ w[1] \in Nat /\ w[2] \in Nat
        <3>1. s[Len(s)] \in Nat \X Nat
            BY <1>1, <2>2, ElementOfSeq
        <3> QED BY <3>1, <1>2, <2>1, <2>2
    <2>4. PICK mid : mid \in Nat /\ mid = w[1] + (w[2] - w[1]) \div 2
        BY <2>1, <2>3, Middle
    <2>5. mid < w[2]
        <3>1. MinWindow * SubMillis \in Nat
            BY LogAssumption
        <3>2. w[2] - w[1] > MinWindow * SubMillis
            BY <2>1 DEF Wide
        <3> QED BY <3>1, <3>2, <2>3, <2>4
    <2>6. PICK a : a = SubMillis * (LastMilli + 2) /\ a \in Nat
        BY LogAssumption
    <2>7. SubMillis * (LastMilli + 3) = a + SubMillis
        BY <2>6, LogAssumption
    <2>8. /\ w[1] < a + SubMillis /\ mid < a
          /\ mid + SubMillis < a + SubMillis /\ w[2] < a
        <3>1. w[1] < a + SubMillis /\ w[2] < a
            BY <2>3, <2>6, <2>7
        <3> QED BY <3>1, <2>3, <2>4, <2>5, <2>6, LogAssumption
    <2>9. PICK r : r = Halves(w, mid)
        OBVIOUS
    <2>10. /\ r \in Seq(Nat \X Nat) /\ Len(r) = 2
           /\ r[1] = <<w[1], mid>> /\ r[2] = <<mid + SubMillis, w[2]>>
        <3>1. mid + SubMillis \in Nat
            BY <2>4, LogAssumption
        <3>2. <<w[1], mid>> \in Nat \X Nat /\ <<mid + SubMillis, w[2]>> \in Nat \X Nat
            BY <3>1, <2>3, <2>4
        <3> QED BY <3>2, <2>9 DEF Halves
    <2>11. \A i \in 1 .. Len(r) : NearLog(r[i])
        <3>1. NearLog(r[1]) /\ NearLog(r[2])
            BY <2>6, <2>7, <2>8, <2>10
        <3> QED BY <3>1, <2>10
    <2>12. Query(r)
        BY <2>1, <2>4, <2>9
    <2> HIDE DEF NearLog
    <2> QED BY <2>10, <2>11, <2>12, <1>3
<1>5. CASE Collect
    <2>1. Query(<<>>)
        BY <1>5 DEF Collect
    <2>2. <<>> \in Seq(Nat \X Nat) /\ \A i \in 1 .. Len(<<>>) : NearLog(<<>>[i])
        OBVIOUS
    <2> HIDE DEF NearLog
    <2> QED BY <2>1, <2>2, <1>3
<1>6. CASE OutOfBudget \/ QueryFails \/ AllVisited \/ SortAndTrim \/ UNCHANGED logVars
    <2>1. logFetch'.stack = logFetch.stack /\ logFetch'.queries = logFetch.queries
        BY <1>6 DEF LogInv, OutOfBudget, StopEarly, QueryFails, AllVisited, SortAndTrim, logVars
    <2> QED BY <2>1 DEF Budgeted
<1> QED BY <1>4, <1>5, <1>6 DEF LogNext

LEMMA LogInvariant == LogSpec => [](LogInv /\ Budgeted)
BY InitLogInv, InitBudgeted, LogInvStep, BudgetStep, PTL DEF LogSpec

\* What `logs` prints is honest.
LEMMA LogsHonest == LogSpec => []LogTailIsHonest
<1>1. LogInv => LogTailIsHonest
    BY DEF LogInv, LogTailIsHonest, NothingLostUnsaid, TailInOrder
<1> QED BY LogInvariant, <1>1, PTL

LEMMA LogTyped == LogSpec => []LogTypeOK
<1>1. LogInv /\ Budgeted => LogTypeOK
    <2> SUFFICES ASSUME LogInv, Budgeted PROVE LogTypeOK
        OBVIOUS
    <2>1. ASSUME NEW i \in DOMAIN logFetch.stack
          PROVE  logFetch.stack[i] \in (0 .. SubMillis * (LastMilli + 3)) \X Nat
        <3>1. logFetch.stack \in Seq(Nat \X Nat)
            BY DEF LogInv
        <3>2. PICK w : w = logFetch.stack[i] /\ w \in Nat \X Nat
            BY <3>1, LenProperties, ElementOfSeq
        <3>3. w = <<w[1], w[2]>> /\ w[1] \in Nat /\ w[2] \in Nat
            BY <3>2
        <3>4. SubMillis * (LastMilli + 3) \in Nat /\ w[1] < SubMillis * (LastMilli + 3)
            BY <3>2, LogAssumption DEF Budgeted
        <3>5. w[1] \in 0 .. SubMillis * (LastMilli + 3)
            BY <3>3, <3>4
        <3> QED BY <3>2, <3>3, <3>5
    <2>2. \A i \in DOMAIN out : out[i] \in LogEntries
        BY LenProperties, ElementOfSeq DEF LogInv
    <2> QED BY <2>1, <2>2 DEF LogInv, Budgeted, LogTypeOK
<1> QED BY LogInvariant, <1>1, PTL
-----------------------------------------------------------------------------
(***************************************************************************)
(* `logs --follow` prints a line once, unless its memory is too small.     *)
(***************************************************************************)
\* What was printed in the poll of r or later.
Since(r) == {q \in recent : q.poll >= r.poll}

\* r's line is in the memory, and what comes after it was printed since.
Remembered(r) ==
    \E k \in DOMAIN seenOrder :
        seenOrder[k] = r.line /\ Len(seenOrder) - k < Cardinality(Since(r))

FollowInv ==
    /\ pollNo \in 0 .. MaxPolls /\ crowded \in BOOLEAN /\ again \in BOOLEAN
    /\ cutShort \subseteq asked /\ asked \subseteq LogGroups
    /\ DOMAIN lines = LogGroups
    /\ \A g \in LogGroups : /\ IsFiniteSet(lines[g])
                            /\ \A e \in lines[g] : /\ e \in LogLines /\ e.group = g
                                                   /\ e.id <= pollNo /\ e.time <= pollNo
    /\ seenOrder \in Seq(LogLines) /\ Len(seenOrder) <= SeenCap
    /\ \A e \in ToSet(seenOrder) : e.id <= pollNo
    /\ IsFiniteSet(recent)
    /\ \A r \in recent : /\ r \in [line: LogLines, poll: Nat]
                         /\ r.poll > pollNo - Window /\ r.poll <= pollNo
                         /\ r.line.time <= r.poll
    /\ \A g \in LogGroups : lines[g] \cap ToSet(seenOrder) \subseteq PrintedLines
    /\ crowded \/ (~again /\ \A r \in recent : Remembered(r))
    /\ LateLinesAreShown

\* Nothing is printed at first.
LEMMA InitFollowInv == FollowInit => FollowInv
<1> SUFFICES ASSUME FollowInit PROVE FollowInv
    OBVIOUS
<1>1. /\ pollNo = 0 /\ crowded = FALSE /\ again = FALSE /\ asked = {} /\ cutShort = {} /\ recent = {}
      /\ seenOrder = <<>> /\ lines = [g \in LogGroups |-> {}]
    BY DEF FollowInit
<1>2. ToSet(seenOrder) = {} /\ seenOrder \in Seq(LogLines)
    BY <1>1 DEF ToSet
<1>3. IsFiniteSet({})
    BY FS_EmptySet
<1>4. LateLinesAreShown
    BY <1>1 DEF LateLinesAreShown
<1>5. pollNo \in 0 .. MaxPolls /\ Len(seenOrder) <= SeenCap
    BY <1>1, FollowAssumption
<1> QED BY <1>1, <1>2, <1>3, <1>4, <1>5 DEF FollowInv

\* A batch is a finite number of lines.
LEMMA BatchTyped ==
    ASSUME NEW g \in LogGroups, NEW t \in 1 .. MaxPolls, NEW n \in Nat, NEW late
    PROVE  /\ IsFiniteSet(Batch(g, t, n, late))
           /\ \A e \in Batch(g, t, n, late) :
                 e \in LogLines /\ e.group = g /\ e.id = t /\ e.time <= t
<1> DEFINE time == IF late THEN t - 2 ELSE t
           f == [k \in 1 .. n |-> [group |-> g, id |-> t, part |-> k, time |-> time]]
<1>1. time \in Int /\ time <= t
    OBVIOUS
<1> HIDE DEF time
<1>2. Batch(g, t, n, late) = {f[k] : k \in 1 .. n}
    BY DEF Batch, time
<1>3. f \in Surjection(1 .. n, {f[k] : k \in 1 .. n})
    BY DEF Surjection
<1>4. IsFiniteSet(1 .. n)
    <2>1. 1 \in Int /\ n \in Int
        OBVIOUS
    <2> QED BY <2>1, FS_Interval
<1>5. IsFiniteSet(Batch(g, t, n, late))
    <2> HIDE DEF f
    <2> QED BY <1>2, <1>3, <1>4, FS_Surjection
<1>6. ASSUME NEW e \in Batch(g, t, n, late)
      PROVE  e \in LogLines /\ e.group = g /\ e.id = t /\ e.time <= t
    <2>1. PICK k \in 1 .. n : e = [group |-> g, id |-> t, part |-> k, time |-> time]
        BY <1>2
    <2> QED BY <2>1, <1>1 DEF LogLines
<1> QED BY <1>5, <1>6

\* The lines of a poll are printed each once.
LEMMA PrintOrderLists ==
    ASSUME NEW S \in SUBSET LogLines, IsFiniteSet(S)
    PROVE  /\ InPrintOrder(S) \in Seq(LogLines) /\ Cardinality(S) \in Nat
           /\ Len(InPrintOrder(S)) = Cardinality(S) /\ ToSet(InPrintOrder(S)) = S
<1> DEFINE before == [e \in S |-> {d \in S : Before(d, e)}]
<1>1. PICK s : s = InOrder(S, before)
    OBVIOUS
<1>2. \A e \in S : /\ e.group \in Int /\ e.time \in Int /\ e.id \in Int /\ e.part \in Int
                   /\ e = [group |-> e.group, id |-> e.id, part |-> e.part, time |-> e.time]
    BY DEF LogLines, LogGroups
<1>3. OrdersAll(S, before)
    <2>1. before \in [S -> SUBSET S] /\ \A e \in S : e \notin before[e]
        BY <1>2 DEF Before
    <2>2. ASSUME NEW d \in S, NEW e \in S, d \in before[e] PROVE before[d] \subseteq before[e]
        BY <2>2, <1>2 DEF Before
    <2>3. ASSUME NEW d \in S, NEW e \in S PROVE d = e \/ d \in before[e] \/ e \in before[d]
        BY <1>2 DEF Before
    <2> QED BY <2>1, <2>2, <2>3 DEF OrdersAll
<1>4. s = InPrintOrder(S)
    BY <1>1 DEF InPrintOrder
<1> HIDE DEF before
<1>5. /\ Cardinality(S) \in Nat /\ s \in [1 .. Cardinality(S) -> S]
      /\ \A e \in S : \E k \in 1 .. Cardinality(S) : s[k] = e
    BY <1>1, <1>3, InOrderLists
<1>6. s \in Seq(LogLines) /\ Len(s) = Cardinality(S) /\ DOMAIN s = 1 .. Cardinality(S)
    BY <1>5
<1>7. ToSet(s) = S
    BY <1>5, <1>6 DEF ToSet
<1> QED BY <1>4, <1>5, <1>6, <1>7

\* Forgetting the oldest keeps the last SeenCap, in their places from the end.
LEMMA ForgetKeepsNewest ==
    ASSUME NEW s \in Seq(LogLines)
    PROVE  /\ ForgetOldest(s) \in Seq(LogLines) /\ ToSet(ForgetOldest(s)) \subseteq ToSet(s)
           /\ Len(ForgetOldest(s)) <= SeenCap
           /\ \A k \in DOMAIN s : Len(s) - k < SeenCap =>
                 \E j \in DOMAIN ForgetOldest(s) :
                    /\ ForgetOldest(s)[j] = s[k]
                    /\ Len(ForgetOldest(s)) - j = Len(s) - k
<1>1. PICK n : n \in Nat /\ n = Len(s) /\ DOMAIN s = 1 .. n
    BY LenProperties
<1>2. SeenCap \in Nat
    BY FollowAssumption
<1>3. CASE n > SeenCap
    <2>1. PICK a : a \in Int /\ a = n - SeenCap + 1 /\ a >= 1 /\ a <= n + 1
        <3>1. /\ n - SeenCap + 1 \in Int /\ n - SeenCap + 1 >= 1
              /\ n - SeenCap + 1 <= n + 1
            BY ONLY <1>1, <1>2, <1>3
        <3> QED BY <3>1
    <2>2. PICK u : u = ForgetOldest(s) /\ u = SubSeq(s, a, n)
        BY <1>1, <1>3, <2>1 DEF ForgetOldest
    <2>3. \A k \in a .. n : s[k] \in LogLines /\ k \in 1 .. n
        BY <1>1, <2>1, ElementOfSeq
    <2>4. /\ u \in Seq(LogLines) /\ Len(u) = IF a <= n THEN n - a + 1 ELSE 0
          /\ \A k \in 1 .. n - a + 1 : u[k] = s[a + k - 1]
        BY <1>1, <2>1, <2>2, <2>3, SubSeqProperties
    <2>5. (IF a <= n THEN n - a + 1 ELSE 0) = SeenCap /\ n - a + 1 = SeenCap
        BY <1>1, <1>2, <2>1
    <2>6. Len(u) = SeenCap /\ DOMAIN u = 1 .. SeenCap
        BY <2>4, <2>5, LenProperties
    <2>7. \A k \in 1 .. SeenCap : u[k] = s[a + k - 1] /\ a + k - 1 \in 1 .. n
        <3>1. \A k \in 1 .. SeenCap : a + k - 1 \in 1 .. n
            BY ONLY <1>1, <1>2, <2>1
        <3> QED BY <3>1, <2>4, <2>5
    <2>8. ToSet(u) \subseteq ToSet(s)
        BY <1>1, <2>6, <2>7 DEF ToSet
    <2>9. ASSUME NEW k \in 1 .. n, n - k < SeenCap
          PROVE  \E j \in DOMAIN u : u[j] = s[k] /\ Len(u) - j = n - k
        <3>1. PICK j : j = (k - a) + 1
            OBVIOUS
        <3>2. j \in 1 .. SeenCap /\ a + j - 1 = k /\ SeenCap - j = n - k
            BY <1>1, <1>2, <2>1, <2>9, <3>1
        <3> QED BY <3>2, <2>6, <2>7
    <2>10. Len(u) <= SeenCap
        BY <2>6, <1>2
    <2> QED BY <1>1, <2>2, <2>4, <2>8, <2>9, <2>10
<1>4. CASE ~(n > SeenCap)
    BY <1>1, <1>2, <1>4 DEF ForgetOldest
<1> QED BY <1>3, <1>4

\* While a group has no more lines than a poll may fetch, they are all fetched.
LEMMA FewAreAllNewest ==
    ASSUME NEW S \in SUBSET LogLines, IsFiniteSet(S), Cardinality(S) <= FollowLimit
    PROVE  NewestEntries(S) = S
<1>1. ASSUME NEW e \in S PROVE Cardinality({d \in S : Before(e, d)}) < FollowLimit
    <2> DEFINE T == {d \in S : Before(e, d)}
    <2>1. e \notin T
        BY DEF Before, LogLines, LogGroups
    <2>2. T \in SUBSET S /\ T # S
        BY <2>1
    <2> HIDE DEF T
    <2>3. /\ IsFiniteSet(T) /\ Cardinality(T) <= Cardinality(S)
          /\ Cardinality(T) # Cardinality(S)
        BY <2>2, FS_Subset
    <2>4. Cardinality(T) \in Nat /\ Cardinality(S) \in Nat /\ FollowLimit \in Nat
        BY <2>3, FS_CardinalityType, FollowAssumption
    <2>5. Cardinality(T) < FollowLimit
        BY <2>3, <2>4
    <2> QED BY <2>5 DEF T
<1> QED BY <1>1 DEF NewestEntries

\* A poll keeps the invariant.
LEMMA FollowPollKeepsInv ==
    ASSUME FollowInv, NEW count \in [LogGroups -> Batches], NEW late \in SUBSET LogGroups,
           NEW failed \in SUBSET LogGroups, pollNo < MaxPolls, FollowPoll(count, late, failed)
    PROVE  FollowInv'
<1>1. PICK t : t \in Nat /\ t = pollNo + 1 /\ t \in 1 .. MaxPolls /\ pollNo \in Nat
    BY FollowAssumption DEF FollowInv
<1>2. PICK held : held = [g \in LogGroups |->
                             StillRead(lines[g] \cup Batch(g, t, count[g], g \in late), t)]
    OBVIOUS
<1>3. PICK asks, missed :
        /\ asks = LogGroups \ failed /\ missed \in SUBSET Missable(held, asks)
        /\ LET new == Unseen(Returned(held, asks, missed))
           IN /\ pollNo' = t /\ lines' = held /\ asked' = asks
              /\ cutShort' = StoppedShort(held, asks, missed)
              /\ seenOrder' = ForgetOldest(seenOrder \o InPrintOrder(new))
              /\ recent' = {r \in recent : r.poll > t - Window}
                              \cup {[line |-> e, poll |-> t] : e \in new \ PrintedLines}
              /\ again' = (again \/ new \cap PrintedLines # {})
              /\ crowded' = (crowded \/ Cardinality(recent') > SeenCap)
    BY <1>1, <1>2 DEF FollowPoll
<1>n. PICK new : new = Unseen(Returned(held, asks, missed))
    OBVIOUS
<1>4. PICK old : old = {r \in recent : r.poll > t - Window}
    OBVIOUS
<1>5. PICK first : first = {[line |-> e, poll |-> t] : e \in new \ PrintedLines}
    OBVIOUS
<1>6. /\ pollNo' = t /\ lines' = held /\ asked' = asks
      /\ cutShort' = StoppedShort(held, asks, missed)
      /\ seenOrder' = ForgetOldest(seenOrder \o InPrintOrder(new))
      /\ recent' = old \cup first
      /\ again' = (again \/ new \cap PrintedLines # {})
      /\ crowded' = (crowded \/ Cardinality(recent') > SeenCap)
    BY <1>3, <1>n, <1>4, <1>5
\* What the groups hold.
<1>7. ASSUME NEW g \in LogGroups
      PROVE  /\ IsFiniteSet(held[g])
             /\ \A e \in held[g] : /\ e \in LogLines /\ e.group = g
                                   /\ e.id <= t /\ e.time <= t /\ e.time > t - Window
                                   /\ e \in lines[g] \/ e.id = t
    <2> DEFINE B == Batch(g, t, count[g], g \in late)
    <2>1. count[g] \in Nat
        BY FollowAssumption
    <2>2. /\ IsFiniteSet(B)
          /\ \A e \in B : e \in LogLines /\ e.group = g /\ e.id = t /\ e.time <= t
        BY <1>1, <2>1, BatchTyped
    <2> HIDE DEF B
    <2>3. /\ IsFiniteSet(lines[g])
          /\ \A e \in lines[g] : /\ e \in LogLines /\ e.group = g
                                 /\ e.id <= pollNo /\ e.time <= pollNo
        BY DEF FollowInv
    <2>4. held[g] = {e \in lines[g] \cup B : e.time > t - Window}
        BY <1>2 DEF StillRead, B
    <2>5. IsFiniteSet(lines[g] \cup B) /\ held[g] \in SUBSET (lines[g] \cup B)
        BY <2>2, <2>3, <2>4, FS_Union
    <2>6. IsFiniteSet(held[g])
        BY <2>5, FS_Subset
    <2>7. ASSUME NEW e \in lines[g] PROVE e.id <= t /\ e.time <= t
        <3>1. e.id \in Int /\ e.time \in Int /\ e.id <= pollNo /\ e.time <= pollNo
            BY <2>3 DEF LogLines
        <3> QED BY <3>1, <1>1 DEF FollowInv
    <2>8. t <= t
        BY <1>1
    <2> QED BY <2>2, <2>3, <2>4, <2>6, <2>7, <2>8
\* What is printed.
<1>8. /\ new \subseteq LogLines /\ IsFiniteSet(new) /\ new \cap ToSet(seenOrder) = {}
      /\ \A e \in new : \E g \in LogGroups : e \in held[g]
    <2>1. Returned(held, asks, missed) \subseteq UNION {held[g] : g \in LogGroups}
        <3>1. \A g \in LogGroups : NewestEntries(held[g] \ missed) \subseteq held[g]
            BY DEF NewestEntries
        <3>2. asks \subseteq LogGroups
            BY <1>3
        <3> QED BY <3>1, <3>2 DEF Returned
    <2>2. IsFiniteSet(UNION {held[g] : g \in LogGroups})
        <3>1. IsFiniteSet(LogGroups)
            <4>1. 1 \in Int /\ GroupCount \in Int
                BY FollowAssumption
            <4> QED BY <4>1, FS_Interval DEF LogGroups
        <3>2. [g \in LogGroups |-> held[g]]
                 \in Surjection(LogGroups, {held[g] : g \in LogGroups})
            BY DEF Surjection
        <3>3. IsFiniteSet({held[g] : g \in LogGroups})
            BY <3>1, <3>2, FS_Surjection
        <3>4. \A T \in {held[g] : g \in LogGroups} : IsFiniteSet(T)
            BY <1>7
        <3> QED BY <3>3, <3>4, FS_UNION
    <2>3. /\ new \in SUBSET (UNION {held[g] : g \in LogGroups})
          /\ new \cap ToSet(seenOrder) = {}
        BY <2>1, <1>n DEF Unseen
    <2>4. IsFiniteSet(new)
        BY <2>2, <2>3, FS_Subset
    <2> QED BY <2>3, <2>4, <1>7
<1>9. PICK s : /\ s = InPrintOrder(new) /\ s \in Seq(LogLines) /\ Cardinality(new) \in Nat
               /\ Len(s) = Cardinality(new) /\ ToSet(s) = new
    BY <1>8, PrintOrderLists
<1>10. PICK c : c \in Nat /\ c = Len(s) /\ c = Cardinality(new) /\ DOMAIN s = 1 .. c
    BY <1>9, LenProperties
<1>11. PICK m : m \in Nat /\ m = Len(seenOrder) /\ DOMAIN seenOrder = 1 .. m
    BY LenProperties DEF FollowInv
<1>12. PICK u : u = seenOrder \o s
    OBVIOUS
<1>13. /\ u \in Seq(LogLines) /\ Len(u) = m + c /\ DOMAIN u = 1 .. m + c
       /\ \A k \in 1 .. m + c : u[k] = IF k <= m THEN seenOrder[k] ELSE s[k - m]
    <2>1. /\ u \in Seq(LogLines) /\ Len(u) = m + c
          /\ \A k \in 1 .. m + c : u[k] = IF k <= m THEN seenOrder[k] ELSE s[k - m]
        <3>1. seenOrder \in Seq(LogLines) /\ s \in Seq(LogLines)
            BY <1>9 DEF FollowInv
        <3>2. /\ seenOrder \o s \in Seq(LogLines)
              /\ Len(seenOrder \o s) = Len(seenOrder) + Len(s)
              /\ \A k \in 1 .. Len(seenOrder) + Len(s) :
                    (seenOrder \o s)[k] = IF k <= Len(seenOrder) THEN seenOrder[k]
                                           ELSE s[k - Len(seenOrder)]
            BY <3>1, ConcatProperties
        <3> QED BY <3>2, <1>10, <1>11, <1>12
    <2> QED BY <2>1, LenProperties
<1>14. ToSet(u) \subseteq ToSet(seenOrder) \cup new
    <2>1. ASSUME NEW k \in 1 .. m + c PROVE u[k] \in ToSet(seenOrder) \cup new
        <3>1. CASE k <= m
            <4>1. k \in DOMAIN seenOrder /\ u[k] = seenOrder[k]
                BY <3>1, <1>11, <1>13
            <4> QED BY <4>1 DEF ToSet
        <3>2. CASE ~(k <= m)
            <4>1. k - m \in DOMAIN s /\ u[k] = s[k - m]
                BY <3>2, <1>10, <1>11, <1>13
            <4> QED BY <4>1, <1>9 DEF ToSet
        <3> QED BY <3>1, <3>2
    <2> QED BY <2>1, <1>13 DEF ToSet
<1>15. /\ seenOrder' = ForgetOldest(u) /\ seenOrder' \in Seq(LogLines)
       /\ Len(seenOrder') <= SeenCap
       /\ ToSet(seenOrder') \subseteq ToSet(seenOrder) \cup new
       /\ \A k \in DOMAIN u : Len(u) - k < SeenCap =>
             \E j \in DOMAIN seenOrder' :
                seenOrder'[j] = u[k] /\ Len(seenOrder') - j = Len(u) - k
    <2>1. seenOrder' = ForgetOldest(u)
        BY <1>6, <1>9, <1>12
    <2>2. /\ ForgetOldest(u) \in Seq(LogLines) /\ ToSet(ForgetOldest(u)) \subseteq ToSet(u)
          /\ Len(ForgetOldest(u)) <= SeenCap
          /\ \A k \in DOMAIN u : Len(u) - k < SeenCap =>
                \E j \in DOMAIN ForgetOldest(u) :
                   /\ ForgetOldest(u)[j] = u[k]
                   /\ Len(ForgetOldest(u)) - j = Len(u) - k
        BY <1>13, ForgetKeepsNewest
    <2> QED BY <2>1, <2>2, <1>14
\* What has been printed lately.
<1>16. ASSUME NEW r \in recent
       PROVE  /\ r \in [line: LogLines, poll: Nat] /\ r.poll <= pollNo /\ r.line.time <= r.poll
    BY DEF FollowInv
<1>17. first = {[line |-> e, poll |-> t] : e \in new \ PrintedLines}
       /\ \A r \in first : /\ r \in [line: LogLines, poll: Nat] /\ r.poll = t
                           /\ r.line.time <= r.poll /\ r.line \in new
    BY <1>1, <1>5, <1>7, <1>8
<1>18. IsFiniteSet(old) /\ IsFiniteSet(first) /\ IsFiniteSet(recent')
    <2>1. IsFiniteSet(old)
        BY <1>4, FS_Subset DEF FollowInv
    <2>2. IsFiniteSet(new \ PrintedLines)
        BY <1>8, FS_Difference
    <2>3. [e \in new \ PrintedLines |-> [line |-> e, poll |-> t]]
             \in Surjection(new \ PrintedLines, first)
        BY <1>17 DEF Surjection
    <2>4. IsFiniteSet(first)
        BY <2>2, <2>3, FS_Surjection
    <2> QED BY <2>1, <2>4, <1>6, FS_Union
<1>19. ASSUME NEW r \in recent'
       PROVE  /\ r \in [line: LogLines, poll: Nat] /\ r.poll > t - Window /\ r.poll <= t
              /\ r.line.time <= r.poll
    <2>1. CASE r \in old
        <3>1. /\ r \in [line: LogLines, poll: Nat] /\ r.poll <= pollNo
              /\ r.poll > t - Window /\ r.line.time <= r.poll
            BY <2>1, <1>4, <1>16
        <3>2. r.poll \in Nat
            BY <3>1
        <3>3. r.poll <= t
            BY <3>1, <3>2, <1>1
        <3> QED BY <3>1, <3>3
    <2>2. CASE r \in first
        <3>1. t > t - Window
            BY <1>1, FollowAssumption
        <3> QED BY <2>2, <3>1, <1>1, <1>17
    <2> QED BY <2>1, <2>2, <1>4, <1>6
\* What is still read and has been printed, is known to have been printed.
<1>20. ASSUME NEW g \in LogGroups, NEW e \in held[g], e \in PrintedLines \/ e \in new
       PROVE  e \in PrintedLines'
    <2>1. CASE e \in PrintedLines
        <3>1. PICK r \in recent : r.line = e
            BY <2>1 DEF PrintedLines
        <3>2. e.time > t - Window /\ e.time <= r.poll /\ e.time \in Int /\ r.poll \in Int
            BY <3>1, <1>7, <1>16 DEF LogLines
        <3>3. r.poll > t - Window
            BY <3>2, <1>1, FollowAssumption
        <3>4. r \in recent'
            BY <3>3, <1>4, <1>6
        <3> QED BY <3>1, <3>4 DEF PrintedLines
    <2>2. CASE e \in new /\ e \notin PrintedLines
        <3>1. [line |-> e, poll |-> t] \in recent'
            BY <2>2, <1>5, <1>6
        <3> QED BY <3>1 DEF PrintedLines
    <2> QED BY <2>1, <2>2, <1>20
<1>21. ASSUME NEW g \in LogGroups, NEW e \in held[g], e \in ToSet(seenOrder)
       PROVE  e \in PrintedLines
    <2>1. e.id <= pollNo /\ pollNo \in Nat
        BY <1>21 DEF FollowInv
    <2>2. e.id \in Int /\ (e \in lines[g] \/ e.id = t)
        BY <1>7 DEF LogLines
    <2>3. e \in lines[g]
        BY <2>1, <2>2, <1>1
    <2> QED BY <2>3, <1>21 DEF FollowInv
<1>22. \A g \in LogGroups : lines'[g] \cap ToSet(seenOrder') \subseteq PrintedLines'
    BY <1>6, <1>15, <1>20, <1>21
<1>23. \A e \in ToSet(seenOrder') : e.id <= t
    <2>1. ASSUME NEW e \in ToSet(seenOrder) PROVE e.id <= t
        <3>1. e.id <= pollNo /\ e \in LogLines
            <4>1. PICK k \in DOMAIN seenOrder : e = seenOrder[k]
                BY DEF ToSet
            <4>2. e \in LogLines
                BY <4>1, <1>11, ElementOfSeq DEF FollowInv
            <4> QED BY <4>2 DEF FollowInv
        <3> QED BY <3>1, <1>1 DEF FollowInv, LogLines
    <2>2. \A e \in new : e.id <= t
        BY <1>7, <1>8
    <2> QED BY <2>1, <2>2, <1>15
\* Unless too much was printed lately, all of it is remembered.
<1>24. ASSUME ~crowded' PROVE ~again' /\ \A r \in recent' : Remembered(r)'
    <2>1. ~crowded /\ ~again /\ \A r \in recent : Remembered(r)
        BY <1>24, <1>6 DEF FollowInv
    <2>2. Cardinality(recent') \in Nat /\ Cardinality(recent') <= SeenCap /\ SeenCap \in Nat
        <3>1. Cardinality(recent') \in Nat /\ ~(Cardinality(recent') > SeenCap)
            BY <1>24, <1>6, <1>18, FS_CardinalityType
        <3> QED BY <3>1, FollowAssumption
    <2>3. new \cap PrintedLines = {}
        <3>1. PrintedLines \subseteq ToSet(seenOrder)
            BY <2>1 DEF PrintedLines, Remembered, ToSet
        <3> QED BY <3>1, <1>8
    <2>4. ~again'
        BY <2>1, <2>3, <1>6
    <2>5. Cardinality(first) = c
        <3>1. first = {[line |-> e, poll |-> t] : e \in new}
            BY <2>3, <1>5
        <3>2. [e \in new |-> [line |-> e, poll |-> t]] \in Bijection(new, first)
            <4> DEFINE f == [e \in new |-> [line |-> e, poll |-> t]]
            <4>1. f \in Surjection(new, first)
                BY <3>1 DEF Surjection
            <4>2. \A d, e \in new : f[d] = f[e] => d = e
                OBVIOUS
            <4> QED BY <4>1, <4>2 DEF Surjection, Injection, IsInjective, Bijection
        <3> QED BY <3>2, <1>8, <1>10, FS_Bijection DEF ExistsBijection
    <2>6. ASSUME NEW r \in recent', NEW k \in DOMAIN u, u[k] = r.line,
                 NEW S \in SUBSET recent', \A q \in S : q.poll >= r.poll,
                 Len(u) - k < Cardinality(S)
          PROVE  Remembered(r)'
        <3> DEFINE T == {q \in recent' : q.poll >= r.poll}
        <3>1. IsFiniteSet(T) /\ Cardinality(T) <= Cardinality(recent')
            BY <1>18, FS_Subset
        <3>2. Cardinality(S) <= Cardinality(T) /\ IsFiniteSet(S)
            <4>1. S \in SUBSET T
                BY <2>6
            <4> QED BY <4>1, <3>1, FS_Subset
        <3>3. Cardinality(S) \in Nat /\ Cardinality(T) \in Nat
            BY <3>1, <3>2, FS_CardinalityType
        <3>4. PICK d : d = Len(u) - k /\ d \in Int
            BY <1>10, <1>11, <1>13
        <3> HIDE DEF T
        <3>5. d < SeenCap /\ d < Cardinality(T)
            BY <3>1, <3>2, <3>3, <3>4, <2>2, <2>6
        <3>6. PICK j \in DOMAIN seenOrder' : seenOrder'[j] = u[k] /\ Len(seenOrder') - j = d
            BY <3>4, <3>5, <1>15
        <3>7. Since(r)' = T
            BY DEF Since, T
        <3> QED BY <3>5, <3>6, <3>7, <2>6 DEF Remembered
    <2>7. ASSUME NEW r \in old PROVE Remembered(r)'
        <3>1. r \in recent /\ r.poll > t - Window /\ r.poll \in Nat /\ r.poll <= pollNo
            BY <1>4, <1>16
        <3>2. PICK k \in DOMAIN seenOrder :
                 seenOrder[k] = r.line /\ Len(seenOrder) - k < Cardinality(Since(r))
            BY <2>1, <3>1 DEF Remembered
        <3> DEFINE S == Since(r) \cup first
        <3>3. Since(r) \subseteq old
            <4>1. ASSUME NEW q \in recent, q.poll >= r.poll PROVE q.poll > t - Window
                <5>1. q.poll \in Nat /\ t - Window \in Int
                    BY <1>1, <1>16, FollowAssumption
                <5> QED BY <5>1, <4>1, <3>1
            <4> QED BY <4>1, <1>4 DEF Since
        <3>4. Since(r) \cap first = {}
            <4>1. \A q \in Since(r) : q.poll <= pollNo /\ q.poll \in Nat
                BY <1>16 DEF Since
            <4>2. \A q \in first : q.poll = pollNo + 1
                BY <1>1, <1>17
            <4>3. \A q \in Since(r) : q.poll # pollNo + 1
                BY <4>1 DEF FollowInv
            <4> QED BY <4>2, <4>3
        <3>5. IsFiniteSet(Since(r)) /\ Cardinality(Since(r)) \in Nat
            <4>1. Since(r) \in SUBSET recent
                BY DEF Since
            <4>2. IsFiniteSet(Since(r))
                BY <4>1, FS_Subset DEF FollowInv
            <4> QED BY <4>2, FS_CardinalityType
        <3>6. Cardinality(S) = Cardinality(Since(r)) + c
            <4>1. Cardinality(S) = Cardinality(Since(r)) + Cardinality(first)
                                      - Cardinality(Since(r) \cap first)
                BY <3>5, <1>18, FS_Union
            <4>2. Cardinality(Since(r) \cap first) = 0
                BY <3>4, FS_EmptySet
            <4> QED BY <4>1, <4>2, <3>5, <2>5, <1>10
        <3>7. S \in SUBSET recent'
            BY <3>3, <1>6
        <3>8. \A q \in S : q.poll >= r.poll
            <4>1. \A q \in first : q.poll >= r.poll
                <5>1. t >= r.poll
                    BY <3>1, <1>1 DEF FollowInv
                <5> QED BY <5>1, <1>17
            <4> QED BY <4>1 DEF Since
        <3>9. k \in DOMAIN u /\ u[k] = r.line
            <4>1. k \in 1 .. m + c /\ k <= m
                BY <1>10, <1>11
            <4> QED BY <4>1, <3>2, <1>13
        <3>10. Len(u) - k < Cardinality(S)
            <4>1. m - k < Cardinality(Since(r)) /\ k \in Int
                BY <3>2, <1>11
            <4>2. (m + c) - k < Cardinality(Since(r)) + c
                BY <4>1, <3>5, <1>10, <1>11
            <4> QED BY <4>2, <3>6, <1>13
        <3>11. r \in recent'
            BY <1>6
        <3> HIDE DEF S
        <3> QED BY <3>7, <3>8, <3>9, <3>10, <3>11, <2>6
    <2>8. ASSUME NEW r \in first PROVE Remembered(r)'
        <3>1. r.line \in new /\ r.poll = t /\ r \in recent'
            BY <1>6, <1>17
        <3>2. PICK j \in 1 .. c : s[j] = r.line
            BY <3>1, <1>9, <1>10 DEF ToSet
        <3>3. PICK k : k = m + j
            OBVIOUS
        <3>4. k \in 1 .. m + c /\ ~(k <= m) /\ k - m = j /\ (m + c) - k < c
            BY <3>2, <3>3, <1>10, <1>11
        <3>5. k \in DOMAIN u /\ u[k] = r.line
            BY <3>2, <3>4, <1>13
        <3>6. first \in SUBSET recent' /\ \A q \in first : q.poll >= r.poll
            BY <3>1, <1>1, <1>6, <1>17
        <3>7. Len(u) - k < Cardinality(first)
            BY <3>4, <2>5, <1>13
        <3> QED BY <3>1, <3>5, <3>6, <3>7, <2>6
    <2> QED BY <2>4, <2>7, <2>8, <1>6
\* Late lines.
<1>25. LateLinesAreShown'
    <2> SUFFICES ASSUME NEW g \in asks,
                        ~(g \in cutShort' /\ (Cardinality(held[g]) >= FollowPage
                                            \/ Cardinality(held[g]) > FollowLimit)),
                        NEW e \in held[g]
                 PROVE  e \in PrintedLines'
        BY <1>6 DEF LateLinesAreShown
    <2>0. g \in LogGroups
        BY <1>3
    <2>1. /\ held[g] \in SUBSET LogLines /\ IsFiniteSet(held[g]) /\ Cardinality(held[g]) \in Nat
          /\ FollowLimit \in Nat
        BY <2>0, <1>7, FS_CardinalityType, FollowAssumption
    <2>2. Cardinality(held[g]) <= FollowLimit
        BY <2>1, <1>6 DEF StoppedShort
    <2>3. held[g] \cap missed = {}
        <3>1. CASE held[g] \cap missed # {}
            <4>1. g \in cutShort' /\ ~(Cardinality(held[g]) >= FollowPage)
                BY <3>1, <1>6 DEF StoppedShort
            <4>2. PICK d \in held[g] \cap missed : TRUE
                BY <3>1
            <4>3. PICK h \in asks : Cardinality(held[h]) >= FollowPage /\ d \in held[h]
                BY <4>2, <1>3 DEF Missable
            <4>4. h \in LogGroups /\ d.group = h /\ d.group = g
                BY <4>2, <4>3, <2>0, <1>3, <1>7
            <4> QED BY <4>1, <4>3, <4>4
        <3> QED BY <3>1
    <2>4. e \in Returned(held, asks, missed)
        <3>1. held[g] \ missed = held[g]
            BY <2>3
        <3> QED BY <2>1, <2>2, <3>1, FewAreAllNewest DEF Returned
    <2>5. e \in ToSet(seenOrder) \/ e \in new
        BY <2>4, <1>n DEF Unseen
    <2> QED BY <2>0, <2>5, <1>20, <1>21
<1>26. /\ DOMAIN lines' = LogGroups
       /\ \A g \in LogGroups : /\ IsFiniteSet(lines'[g])
                               /\ \A e \in lines'[g] : /\ e \in LogLines /\ e.group = g
                                                       /\ e.id <= t /\ e.time <= t
    BY <1>2, <1>6, <1>7
<1>27. /\ crowded' \in BOOLEAN /\ again' \in BOOLEAN
       /\ cutShort' \subseteq asked' /\ asked' \subseteq LogGroups
    BY <1>3, <1>6 DEF StoppedShort
<1> QED BY <1>1, <1>6, <1>15, <1>18, <1>19, <1>22, <1>23, <1>24, <1>25, <1>26, <1>27
           DEF FollowInv

\* What `logs --follow` prints is honest.
LEMMA FollowInvariant == FollowSpec => []FollowInv
<1>1. FollowInv /\ [FollowNext]_followVars => FollowInv'
    <2> SUFFICES ASSUME FollowInv, [FollowNext]_followVars PROVE FollowInv'
        OBVIOUS
    <2>1. CASE UNCHANGED followVars
        <3>1. /\ pollNo' = pollNo /\ lines' = lines /\ seenOrder' = seenOrder
              /\ recent' = recent /\ again' = again /\ asked' = asked /\ cutShort' = cutShort /\ crowded' = crowded
            BY <2>1 DEF followVars
        <3>2. PrintedLines' = PrintedLines /\ \A r : Remembered(r)' <=> Remembered(r)
            BY <3>1 DEF PrintedLines, Remembered, Since
        <3>3. LateLinesAreShown' <=> LateLinesAreShown
            BY <3>1, <3>2 DEF LateLinesAreShown
        <3> QED BY <3>1, <3>2, <3>3 DEF FollowInv
    <2>2. CASE FollowNext
        <3>1. /\ pollNo < MaxPolls
              /\ \E count \in [LogGroups -> Batches], failed \in SUBSET LogGroups,
                    late \in SUBSET LogGroups : FollowPoll(count, late, failed)
            BY <2>2 DEF FollowNext
        <3> QED BY <3>1, FollowPollKeepsInv
    <2> QED BY <2>1, <2>2
<1> QED BY InitFollowInv, <1>1, PTL DEF FollowSpec

LEMMA FollowHonest == FollowSpec => []FollowIsFaithful
<1>1. FollowInv => FollowIsFaithful
    BY DEF FollowInv, FollowIsFaithful, RepeatsOnlyWhenCrowded
<1> QED BY FollowInvariant, <1>1, PTL

LEMMA FollowTyped == FollowSpec => []FollowTypeOK
<1>1. FollowInv => FollowTypeOK
    <2> SUFFICES ASSUME FollowInv PROVE FollowTypeOK
        OBVIOUS
    <2>1. ASSUME NEW g \in LogGroups PROVE lines[g] \subseteq {e \in LogLines : e.group = g}
        BY DEF FollowInv
    <2>2. ASSUME NEW r \in recent PROVE r.line \in LogLines /\ r.poll \in pollNo - Window + 1 .. pollNo
        <3>1. /\ r.line \in LogLines /\ r.poll \in Nat /\ r.poll > pollNo - Window
              /\ r.poll <= pollNo /\ pollNo \in Nat /\ Window \in Nat
            BY FollowAssumption DEF FollowInv
        <3> QED BY <3>1
    <2> QED BY <2>1, <2>2 DEF FollowInv, FollowTypeOK
<1> QED BY FollowInvariant, <1>1, PTL

\* `logs` leaves nothing out without saying so, and shows nothing out of order; `logs --follow`
\* repeats no line while its memory holds, and leaves nothing in its window out while its
\* fetches are whole, for windows, pages, limits and memories of any size.
THEOREM LogsHonestAlways == LogSpec /\ FollowSpec => []LogsAreHonest
<1>1. LogTailIsHonest /\ FollowIsFaithful => LogsAreHonest
    BY DEF LogsAreHonest
<1> QED BY LogsHonest, FollowHonest, <1>1, PTL
=============================================================================
