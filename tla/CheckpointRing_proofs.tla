----------------------- MODULE CheckpointRing_proofs -----------------------
(***************************************************************************)
(* Proofs about the slot ring.  TypeInv, LabelInv, RingInv and StoreInv    *)
(* are layered: each is inductive given the ones before it.                *)
(***************************************************************************)
EXTENDS CheckpointRing, FiniteSetTheorems, TLAPS

\* Every sha256 that is mentioned anywhere is that of an archive already built.
ShasKnown ==
    /\ \A s \in Slot, p \in Part : obj[s][p] <= Len(archives)
    /\ \A w \in lateObj : w.sha <= Len(archives)
    /\ up.sha <= Len(archives)

PartsLeft == pc = "parts" => up.next < up.parts

ProbedNamesSlot == pc = "restore" => probed.slot # None

TypeInv == TypeOK /\ ShasKnown /\ PartsLeft /\ ProbedNamesSlot

\* A metadata object, stored or on its way, describes an archive that exists and
\* that holds at least the progress its label announces.
Honest(m) == m.slot # None => /\ m.parts >= 1
                              /\ m.sha \in 1 .. Len(archives)
                              /\ m.step <= archives[m.sha]

LabelInv ==
    /\ Honest(meta)
    /\ \A m \in lateMeta : Honest(m)
    /\ pc = "archive" => up.label <= dir
    /\ pc \in {"parts", "commit"} => Honest(NewMeta)

\* No request takes effect after its sender gave up on it and no 403 is taken for
\* an absent object.
PromptStore == MaxLateParts = 0 /\ MaxLateMeta = 0 /\ MayDeny = FALSE

RingInv ==
    /\ lateObj = {} /\ lateMeta = {}
    /\ MetaReadable
    /\ (pc \in Running \ {"commit"} /\ ~liveUncertain) => live = meta.slot
    /\ pc \in {"archive", "parts", "commit", "reclaim"} => ~liveUncertain
    /\ pc \in {"archive", "parts"} => up.slot # meta.slot
    /\ pc = "commit" => (up.slot # meta.slot \/ meta = NewMeta)
    /\ pc \in {"parts", "commit"} => \A i \in 0 .. up.next - 1 : obj[up.slot][i] = up.sha
    /\ pc = "commit" => up.next = up.parts
    /\ pc = "restore" => probed = meta

StoreInv ==
    /\ pc \notin Running => dir = 0
    /\ pc \in Running => Saved <= dir
    /\ pc \in {"parts", "commit"} => Saved <= archives[up.sha] /\ archives[up.sha] <= dir
-----------------------------------------------------------------------------
(***************************************************************************)
(* Type correctness.                                                       *)
(***************************************************************************)
\* The next slot is a slot, and another one than the live slot.
LEMMA TargetIsFree ==
    \A lv \in Slot \cup {None} : Target(lv) \in Slot /\ Target(lv) # lv
BY RingAssumption DEF Slot, None, Target

\* Replacing one part of one slot keeps the store a store.
LEMMA SetObjType ==
    ASSUME obj \in [Slot -> [Part -> Nat]],
           NEW s \in Slot, NEW p \in Part, NEW sha \in Nat, SetObj(s, p, sha)
    PROVE  /\ obj' \in [Slot -> [Part -> Nat]]
           /\ obj'[s][p] = sha
           /\ \A t \in Slot, q \in Part : (t # s \/ q # p) => obj'[t][q] = obj[t][q]
           /\ \A t \in Slot, q \in Part : obj'[t][q] \in {obj[t][q], sha}
BY DEF SetObj

\* The initial state satisfies the type invariant.
LEMMA TypeInit == Init => TypeInv
<1> SUFFICES ASSUME Init PROVE TypeInv
  OBVIOUS
<1>1. up \in Upload
  BY RingAssumption DEF Init, Upload, NoUpload, Slot, None, NoObject
<1>2. meta \in Meta /\ probed \in Meta
  BY RingAssumption DEF Init, Meta, NoMeta, NoObject
<1>3. sweep \in Sweep
  BY RingAssumption DEF Init, Sweep, NoSweep
<1>4. /\ obj \in [Slot -> [Part -> Nat]]
      /\ known \in [Slot -> 0 .. MaxParts \cup {None}]
      /\ archives \in Seq(Int)
  BY DEF Init, NoObject
<1>5. /\ pc \in {"down", "probe", "restore"} \cup Running
      /\ lateObj = {} /\ lateMeta = {}
      /\ dir \in Int /\ lastUploaded \in Int
      /\ live \in Slot \cup {None}
      /\ lives \in Nat /\ faults \in Nat
  BY DEF Init
<1>8. hadRemote \in BOOLEAN /\ liveUncertain \in BOOLEAN
  BY Zenon DEF Init
<1>6. TypeOK
  BY <1>1, <1>2, <1>3, <1>4, <1>5, <1>8 DEF TypeOK
<1>7. ShasKnown /\ PartsLeft /\ ProbedNamesSlot
  BY RingAssumption DEF Init, ShasKnown, PartsLeft, ProbedNamesSlot, NoObject, NoUpload
<1> QED
  BY <1>6, <1>7 DEF TypeInv

\* A request without a usable answer leaves the store typed and stores, now or
\* later, nothing but what it carried.
LEMMA UnackedObjType ==
    ASSUME TypeOK, NEW s \in Slot, NEW p \in Part, NEW sha \in Nat, UnackedObj(s, p, sha)
    PROVE  /\ obj' \in [Slot -> [Part -> Nat]]
           /\ lateObj' \subseteq [slot : Slot, part : Part, sha : Nat]
           /\ meta' = meta /\ lateMeta' = lateMeta
           /\ \A t \in Slot, q \in Part : obj'[t][q] \in {obj[t][q], sha}
           /\ \A w \in lateObj' : w \in lateObj \/ w.sha = sha
<1>1. CASE SetObj(s, p, sha) /\ UNCHANGED lateObj
  <2>1. obj \in [Slot -> [Part -> Nat]]
    BY DEF TypeOK
  <2>2. /\ obj' \in [Slot -> [Part -> Nat]]
        /\ \A t \in Slot, q \in Part : obj'[t][q] \in {obj[t][q], sha}
    BY <1>1, <2>1, SetObjType
  <2> QED
    BY <1>1, <2>2 DEF TypeOK, UnackedObj
<1>2. CASE UNCHANGED <<obj, lateObj>>
  BY <1>2 DEF TypeOK, UnackedObj
<1>3. CASE /\ lateObj' = lateObj \cup {[slot |-> s, part |-> p, sha |-> sha]}
           /\ UNCHANGED obj
  BY <1>3 DEF TypeOK, UnackedObj
<1> QED
  BY <1>1, <1>2, <1>3 DEF UnackedObj

\* The same for a metadata PUT.
LEMMA UnackedMetaType ==
    ASSUME TypeOK, NEW m \in Meta, UnackedMeta(m)
    PROVE  /\ meta' \in {meta, m}
           /\ lateMeta' \subseteq lateMeta \cup {m}
           /\ obj' = obj /\ lateObj' = lateObj
BY DEF UnackedMeta

\* The absent metadata and the cleared locals of upload and reclaim are typed.
LEMMA NoneTypes ==
    /\ NoMeta \in Meta /\ NoMeta.slot = None
    /\ NoUpload \in Upload /\ NoUpload.sha = 0
    /\ NoSweep \in Sweep
<1>1. NoMeta \in Meta /\ NoMeta.slot = None
  BY RingAssumption DEF Meta, NoMeta, NoObject
<1>2. NoUpload \in Upload /\ NoUpload.sha = 0
  BY RingAssumption DEF Upload, NoUpload, NoObject, Slot, None
<1>3. NoSweep \in Sweep
  BY RingAssumption DEF Sweep, NoSweep
<1> QED
  BY <1>1, <1>2, <1>3

\* What a commit writes is a metadata object that names the slot just written.
LEMMA NewMetaType ==
    ASSUME TypeOK
    PROVE  NewMeta \in Meta /\ NewMeta.slot = up.slot /\ NewMeta.slot # None
<1>1. up \in Upload
  BY DEF TypeOK
<1> QED
  BY <1>1, RingAssumption DEF NewMeta, Meta, Upload, Slot, None

\* A process that is gone leaves typed, empty state.
LEMMA ResetType ==
    ASSUME TypeOK, AgentReset
    PROVE  /\ pc' = "down" /\ dir' = 0 /\ probed' \in Meta /\ hadRemote' \in BOOLEAN
           /\ live' = None /\ liveUncertain' \in BOOLEAN
           /\ known' \in [Slot -> 0 .. MaxParts \cup {None}]
           /\ lastUploaded' = 0 /\ up' \in Upload /\ up'.sha = 0 /\ sweep' \in Sweep
<1>1. hadRemote' \in BOOLEAN /\ liveUncertain' \in BOOLEAN
  BY Zenon DEF AgentReset
<1> QED
  BY <1>1, NoneTypes DEF AgentReset

\* A ring just made is typed and its job starts being watched.
LEMMA NewRingType ==
    ASSUME NEW lv \in Slot \cup {None}, NEW remote \in BOOLEAN, NewRing(lv, remote)
    PROVE  /\ pc' = "watch" /\ hadRemote' \in BOOLEAN /\ live' \in Slot \cup {None}
           /\ liveUncertain' \in BOOLEAN /\ known' \in [Slot -> 0 .. MaxParts \cup {None}]
<1>1. hadRemote' \in BOOLEAN /\ liveUncertain' \in BOOLEAN
  BY Zenon DEF NewRing
<1>2. known' \in [Slot -> 0 .. MaxParts \cup {None}]
  BY RingAssumption DEF NewRing
<1> QED
  BY <1>1, <1>2 DEF NewRing

\* What a restore extracts is the progress some archive holds, or is torn.
LEMMA ExtractedType ==
    ASSUME TypeOK, ShasKnown, NEW m \in Meta, m.slot # None, m.parts # 0
    PROVE  Extracted(m) \in Int
<1>1. m.slot \in Slot /\ m.parts \in 1 .. MaxParts /\ 0 \in Part
  BY RingAssumption DEF Meta, Part
<1>2. obj[m.slot][0] \in Nat /\ obj[m.slot][0] <= Len(archives)
  BY <1>1 DEF TypeOK, ShasKnown
<1>3. obj[m.slot][0] # NoObject => archives[obj[m.slot][0]] \in Int
  BY <1>2 DEF TypeOK, NoObject
<1> QED
  BY <1>1, <1>3 DEF Extracted, Torn

\* reclaim stays inside the ring and never deletes a part of the live slot.
LEMMA SweepInRange ==
    ASSUME TypeOK, pc = "reclaim", sweep.slot < NSlots, sweep.part < SweepCount(sweep.slot)
    PROVE  /\ sweep.slot \in Slot /\ sweep.slot # live
           /\ sweep.part \in Part /\ sweep.part + 1 \in 0 .. MaxParts
<1>1. sweep.slot \in Slot /\ sweep.part \in 0 .. MaxParts
  BY RingAssumption DEF TypeOK, Sweep, Slot
<1>2. known[sweep.slot] \in 0 .. MaxParts \cup {None}
  BY <1>1 DEF TypeOK
<1> QED
  BY <1>1, <1>2, RingAssumption DEF SweepCount, Part, None

\* Every step keeps the type invariant.
LEMMA TypeNext == TypeInv /\ [Next]_vars => TypeInv'
<1> SUFFICES ASSUME TypeInv, [Next]_vars PROVE TypeInv'
  OBVIOUS
<1> USE DEF TypeInv
<1>1. CASE LateObjLands
  <2>1. PICK w \in lateObj : SetObj(w.slot, w.part, w.sha) /\ lateObj' = lateObj \ {w}
    BY <1>1 DEF LateObjLands
  <2>2. /\ w.slot \in Slot /\ w.part \in Part /\ w.sha \in Nat /\ w.sha <= Len(archives)
        /\ obj \in [Slot -> [Part -> Nat]]
    BY DEF TypeOK, ShasKnown
  <2>3. /\ obj' \in [Slot -> [Part -> Nat]]
        /\ \A s \in Slot, p \in Part : obj'[s][p] \in {obj[s][p], w.sha}
    BY <2>1, <2>2, SetObjType
  <2>4. TypeOK'
    BY <1>1, <2>1, <2>3 DEF TypeOK, LateObjLands, bootVars, ringVars, boundVars
  <2>6. ShasKnown'
    BY <1>1, <2>1, <2>2, <2>3 DEF ShasKnown, LateObjLands
  <2> QED
    BY <1>1, <2>4, <2>6 DEF LateObjLands, bootVars, PartsLeft, ProbedNamesSlot
<1>2. CASE LateMetaLands
  BY <1>2 DEF LateMetaLands, TypeOK, bootVars, ringVars, boundVars, ShasKnown, PartsLeft,
              ProbedNamesSlot
<1>3. CASE Crash
  <2>1. AgentReset
    BY <1>3 DEF Crash
  <2>2. TypeOK'
    BY <1>3, <2>1, ResetType DEF Crash, TypeOK, storeVars, boundVars
  <2> QED
    BY <1>3, <2>1, <2>2, ResetType
       DEF Crash, storeVars, ShasKnown, PartsLeft, ProbedNamesSlot, TypeOK
<1>4. CASE Boot
  BY <1>4 DEF Boot, TypeOK, storeVars, bootVars, ringVars, ShasKnown, PartsLeft,
              ProbedNamesSlot
<1>5. CASE Probe
  <2>1. PICK seen \in FetchMeta :
           \/ seen.slot = None /\ NewRing(None, FALSE) /\ UNCHANGED probed
           \/ /\ seen.slot # None /\ probed' = seen /\ pc' = "restore"
              /\ UNCHANGED <<ringVars, hadRemote>>
    BY <1>5 DEF Probe
  <2>2. seen \in Meta
    BY NoneTypes DEF FetchMeta, TypeOK
  <2>3. CASE seen.slot = None /\ NewRing(None, FALSE) /\ UNCHANGED probed
    <3>1. TypeOK' /\ pc' = "watch"
      BY <1>5, <2>3, NewRingType DEF Probe, TypeOK, storeVars, boundVars, Running
    <3> QED
      BY <1>5, <3>1 DEF Probe, storeVars, ShasKnown, PartsLeft, ProbedNamesSlot
  <2>4. CASE /\ seen.slot # None /\ probed' = seen /\ pc' = "restore"
             /\ UNCHANGED <<ringVars, hadRemote>>
    <3>1. TypeOK'
      BY <1>5, <2>2, <2>4 DEF Probe, TypeOK, storeVars, ringVars, boundVars
    <3> QED
      BY <1>5, <2>4, <3>1 DEF Probe, storeVars, ShasKnown, PartsLeft, ProbedNamesSlot
  <2> QED
    BY <2>1, <2>3, <2>4
<1>6. CASE Restore
  <2>1. CASE ~ShaMatches(probed)
    <3>1. AgentReset
      BY <1>6, <2>1 DEF Restore
    <3>2. TypeOK'
      BY <1>6, <3>1, ResetType DEF Restore, TypeOK, storeVars, boundVars
    <3> QED
      BY <1>6, <3>1, <3>2, ResetType
         DEF Restore, storeVars, ShasKnown, PartsLeft, ProbedNamesSlot, TypeOK
  <2>2. CASE ShaMatches(probed)
    <3>1. /\ NewRing(probed.slot, TRUE)
          /\ dir' = IF probed.parts = 0 THEN 0 ELSE Extracted(probed)
          /\ probed' = NoMeta
      BY <1>6, <2>2 DEF Restore
    <3>2. probed \in Meta /\ probed.slot \in Slot /\ probed.slot # None
      BY <1>6 DEF Restore, TypeOK, ProbedNamesSlot, Meta
    <3>3. dir' \in Int
      BY <3>1, <3>2, ExtractedType
    <3>4. TypeOK' /\ pc' = "watch"
      BY <1>6, <2>2, <3>1, <3>2, <3>3, NewRingType, NoneTypes
         DEF Restore, TypeOK, storeVars, boundVars, Running
    <3> QED
      BY <1>6, <2>2, <3>4 DEF Restore, storeVars, ShasKnown, PartsLeft, ProbedNamesSlot
  <2> QED
    BY <2>1, <2>2
<1>7. CASE Work
  BY <1>7 DEF Work, TypeOK, storeVars, bootVars, ringVars, boundVars, ShasKnown, PartsLeft,
              ProbedNamesSlot
<1>8. CASE Scan
  <2>1. up' \in Upload /\ up'.sha = 0
    BY <1>8, NoneTypes DEF Scan, TypeOK, Upload, NoUpload
  <2>2. TypeOK'
    BY <1>8, <2>1 DEF Scan, TypeOK, storeVars, bootVars, ringVars, boundVars, Running, Uploading
  <2> QED
    BY <1>8, <2>1, <2>2
       DEF Scan, TypeOK, storeVars, bootVars, ShasKnown, PartsLeft, ProbedNamesSlot
<1>9. CASE BeginUpload
  <2>1. PICK lv \in ResolvedLive :
           /\ live' = lv
           /\ up' = [up EXCEPT !.slot = Target(lv), !.prior = known[Target(lv)],
                               !.label = dir]
           /\ known' = [known EXCEPT ![Target(lv)] = None]
    BY <1>9 DEF BeginUpload
  <2>2. lv \in Slot \cup {None}
    <3>1. \A m \in FetchMeta : m.slot \in Slot \cup {None}
      BY NoneTypes DEF FetchMeta, TypeOK, Meta
    <3> QED
      BY <3>1 DEF ResolvedLive, TypeOK
  <2>3. Target(lv) \in Slot /\ known[Target(lv)] \in 0 .. MaxParts \cup {None}
    BY <2>2, TargetIsFree DEF TypeOK
  <2>4. up' \in Upload /\ up'.sha = up.sha
    BY <2>1, <2>3 DEF TypeOK, Upload
  <2>5. known' \in [Slot -> 0 .. MaxParts \cup {None}]
    BY <2>1, <2>3 DEF TypeOK
  <2>6. liveUncertain' \in BOOLEAN
    BY <1>9, Zenon DEF BeginUpload
  <2>7. TypeOK' /\ pc' = "archive"
    BY <1>9, <2>1, <2>2, <2>4, <2>5, <2>6
       DEF BeginUpload, TypeOK, storeVars, bootVars, boundVars, Running, Uploading
  <2> QED
    BY <1>9, <2>4, <2>7
       DEF BeginUpload, storeVars, bootVars, ShasKnown, PartsLeft, ProbedNamesSlot
<1>10. CASE RereadFails
  <2>1. pc' = "watch" /\ up' = NoUpload /\ lastUploaded' = lastUploaded /\ faults' \in Nat
        /\ lives' = lives
    BY <1>10 DEF RereadFails, FailUpload, Fault, TypeOK
  <2>2. TypeOK'
    BY <1>10, <2>1, NoneTypes
       DEF RereadFails, TypeOK, storeVars, bootVars, ringVars, Running
  <2> QED
    BY <1>10, <2>1, <2>2, NoneTypes
       DEF RereadFails, TypeOK, storeVars, bootVars, ShasKnown, PartsLeft, ProbedNamesSlot
<1>11. CASE Archive
  <2>1. PICK n \in 1 .. MaxParts :
           up' = [up EXCEPT !.sha = Len(archives) + 1, !.parts = n, !.next = 0]
    BY <1>11 DEF Archive
  <2>2. archives' \in Seq(Int) /\ Len(archives') = Len(archives) + 1 /\ Len(archives) \in Nat
    BY <1>11 DEF Archive, TypeOK
  <2>3. up' \in Upload /\ up'.sha = Len(archives) + 1 /\ up'.next < up'.parts
    <3>1. /\ up \in Upload /\ Len(archives) + 1 \in Nat
          /\ n \in 0 .. MaxParts /\ 0 \in 0 .. MaxParts /\ 0 < n
      BY <2>2, RingAssumption DEF TypeOK
    <3> QED
      BY <2>1, <3>1 DEF Upload
  <2>4. TypeOK' /\ pc' = "parts"
    BY <1>11, <2>2, <2>3
       DEF Archive, TypeOK, storeVars, bootVars, ringVars, boundVars, Running, Uploading
  <2>5. \A s \in Slot, p \in Part : obj[s][p] \in Nat
    BY DEF TypeOK
  <2>6. ShasKnown'
    BY <1>11, <2>2, <2>3, <2>5 DEF Archive, TypeOK, storeVars, ShasKnown
  <2> QED
    BY <1>11, <2>3, <2>4, <2>6 DEF bootVars, PartsLeft, ProbedNamesSlot
<1>12. CASE ArchiveFails
  <2>1. pc' = "watch" /\ up' = NoUpload /\ lastUploaded' = lastUploaded /\ faults' \in Nat
        /\ lives' = lives
    BY <1>12 DEF ArchiveFails, FailUpload, Fault, TypeOK
  <2>2. TypeOK'
    BY <1>12, <2>1, NoneTypes
       DEF ArchiveFails, TypeOK, storeVars, bootVars, ringVars, Running
  <2> QED
    BY <1>12, <2>1, <2>2, NoneTypes
       DEF ArchiveFails, TypeOK, storeVars, bootVars, ShasKnown, PartsLeft, ProbedNamesSlot
<1>13. CASE PutPart
  <2>1. /\ up.slot \in Slot /\ up.next \in Part /\ up.sha \in Nat /\ up.sha <= Len(archives)
        /\ up.next + 1 \in 0 .. MaxParts /\ up.next < up.parts
        /\ obj \in [Slot -> [Part -> Nat]]
    <3>1. /\ up \in Upload /\ up.sha <= Len(archives) /\ up.next < up.parts
          /\ obj \in [Slot -> [Part -> Nat]]
      BY <1>13 DEF PutPart, TypeOK, ShasKnown, PartsLeft
    <3> QED
      BY <3>1, RingAssumption DEF Upload, Part
  <2>2. /\ obj' \in [Slot -> [Part -> Nat]]
        /\ \A s \in Slot, p \in Part : obj'[s][p] \in {obj[s][p], up.sha}
    BY <1>13, <2>1, SetObjType DEF PutPart
  <2>3. /\ up' \in Upload /\ up'.sha = up.sha /\ up'.next = up.next + 1
        /\ up'.parts = up.parts
    BY <1>13, <2>1 DEF PutPart, TypeOK, Upload
  <2>4. pc' \in {"parts", "commit"}
    BY <1>13 DEF PutPart
  <2>5. TypeOK'
    BY <1>13, <2>2, <2>3, <2>4
       DEF PutPart, TypeOK, bootVars, ringVars, boundVars, Running, Uploading
  <2>6. ShasKnown'
    BY <1>13, <2>1, <2>2, <2>3 DEF PutPart, ShasKnown
  <2>7. PartsLeft'
    <3>1. up.parts \in 0 .. MaxParts
      BY DEF TypeOK, Upload
    <3> QED
      BY <1>13, <2>1, <2>3, <3>1, RingAssumption DEF PutPart, PartsLeft, Part
  <2> QED
    BY <2>4, <2>5, <2>6, <2>7 DEF ProbedNamesSlot
<1>14. CASE PutPartFails
  <2>1. /\ up.slot \in Slot /\ up.next \in Part /\ up.sha \in Nat /\ up.sha <= Len(archives)
    BY <1>14, RingAssumption DEF PutPartFails, TypeOK, ShasKnown, PartsLeft, Upload, Part
  <2>2. UnackedObj(up.slot, up.next, up.sha) /\ faults' \in Nat /\ lives' = lives
    BY <1>14 DEF PutPartFails, Fault, TypeOK
  <2>3. /\ obj' \in [Slot -> [Part -> Nat]]
        /\ lateObj' \subseteq [slot : Slot, part : Part, sha : Nat]
        /\ meta' = meta /\ lateMeta' = lateMeta
        /\ \A s \in Slot, p \in Part : obj'[s][p] \in {obj[s][p], up.sha}
        /\ \A w \in lateObj' : w \in lateObj \/ w.sha = up.sha
    BY <2>1, <2>2, UnackedObjType
  <2>4. \/ pc' = pc /\ up' = up /\ lastUploaded' = lastUploaded
        \/ pc' = "watch" /\ up' = NoUpload /\ lastUploaded' = lastUploaded
    BY <1>14 DEF PutPartFails, FailUpload
  <2>5. TypeOK'
    BY <1>14, <2>2, <2>3, <2>4, NoneTypes
       DEF PutPartFails, TypeOK, bootVars, ringVars, Running
  <2>6. ShasKnown'
    <3>1. archives' = archives /\ Len(archives) \in Nat
      BY <1>14 DEF PutPartFails, TypeOK
    <3>2. up'.sha <= Len(archives)
      BY <2>1, <2>4, <3>1, NoneTypes
    <3> QED
      BY <2>1, <2>3, <3>1, <3>2 DEF ShasKnown
  <2> QED
    BY <1>14, <2>4, <2>5, <2>6 DEF PutPartFails, bootVars, PartsLeft, ProbedNamesSlot
<1>15. CASE CommitAcked
  <2>1. up \in Upload /\ NewMeta \in Meta
    BY NewMetaType DEF TypeOK
  <2>2. HighWater(up.prior, up.parts) \in 0 .. MaxParts \cup {None}
    BY <2>1 DEF HighWater, Upload
  <2>3. known' \in [Slot -> 0 .. MaxParts \cup {None}]
    BY <1>15, <2>2 DEF CommitAcked, TypeOK
  <2>4. live' \in Slot /\ lastUploaded' \in Int
    BY <1>15, <2>1 DEF CommitAcked, Upload
  <2>5. TypeOK' /\ pc' = "reclaim"
    BY <1>15, <2>1, <2>3, <2>4, NoneTypes
       DEF CommitAcked, TypeOK, bootVars, boundVars, Running
  <2> QED
    BY <1>15, <2>5, NoneTypes
       DEF CommitAcked, TypeOK, ShasKnown, PartsLeft, ProbedNamesSlot
<1>16. CASE CommitFails
  <2>1. UnackedMeta(NewMeta) /\ faults' \in Nat /\ lives' = lives
    BY <1>16 DEF CommitFails, Fault, TypeOK
  <2>2. /\ meta' \in Meta /\ lateMeta' \subseteq Meta
        /\ obj' = obj /\ lateObj' = lateObj
    BY <2>1, NewMetaType, UnackedMetaType DEF TypeOK
  <2>3. CASE /\ up.attempt < CommitAttempts
             /\ up' = [up EXCEPT !.attempt = @ + 1]
             /\ UNCHANGED <<pc, liveUncertain, lastUploaded>>
    <3>1. up \in Upload
      BY DEF TypeOK
    <3>2. up' \in Upload /\ up'.sha = up.sha
      BY <2>3, <3>1, RingAssumption DEF Upload
    <3>3. TypeOK'
      BY <1>16, <2>1, <2>2, <2>3, <3>2 DEF CommitFails, TypeOK, bootVars
    <3> QED
      BY <1>16, <2>2, <2>3, <3>2, <3>3
         DEF CommitFails, bootVars, ShasKnown, PartsLeft, ProbedNamesSlot
  <2>4. CASE up.attempt = CommitAttempts /\ liveUncertain' = TRUE /\ FailUpload
    <3>1. liveUncertain' \in BOOLEAN
      BY <2>4, Zenon
    <3>2. pc' = "watch" /\ up' = NoUpload /\ lastUploaded' = lastUploaded
      BY <2>4 DEF FailUpload
    <3>3. TypeOK'
      BY <1>16, <2>1, <2>2, <3>1, <3>2, NoneTypes
         DEF CommitFails, TypeOK, bootVars, Running
    <3> QED
      BY <1>16, <2>2, <3>2, <3>3, NoneTypes
         DEF CommitFails, TypeOK, ShasKnown, PartsLeft, ProbedNamesSlot
  <2> QED
    BY <1>16, <2>3, <2>4 DEF CommitFails
<1>17. CASE CommitRejected
  <2>1. liveUncertain' \in BOOLEAN
    BY <1>17, Zenon DEF CommitRejected
  <2>2. pc' = "watch" /\ up' = NoUpload /\ lastUploaded' = lastUploaded /\ faults' \in Nat
        /\ lives' = lives
    BY <1>17 DEF CommitRejected, FailUpload, Fault, TypeOK
  <2>3. TypeOK'
    BY <1>17, <2>1, <2>2, NoneTypes DEF CommitRejected, TypeOK, storeVars, bootVars, Running
  <2> QED
    BY <1>17, <2>2, <2>3, NoneTypes
       DEF CommitRejected, TypeOK, storeVars, ShasKnown, PartsLeft, ProbedNamesSlot
<1>18. CASE SweepPart
  <2>1. /\ sweep.slot \in Slot /\ sweep.part \in Part /\ sweep.part + 1 \in 0 .. MaxParts
        /\ obj \in [Slot -> [Part -> Nat]]
    BY <1>18, SweepInRange DEF SweepPart, TypeOK
  <2>2. /\ obj' \in [Slot -> [Part -> Nat]]
        /\ \A s \in Slot, p \in Part : obj'[s][p] \in {obj[s][p], NoObject}
    BY <1>18, <2>1, SetObjType DEF SweepPart, NoObject
  <2>3. sweep' \in Sweep
    BY <1>18, <2>1 DEF SweepPart, TypeOK, Sweep
  <2>4. TypeOK'
    BY <1>18, <2>2, <2>3 DEF SweepPart, TypeOK, bootVars, ringVars, boundVars
  <2>5. ShasKnown'
    <3>1. /\ archives' = archives /\ Len(archives) \in Nat /\ up' = up
          /\ lateObj' = lateObj
      BY <1>18 DEF SweepPart, TypeOK
    <3> QED
      BY <2>2, <3>1 DEF ShasKnown, NoObject
  <2> QED
    BY <1>18, <2>4, <2>5 DEF SweepPart, bootVars, PartsLeft, ProbedNamesSlot
<1>19. CASE SweepPartFails
  <2>1. /\ sweep.slot \in Slot /\ sweep.part \in Part /\ sweep.part + 1 \in 0 .. MaxParts
    BY <1>19, SweepInRange DEF SweepPartFails, TypeOK
  <2>2. /\ UnackedObj(sweep.slot, sweep.part, NoObject) /\ NoObject \in Nat
        /\ faults' \in Nat /\ lives' = lives
    BY <1>19 DEF SweepPartFails, Fault, TypeOK, NoObject
  <2>3. /\ obj' \in [Slot -> [Part -> Nat]]
        /\ lateObj' \subseteq [slot : Slot, part : Part, sha : Nat]
        /\ meta' = meta /\ lateMeta' = lateMeta
        /\ \A s \in Slot, p \in Part : obj'[s][p] \in {obj[s][p], NoObject}
        /\ \A w \in lateObj' : w \in lateObj \/ w.sha = NoObject
    BY <2>1, <2>2, UnackedObjType
  <2>4. sweep' \in Sweep
    <3>1. sweep \in Sweep /\ sweep' = [sweep EXCEPT !.part = @ + 1, !.failed = TRUE]
      BY <1>19 DEF SweepPartFails, TypeOK
    <3> QED
      BY <2>1, <3>1 DEF Sweep
  <2>5. TypeOK'
    BY <1>19, <2>2, <2>3, <2>4 DEF SweepPartFails, TypeOK, bootVars, ringVars
  <2>6. ShasKnown'
    <3>1. archives' = archives /\ Len(archives) \in Nat /\ up' = up
      BY <1>19 DEF SweepPartFails, TypeOK
    <3> QED
      BY <2>3, <3>1 DEF ShasKnown, NoObject
  <2> QED
    BY <1>19, <2>5, <2>6 DEF SweepPartFails, bootVars, PartsLeft, ProbedNamesSlot
<1>20. CASE SweepNextSlot
  <2>1. sweep' \in Sweep
    BY <1>20, RingAssumption DEF SweepNextSlot, TypeOK, Sweep
  <2>2. known' \in [Slot -> 0 .. MaxParts \cup {None}]
    <3>1. /\ known \in [Slot -> 0 .. MaxParts \cup {None}] /\ 0 \in 0 .. MaxParts
          /\ known' \in {known, [known EXCEPT ![sweep.slot] = 0]}
      BY <1>20, RingAssumption DEF SweepNextSlot, TypeOK
    <3> QED
      BY <3>1
  <2>3. TypeOK'
    BY <1>20, <2>1, <2>2 DEF SweepNextSlot, TypeOK, storeVars, bootVars, boundVars
  <2> QED
    BY <1>20, <2>3 DEF SweepNextSlot, storeVars, bootVars, ShasKnown, PartsLeft,
                       ProbedNamesSlot
<1>21. CASE SweepDone
  BY <1>21, NoneTypes
     DEF SweepDone, TypeOK, Running, storeVars, bootVars, ringVars, boundVars, ShasKnown,
         PartsLeft, ProbedNamesSlot
<1>22. CASE UNCHANGED vars
  BY <1>22 DEF vars, storeVars, bootVars, ringVars, boundVars, TypeOK, ShasKnown, PartsLeft,
               ProbedNamesSlot
<1> QED
  BY <1>1, <1>2, <1>3, <1>4, <1>5, <1>6, <1>7, <1>8, <1>9, <1>10, <1>11, <1>12, <1>13,
     <1>14, <1>15, <1>16, <1>17, <1>18, <1>19, <1>20, <1>21, <1>22
     DEF Next, AgentStep, Failure

\* Every state variable keeps to its type: no slot or part outside the ring is ever
\* targeted, swept or committed, and every count fits the part range.
THEOREM TypeCorrect == Spec => []TypeOK
<1>1. Spec => []TypeInv
  BY TypeInit, TypeNext, PTL DEF Spec
<1> QED
  BY <1>1, PTL DEF TypeInv
-----------------------------------------------------------------------------
(***************************************************************************)
(* Labels.  This holds whatever is lost, denied or applied late.           *)
(***************************************************************************)
\* Nothing is labelled in the initial state.
LEMMA LabelInit == Init => LabelInv
BY DEF Init, LabelInv, Honest, NoMeta, None

\* A step that leaves the metadata and the archives alone and the upload outside
\* of archiving, sending and committing keeps every label honest.
LEMMA LabelIdle ==
    ASSUME LabelInv, UNCHANGED <<meta, lateMeta, archives>>,
           pc' \notin {"archive", "parts", "commit"}
    PROVE  LabelInv'
BY DEF LabelInv, Honest

\* Every step keeps the labels honest.
LEMMA LabelNext == TypeInv /\ LabelInv /\ [Next]_vars => LabelInv'
<1> SUFFICES ASSUME TypeInv, LabelInv, [Next]_vars PROVE LabelInv'
  OBVIOUS
<1>0. /\ up \in Upload /\ archives \in Seq(Int) /\ dir \in Int
      /\ meta \in Meta /\ lateMeta \subseteq Meta
  BY DEF TypeInv, TypeOK
<1>1. CASE LateObjLands
  BY <1>1 DEF LateObjLands, LabelInv, Honest, NewMeta
<1>2. CASE LateMetaLands
  BY <1>2 DEF LateMetaLands, LabelInv, Honest, NewMeta
<1>3. CASE Crash
  BY <1>3, LabelIdle DEF Crash, AgentReset, storeVars
<1>4. CASE Boot
  BY <1>4, LabelIdle DEF Boot, storeVars
<1>5. CASE Probe
  BY <1>5, LabelIdle DEF Probe, NewRing, storeVars
<1>6. CASE Restore
  BY <1>6, LabelIdle DEF Restore, NewRing, AgentReset, storeVars
<1>7. CASE Work
  <2>1. pc = "archive" => up.label <= dir + 1
    BY <1>0 DEF LabelInv, Upload
  <2> QED
    BY <1>7, <2>1 DEF Work, storeVars, LabelInv, Honest, NewMeta
<1>8. CASE Scan
  BY <1>8, LabelIdle DEF Scan, storeVars
<1>9. CASE BeginUpload
  <2>1. pc' = "archive" /\ up'.label = dir /\ dir' = dir
    BY <1>9, <1>0 DEF BeginUpload, Upload
  <2> QED
    BY <1>9, <1>0, <2>1 DEF BeginUpload, storeVars, LabelInv, Honest
<1>10. CASE RereadFails
  BY <1>10, LabelIdle DEF RereadFails, FailUpload, storeVars
<1>11. CASE Archive
  <2>1. /\ Len(archives') = Len(archives) + 1 /\ Len(archives) \in Nat
        /\ archives'[Len(archives) + 1] = dir
        /\ \A i \in 1 .. Len(archives) : archives'[i] = archives[i]
    BY <1>11, <1>0 DEF Archive
  <2>2. /\ up'.sha = Len(archives) + 1 /\ up'.label = up.label /\ up'.parts \in 1 .. MaxParts
        /\ up.label <= dir
    BY <1>11, <1>0 DEF Archive, Upload, LabelInv
  <2>3. Honest(NewMeta)'
    BY <2>1, <2>2, RingAssumption DEF Honest, NewMeta
  <2>4. pc' = "parts" /\ UNCHANGED <<meta, lateMeta>>
    BY <1>11 DEF Archive, storeVars
  <2> QED
    BY <2>1, <2>3, <2>4 DEF LabelInv, Honest
<1>12. CASE ArchiveFails
  BY <1>12, LabelIdle DEF ArchiveFails, FailUpload, storeVars
<1>13. CASE PutPart
  <2>1. /\ up'.slot = up.slot /\ up'.parts = up.parts /\ up'.sha = up.sha
        /\ up'.label = up.label
    BY <1>13, <1>0 DEF PutPart, Upload
  <2>2. pc = "parts" /\ pc' \in {"parts", "commit"} /\ UNCHANGED <<meta, lateMeta, archives>>
    BY <1>13 DEF PutPart
  <2> QED
    BY <2>1, <2>2 DEF LabelInv, Honest, NewMeta
<1>14. CASE PutPartFails
  <2>1. UNCHANGED <<meta, lateMeta, archives>> /\ pc = "parts"
    BY <1>14 DEF PutPartFails, UnackedObj
  <2>2. CASE pc' = pc /\ up' = up
    BY <2>1, <2>2 DEF LabelInv, Honest, NewMeta
  <2>3. CASE pc' = "watch"
    BY <2>1, <2>3, LabelIdle
  <2> QED
    BY <1>14, <2>2, <2>3 DEF PutPartFails, FailUpload
<1>15. CASE CommitAcked
  <2>1. /\ meta' = NewMeta /\ Honest(NewMeta)
        /\ UNCHANGED <<lateMeta, archives>> /\ pc' = "reclaim"
    BY <1>15 DEF CommitAcked, LabelInv
  <2> QED
    BY <2>1 DEF LabelInv, Honest
<1>16. CASE CommitFails
  <2>1. /\ meta' \in {meta, NewMeta} /\ lateMeta' \subseteq lateMeta \cup {NewMeta}
        /\ Honest(NewMeta) /\ UNCHANGED archives /\ pc = "commit"
    BY <1>16, NewMetaType, UnackedMetaType DEF CommitFails, LabelInv, TypeInv
  <2>2. Honest(meta)' /\ \A m \in lateMeta' : Honest(m)'
    BY <2>1 DEF LabelInv, Honest
  <2>3. CASE pc' = "commit" /\ up' = [up EXCEPT !.attempt = @ + 1]
    <3>1. /\ up'.slot = up.slot /\ up'.parts = up.parts /\ up'.sha = up.sha
          /\ up'.label = up.label
      BY <1>0, <2>3 DEF Upload
    <3> QED
      BY <2>1, <2>2, <2>3, <3>1 DEF LabelInv, Honest, NewMeta
  <2>4. CASE pc' = "watch"
    BY <2>2, <2>4 DEF LabelInv
  <2> QED
    BY <1>16, <2>3, <2>4 DEF CommitFails, FailUpload
<1>17. CASE CommitRejected
  BY <1>17, LabelIdle DEF CommitRejected, FailUpload, storeVars
<1>18. CASE SweepPart
  BY <1>18, LabelIdle DEF SweepPart
<1>19. CASE SweepPartFails
  BY <1>19, LabelIdle DEF SweepPartFails, UnackedObj
<1>20. CASE SweepNextSlot
  BY <1>20, LabelIdle DEF SweepNextSlot, storeVars
<1>21. CASE SweepDone
  BY <1>21, LabelIdle DEF SweepDone, storeVars
<1>22. CASE UNCHANGED vars
  BY <1>22 DEF vars, storeVars, LabelInv, Honest, NewMeta
<1> QED
  BY <1>1, <1>2, <1>3, <1>4, <1>5, <1>6, <1>7, <1>8, <1>9, <1>10, <1>11, <1>12, <1>13,
     <1>14, <1>15, <1>16, <1>17, <1>18, <1>19, <1>20, <1>21, <1>22
     DEF Next, AgentStep, Failure

\* The committed step label never announces progress its archive does not hold,
\* for any ring, any number of parts and attempts, and any pattern of failures,
\* late requests and denied reads.
THEOREM LabelsHonest == Spec => []LabelNotAhead
<1>1. LabelInv => LabelNotAhead
  BY DEF LabelInv, Honest, LabelNotAhead, Saved
<1>2. Spec => [](TypeInv /\ LabelInv)
  BY TypeInit, TypeNext, LabelInit, LabelNext, PTL DEF Spec
<1> QED
  BY <1>1, <1>2, PTL
-----------------------------------------------------------------------------
(***************************************************************************)
(* The commit protocol, on a store that applies a request or never does.   *)
(***************************************************************************)
\* On a prompt store an unanswered part PUT or DELETE took effect or never will.
LEMMA PromptObj ==
    ASSUME PromptStore, lateObj = {}, NEW s, NEW p, NEW sha, UnackedObj(s, p, sha)
    PROVE  /\ lateObj' = {} /\ meta' = meta /\ lateMeta' = lateMeta
           /\ SetObj(s, p, sha) \/ obj' = obj
BY FS_EmptySet DEF PromptStore, UnackedObj

\* The same for a metadata PUT.
LEMMA PromptMeta ==
    ASSUME PromptStore, lateMeta = {}, NEW m, UnackedMeta(m)
    PROVE  /\ lateMeta' = {} /\ obj' = obj /\ lateObj' = lateObj
           /\ meta' \in {meta, m}
BY FS_EmptySet DEF PromptStore, UnackedMeta

\* The empty store satisfies the ring invariant.
LEMMA RingInit == Init => RingInv
BY DEF Init, RingInv, MetaReadable, NoMeta, None, Running, Uploading

\* Outside a running upload nothing has to be known about the ring.
LEMMA RingIdle ==
    ASSUME RingInv, UNCHANGED storeVars, pc' \in {"down", "probe"}
    PROVE  RingInv'
BY DEF RingInv, MetaReadable, storeVars, Running, Uploading

\* A pass that gives up before the commit leaves what the ring knows as it was.
LEMMA RingBack ==
    ASSUME RingInv, UNCHANGED storeVars, UNCHANGED <<live, liveUncertain>>,
           pc \in Running \ {"commit"}, pc' \in {"watch", "scan"}
    PROVE  RingInv'
BY DEF RingInv, MetaReadable, storeVars, Running, Uploading

\* Writing or deleting a part of a slot the metadata does not name leaves the
\* committed checkpoint alone.
LEMMA OtherSlotReadable ==
    ASSUME TypeOK, MetaReadable, NEW s \in Slot, NEW p \in Part, NEW sha \in Nat,
           s # meta.slot, SetObj(s, p, sha), meta' = meta
    PROVE  MetaReadable'
<1>1. /\ obj \in [Slot -> [Part -> Nat]] /\ meta \in Meta
  BY DEF TypeOK
<1>2. \A t \in Slot, q \in Part : t # s => obj'[t][q] = obj[t][q]
  BY <1>1, SetObjType
<1>3. \A q \in 0 .. meta.parts - 1 : q \in Part
  BY <1>1, RingAssumption DEF Meta, Part
<1>4. meta.slot # None => meta.slot \in Slot
  BY <1>1 DEF Meta
<1> QED
  BY <1>2, <1>3, <1>4 DEF MetaReadable

\* Every step keeps the ring invariant.
LEMMA RingNext == PromptStore /\ TypeInv /\ RingInv /\ [Next]_vars => RingInv'
<1> SUFFICES ASSUME PromptStore, TypeInv, RingInv, [Next]_vars PROVE RingInv'
  OBVIOUS
<1>0. /\ TypeOK /\ up \in Upload /\ meta \in Meta /\ live \in Slot \cup {None}
      /\ obj \in [Slot -> [Part -> Nat]]
      /\ lateObj = {} /\ lateMeta = {} /\ MetaReadable
  BY DEF TypeInv, TypeOK, RingInv
<1>1. CASE LateObjLands
  BY <1>0, <1>1 DEF LateObjLands
<1>2. CASE LateMetaLands
  BY <1>0, <1>2 DEF LateMetaLands
<1>3. CASE Crash
  BY <1>3, RingIdle DEF Crash, AgentReset
<1>4. CASE Boot
  BY <1>4, RingIdle DEF Boot
<1>5. CASE Probe
  <2>1. FetchMeta = {meta}
    BY DEF FetchMeta, PromptStore
  <2>2. CASE meta.slot = None /\ NewRing(None, FALSE)
    BY <1>5, <2>2 DEF Probe, NewRing, RingInv, MetaReadable, storeVars, Running, Uploading
  <2>3. CASE meta.slot # None /\ probed' = meta /\ pc' = "restore"
    BY <1>5, <2>3 DEF Probe, RingInv, MetaReadable, storeVars, Running, Uploading
  <2> QED
    BY <1>5, <2>1, <2>2, <2>3 DEF Probe
<1>6. CASE Restore
  <2>1. probed = meta
    BY <1>6 DEF Restore, RingInv
  <2>2. CASE pc' = "watch" /\ live' = meta.slot
    BY <1>6, <2>2 DEF Restore, RingInv, MetaReadable, storeVars, Running, Uploading
  <2>3. CASE pc' = "down"
    BY <1>6, <2>3, RingIdle DEF Restore
  <2> QED
    BY <1>6, <2>1, <2>2, <2>3 DEF Restore, NewRing, AgentReset
<1>7. CASE Work
  BY <1>7 DEF Work, RingInv, MetaReadable, storeVars, bootVars, ringVars, NewMeta
<1>8. CASE Scan
  BY <1>8, RingBack DEF Scan, ringVars, Running
<1>9. CASE BeginUpload
  <2>1. PICK lv \in ResolvedLive : live' = lv /\ up'.slot = Target(lv)
    BY <1>9, <1>0 DEF BeginUpload, Upload
  <2>2. lv = meta.slot
    BY <1>9, <2>1 DEF BeginUpload, ResolvedLive, FetchMeta, PromptStore, RingInv, Running,
                      Uploading
  <2>3. up'.slot # meta.slot
    BY <1>0, <2>1, <2>2, TargetIsFree DEF Meta
  <2> QED
    BY <1>9, <2>1, <2>2, <2>3
       DEF BeginUpload, RingInv, MetaReadable, storeVars, Running, Uploading
<1>10. CASE RereadFails
  BY <1>10, RingBack DEF RereadFails, FailUpload, ringVars, Running, Uploading
<1>11. CASE Archive
  <2>1. up'.slot = up.slot /\ up'.next = 0 /\ pc = "archive" /\ pc' = "parts"
    BY <1>11, <1>0 DEF Archive, Upload
  <2> QED
    BY <1>11, <2>1 DEF Archive, RingInv, MetaReadable, storeVars, ringVars, Running, Uploading
<1>12. CASE ArchiveFails
  BY <1>12, RingBack DEF ArchiveFails, FailUpload, ringVars, Running, Uploading
<1>13. CASE PutPart
  <2>1. /\ up.slot \in Slot /\ up.next \in Part /\ up.sha \in Nat /\ up.next < up.parts
        /\ up.next \in 0 .. MaxParts /\ up.parts \in 0 .. MaxParts
    <3>1. up.next < up.parts
      BY <1>13 DEF PutPart, TypeInv, PartsLeft
    <3> QED
      BY <1>0, <3>1, RingAssumption DEF Upload, Part
  <2>2. /\ up.slot # meta.slot /\ ~liveUncertain /\ live = meta.slot
        /\ \A i \in 0 .. up.next - 1 : obj[up.slot][i] = up.sha
    BY <1>13 DEF PutPart, RingInv, Running, Uploading
  <2>3. MetaReadable'
    BY <1>0, <1>13, <2>1, <2>2, OtherSlotReadable DEF PutPart
  <2>4. /\ up'.slot = up.slot /\ up'.next = up.next + 1 /\ up'.sha = up.sha
        /\ up'.parts = up.parts
    BY <1>0, <1>13 DEF PutPart, Upload
  <2>5. \A i \in 0 .. up'.next - 1 : obj'[up'.slot][i] = up'.sha
    <3>1. \A i \in 0 .. up.next : i \in Part
      BY <2>1, RingAssumption DEF Part
    <3>2. obj'[up.slot][up.next] = up.sha
      BY <1>0, <1>13, <2>1, SetObjType DEF PutPart
    <3>3. \A i \in Part : i # up.next => obj'[up.slot][i] = obj[up.slot][i]
      BY <1>0, <1>13, <2>1, SetObjType DEF PutPart
    <3> QED
      BY <2>1, <2>2, <2>4, <3>1, <3>2, <3>3
  <2>6. /\ pc' \in {"parts", "commit"} /\ (pc' = "commit" => up'.next = up'.parts)
        /\ UNCHANGED <<meta, lateObj, lateMeta, live, liveUncertain>>
    BY <1>13, <2>4 DEF PutPart, ringVars
  <2> QED
    BY <1>0, <2>2, <2>3, <2>4, <2>5, <2>6 DEF RingInv, Running, Uploading
<1>14. CASE PutPartFails
  <2>1. /\ up.slot \in Slot /\ up.next \in Part /\ up.sha \in Nat /\ up.next < up.parts
        /\ up.next \in 0 .. MaxParts /\ up.parts \in 0 .. MaxParts
    <3>1. up.next < up.parts
      BY <1>14 DEF PutPartFails, TypeInv, PartsLeft
    <3> QED
      BY <1>0, <3>1, RingAssumption DEF Upload, Part
  <2>2. /\ up.slot # meta.slot /\ ~liveUncertain /\ live = meta.slot
        /\ \A i \in 0 .. up.next - 1 : obj[up.slot][i] = up.sha
    BY <1>14 DEF PutPartFails, RingInv, Running, Uploading
  <2>3. /\ lateObj' = {} /\ meta' = meta /\ lateMeta' = {}
        /\ SetObj(up.slot, up.next, up.sha) \/ obj' = obj
    BY <1>0, <1>14, PromptObj DEF PutPartFails
  <2>4. MetaReadable'
    <3>1. CASE obj' = obj
      BY <1>0, <2>3, <3>1 DEF MetaReadable
    <3>2. CASE SetObj(up.slot, up.next, up.sha)
      BY <1>0, <2>1, <2>2, <2>3, <3>2, OtherSlotReadable
    <3> QED
      BY <2>3, <3>1, <3>2
  <2>5. \A i \in 0 .. up.next - 1 : obj'[up.slot][i] = up.sha
    <3>1. \A i \in 0 .. up.next - 1 : i \in Part /\ i # up.next
      BY <2>1, RingAssumption DEF Part
    <3>2. \A i \in Part : i # up.next => obj'[up.slot][i] = obj[up.slot][i]
      BY <1>0, <2>1, <2>3, SetObjType
    <3> QED
      BY <2>2, <3>1, <3>2
  <2>6. UNCHANGED <<live, liveUncertain>> /\ pc = "parts"
    BY <1>14 DEF PutPartFails, ringVars
  <2>7. CASE pc' = pc /\ up' = up
    BY <2>2, <2>3, <2>4, <2>5, <2>6, <2>7 DEF RingInv, Running, Uploading
  <2>8. CASE pc' = "watch"
    BY <2>2, <2>3, <2>4, <2>6, <2>8 DEF RingInv, Running, Uploading
  <2> QED
    BY <1>14, <2>7, <2>8 DEF PutPartFails, FailUpload
<1>15. CASE CommitAcked
  <2>1. /\ \A i \in 0 .. up.parts - 1 : obj[up.slot][i] = up.sha
        /\ ~liveUncertain
    BY <1>15 DEF CommitAcked, RingInv
  <2>2. /\ meta' = NewMeta /\ live' = up.slot /\ pc' = "reclaim"
        /\ UNCHANGED <<obj, lateObj, lateMeta, liveUncertain>>
    BY <1>15 DEF CommitAcked
  <2>3. MetaReadable'
    BY <2>1, <2>2 DEF MetaReadable, NewMeta
  <2>4. live' = meta'.slot
    BY <2>2 DEF NewMeta
  <2> QED
    BY <1>0, <2>1, <2>2, <2>3, <2>4 DEF RingInv, Running, Uploading
<1>16. CASE CommitFails
  <2>1. /\ \A i \in 0 .. up.parts - 1 : obj[up.slot][i] = up.sha
        /\ up.next = up.parts /\ ~liveUncertain
        /\ up.slot # meta.slot \/ meta = NewMeta
    BY <1>16 DEF CommitFails, RingInv
  <2>2. /\ meta' \in {meta, NewMeta} /\ obj' = obj /\ lateObj' = {} /\ lateMeta' = {}
    BY <1>0, <1>16, PromptMeta DEF CommitFails
  <2>3. MetaReadable'
    BY <1>0, <2>1, <2>2 DEF MetaReadable, NewMeta
  <2>4. CASE /\ up' = [up EXCEPT !.attempt = @ + 1]
             /\ UNCHANGED <<pc, liveUncertain>>
    <3>1. /\ up'.slot = up.slot /\ up'.next = up.next /\ up'.parts = up.parts
          /\ up'.sha = up.sha /\ up'.label = up.label
      BY <1>0, <2>4 DEF Upload
    <3>2. NewMeta' = NewMeta
      BY <3>1 DEF NewMeta
    <3>3. pc = "commit"
      BY <1>16 DEF CommitFails
    <3> QED
      BY <2>1, <2>2, <2>3, <2>4, <3>1, <3>2, <3>3 DEF RingInv, Running, Uploading
  <2>5. CASE pc' = "watch" /\ liveUncertain'
    BY <2>2, <2>3, <2>5 DEF RingInv, Running, Uploading
  <2> QED
    BY <1>16, <2>4, <2>5 DEF CommitFails, FailUpload
<1>17. CASE CommitRejected
  BY <1>17 DEF CommitRejected, FailUpload, storeVars, RingInv, MetaReadable, Running, Uploading
<1>18. CASE SweepPart
  <2>1. /\ sweep.slot \in Slot /\ sweep.slot # live /\ sweep.part \in Part /\ NoObject \in Nat
    BY <1>0, <1>18, SweepInRange DEF SweepPart, NoObject
  <2>2. live = meta.slot /\ ~liveUncertain
    BY <1>18 DEF SweepPart, RingInv, Running
  <2>3. MetaReadable'
    BY <1>0, <1>18, <2>1, <2>2, OtherSlotReadable DEF SweepPart
  <2> QED
    BY <1>18, <2>2, <2>3 DEF SweepPart, RingInv, ringVars
<1>19. CASE SweepPartFails
  <2>1. /\ sweep.slot \in Slot /\ sweep.slot # live /\ sweep.part \in Part /\ NoObject \in Nat
    BY <1>0, <1>19, SweepInRange DEF SweepPartFails, NoObject
  <2>2. live = meta.slot /\ ~liveUncertain
    BY <1>19 DEF SweepPartFails, RingInv, Running
  <2>3. /\ lateObj' = {} /\ meta' = meta /\ lateMeta' = {}
        /\ SetObj(sweep.slot, sweep.part, NoObject) \/ obj' = obj
    BY <1>0, <1>19, PromptObj DEF SweepPartFails
  <2>4. MetaReadable'
    <3>1. CASE obj' = obj
      BY <1>0, <2>3, <3>1 DEF MetaReadable
    <3>2. CASE SetObj(sweep.slot, sweep.part, NoObject)
      BY <1>0, <2>1, <2>2, <2>3, <3>2, OtherSlotReadable
    <3> QED
      BY <2>3, <3>1, <3>2
  <2> QED
    BY <1>19, <2>2, <2>3, <2>4 DEF SweepPartFails, RingInv, ringVars
<1>20. CASE SweepNextSlot
  BY <1>20 DEF SweepNextSlot, storeVars, RingInv, MetaReadable
<1>21. CASE SweepDone
  BY <1>21, RingBack DEF SweepDone, ringVars, Running
<1>22. CASE UNCHANGED vars
  BY <1>22 DEF vars, storeVars, ringVars, bootVars, RingInv, MetaReadable, NewMeta
<1> QED
  BY <1>1, <1>2, <1>3, <1>4, <1>5, <1>6, <1>7, <1>8, <1>9, <1>10, <1>11, <1>12, <1>13,
     <1>14, <1>15, <1>16, <1>17, <1>18, <1>19, <1>20, <1>21, <1>22
     DEF Next, AgentStep, Failure

\* Whatever requests fail, whichever acknowledgements are lost and wherever nodes
\* die, the committed metadata names a slot that holds exactly the parts it
\* describes, for any number of slots, parts and commit attempts.
THEOREM CommittedIsReadable ==
    ASSUME PromptStore
    PROVE  Spec => []MetaReadable
<1>1. TypeInv /\ RingInv /\ [Next]_vars => RingInv'
  BY RingNext
<1>2. Spec => [](TypeInv /\ RingInv)
  BY <1>1, TypeInit, TypeNext, RingInit, PTL DEF Spec
<1>3. RingInv => MetaReadable
  BY DEF RingInv
<1> QED
  BY <1>2, <1>3, PTL
-----------------------------------------------------------------------------
(***************************************************************************)
(* The ring implements the one-register store.                             *)
(***************************************************************************)
\* The initial states are those of the store.
LEMMA StoreInit == Init => StoreInv /\ Store!Init
BY DEF Init, StoreInv, Saved, NoMeta, None, Running, Uploading, Store!Init

\* What is saved changes only with the metadata: archives are never rewritten.
LEMMA SavedKept ==
    ASSUME TypeOK, LabelInv, meta' = meta,
           archives' = archives \/ archives' = Append(archives, dir)
    PROVE  Saved' = Saved
<1>1. archives \in Seq(Int) /\ dir \in Int
  BY DEF TypeOK
<1>2. meta.slot # None => meta.sha \in 1 .. Len(archives)
  BY DEF LabelInv, Honest
<1>3. \A i \in 1 .. Len(archives) : archives'[i] = archives[i]
  BY <1>1
<1> QED
  BY <1>2, <1>3 DEF Saved

\* Steps a user of the store does not see.
LEMMA StoreQuiet ==
    ASSUME TypeOK, LabelInv, StoreInv, dir' = dir, meta' = meta, archives' = archives,
           \/ pc \in Running /\ pc' \in Running
           \/ pc \notin Running /\ pc' \notin Running,
           pc' \in {"parts", "commit"} => pc \in {"parts", "commit"} /\ up'.sha = up.sha
    PROVE  StoreInv' /\ UNCHANGED Store!vars
<1>1. Saved' = Saved
  BY SavedKept
<1>2. StoreInv'
  BY <1>1 DEF StoreInv
<1>3. (pc \in Running)' = (pc \in Running)
  OBVIOUS
<1> QED
  BY <1>1, <1>2, <1>3 DEF Store!vars

\* The node or the agent is gone.
LEMMA StoreLost ==
    ASSUME TypeOK, LabelInv, StoreInv, AgentReset, meta' = meta, archives' = archives
    PROVE  StoreInv' /\ [Store!Next]_(Store!vars)
<1>1. Saved' = Saved
  BY SavedKept
<1>2. pc' = "down" /\ pc' \notin Running /\ dir' = 0
  BY DEF AgentReset, Running, Uploading
<1>3. StoreInv'
  BY <1>2 DEF StoreInv
<1>4. CASE pc \in Running
  BY <1>1, <1>2, <1>3, <1>4 DEF Store!Next, Store!Lose
<1>5. CASE pc \notin Running
  <2>1. dir = 0
    BY <1>5 DEF StoreInv
  <2>2. (pc \in Running)' = (pc \in Running)
    BY <1>2, <1>5
  <2> QED
    BY <1>1, <1>2, <1>3, <2>1, <2>2 DEF Store!vars
<1> QED
  BY <1>4, <1>5

\* A life begins with what is saved.
LEMMA StoreResumed ==
    ASSUME TypeOK, LabelInv, StoreInv, pc \notin Running, pc' = "watch", dir' = Saved,
           meta' = meta, archives' = archives
    PROVE  StoreInv' /\ Store!Resume
<1>1. Saved' = Saved
  BY SavedKept
<1>2. pc' \in Running
  BY DEF Running
<1>3. Saved \in Int
  BY DEF Saved, TypeOK, LabelInv, Honest
<1> QED
  BY <1>1, <1>2, <1>3 DEF StoreInv, Store!Resume

\* Every step of the ring is a step of the store or invisible to its user.
LEMMA StoreNext ==
    PromptStore /\ TypeInv /\ LabelInv /\ RingInv /\ StoreInv /\ [Next]_vars
        => StoreInv' /\ [Store!Next]_(Store!vars)
<1> SUFFICES ASSUME PromptStore, TypeInv, LabelInv, RingInv, StoreInv, [Next]_vars
             PROVE  StoreInv' /\ [Store!Next]_(Store!vars)
  OBVIOUS
<1>0. /\ TypeOK /\ up \in Upload /\ meta \in Meta /\ archives \in Seq(Int)
      /\ dir \in Int /\ lateObj = {} /\ lateMeta = {}
  BY DEF TypeInv, TypeOK, RingInv
<1>1. CASE LateObjLands
  BY <1>0, <1>1 DEF LateObjLands
<1>2. CASE LateMetaLands
  BY <1>0, <1>2 DEF LateMetaLands
<1>3. CASE Crash
  BY <1>0, <1>3, StoreLost DEF Crash, storeVars
<1>4. CASE Boot
  BY <1>0, <1>4, StoreQuiet DEF Boot, storeVars, Running, Uploading
<1>5. CASE Probe
  <2>1. FetchMeta = {meta} /\ pc \notin Running /\ dir = 0
    BY <1>5 DEF Probe, FetchMeta, PromptStore, StoreInv, Running, Uploading
  <2>2. meta' = meta /\ archives' = archives /\ dir' = dir
    BY <1>5 DEF Probe, storeVars
  <2>3. CASE meta.slot = None /\ pc' = "watch"
    BY <1>0, <2>1, <2>2, <2>3, StoreResumed DEF Saved, Store!Next
  <2>4. CASE pc' = "restore"
    BY <1>0, <2>1, <2>2, <2>4, StoreQuiet DEF Running, Uploading
  <2> QED
    BY <1>5, <2>1, <2>3, <2>4 DEF Probe, NewRing
<1>6. CASE Restore
  <2>1. /\ probed = meta /\ meta.slot # None /\ pc \notin Running
        /\ meta' = meta /\ archives' = archives
    BY <1>6 DEF Restore, RingInv, TypeInv, ProbedNamesSlot, storeVars, Running, Uploading
  <2>2. CASE AgentReset
    BY <1>0, <2>1, <2>2, StoreLost
  <2>3. CASE /\ ShaMatches(meta) /\ pc' = "watch"
             /\ dir' = IF meta.parts = 0 THEN 0 ELSE Extracted(meta)
    <3>1. meta.parts >= 1 /\ meta.parts \in Nat /\ meta.sha \in 1 .. Len(archives)
      BY <1>0, <2>1 DEF LabelInv, Honest, Meta
    <3>2. \A p \in 0 .. meta.parts - 1 : obj[meta.slot][p] = meta.sha
      BY <2>3 DEF ShaMatches
    <3>3. obj[meta.slot][0] = meta.sha /\ meta.sha # NoObject
      BY <3>1, <3>2 DEF NoObject
    <3>4. Extracted(meta) = archives[meta.sha]
      BY <3>2, <3>3 DEF Extracted
    <3>5. dir' = Saved
      BY <2>1, <2>3, <3>1, <3>4 DEF Saved
    <3> QED
      BY <1>0, <2>1, <2>3, <3>5, StoreResumed DEF Store!Next
  <2> QED
    BY <1>6, <2>1, <2>2, <2>3 DEF Restore, NewRing
<1>7. CASE Work
  <2>1. /\ pc \in Running /\ pc' = pc /\ dir' = dir + 1
        /\ UNCHANGED <<meta, archives, up>>
    BY <1>7 DEF Work, storeVars
  <2>2. Saved' = Saved
    BY <1>0, <2>1, SavedKept
  <2>3. Saved \in Int
    BY <1>0 DEF Saved, LabelInv, Honest
  <2>4. pc \in {"parts", "commit"} => archives[up.sha] \in Int
    BY <1>0 DEF LabelInv, Honest, NewMeta, Upload, Slot, None
  <2>5. StoreInv'
    BY <1>0, <2>1, <2>2, <2>3, <2>4 DEF StoreInv
  <2>6. Store!Work
    BY <2>1, <2>2 DEF Store!Work
  <2> QED
    BY <2>5, <2>6 DEF Store!Next
<1>8. CASE Scan
  BY <1>0, <1>8, StoreQuiet DEF Scan, storeVars, Running, Uploading
<1>9. CASE BeginUpload
  BY <1>0, <1>9, StoreQuiet DEF BeginUpload, storeVars, Running, Uploading
<1>10. CASE RereadFails
  BY <1>0, <1>10, StoreQuiet DEF RereadFails, FailUpload, storeVars, Running, Uploading
<1>11. CASE Archive
  <2>1. /\ archives' = Append(archives, dir) /\ dir' = dir /\ meta' = meta
        /\ pc = "archive" /\ pc' = "parts" /\ up'.sha = Len(archives) + 1
    BY <1>0, <1>11 DEF Archive, storeVars, Upload
  <2>2. Saved' = Saved
    BY <1>0, <2>1, SavedKept
  <2>3. archives'[up'.sha] = dir
    BY <1>0, <2>1
  <2>4. pc \in Running /\ pc' \in Running /\ Saved <= dir
    BY <2>1 DEF Running, Uploading, StoreInv
  <2>5. StoreInv'
    BY <1>0, <2>1, <2>2, <2>3, <2>4 DEF StoreInv
  <2> QED
    BY <2>1, <2>2, <2>4, <2>5 DEF Store!vars
<1>12. CASE ArchiveFails
  BY <1>0, <1>12, StoreQuiet DEF ArchiveFails, FailUpload, storeVars, Running, Uploading
<1>13. CASE PutPart
  <2>1. up'.sha = up.sha /\ pc = "parts" /\ pc' \in {"parts", "commit"}
    BY <1>0, <1>13 DEF PutPart, Upload
  <2> QED
    BY <1>0, <1>13, <2>1, StoreQuiet DEF PutPart, Running, Uploading
<1>14. CASE PutPartFails
  BY <1>0, <1>14, StoreQuiet DEF PutPartFails, UnackedObj, FailUpload, Running, Uploading
<1>15. CASE CommitAcked
  <2>1. /\ meta' = NewMeta /\ archives' = archives /\ dir' = dir
        /\ pc = "commit" /\ pc' = "reclaim" /\ pc \in Running /\ pc' \in Running
    BY <1>15 DEF CommitAcked, Running, Uploading
  <2>2. Saved' = archives[up.sha]
    BY <1>0, <2>1, NewMetaType DEF Saved, NewMeta
  <2>3. Saved <= archives[up.sha] /\ archives[up.sha] <= dir
    BY <2>1 DEF StoreInv
  <2>4. Saved \in Int /\ archives[up.sha] \in Int
    BY <1>0, <2>1 DEF Saved, LabelInv, Honest, NewMeta, Upload, Slot, None
  <2>5. StoreInv'
    BY <2>1, <2>2, <2>3 DEF StoreInv
  <2>6. Store!Save
    BY <1>0, <2>1, <2>2, <2>3, <2>4 DEF Store!Save
  <2> QED
    BY <2>5, <2>6 DEF Store!Next
<1>16. CASE CommitFails
  <2>1. /\ meta' \in {meta, NewMeta} /\ archives' = archives /\ dir' = dir
        /\ pc = "commit" /\ pc' \in {"commit", "watch"} /\ pc \in Running /\ pc' \in Running
    BY <1>0, <1>16, PromptMeta DEF CommitFails, FailUpload, Running, Uploading
  <2>2. pc' = "commit" => up'.sha = up.sha
    BY <1>0, <1>16 DEF CommitFails, FailUpload, Upload
  <2>3. CASE meta' = meta
    BY <1>0, <2>1, <2>2, <2>3, StoreQuiet
  <2>4. CASE meta' = NewMeta
    <3>1. Saved' = archives[up.sha]
      BY <1>0, <2>1, <2>4, NewMetaType DEF Saved, NewMeta
    <3>2. Saved <= archives[up.sha] /\ archives[up.sha] <= dir
      BY <2>1 DEF StoreInv
    <3>3. Saved \in Int /\ archives[up.sha] \in Int
      BY <1>0, <2>1 DEF Saved, LabelInv, Honest, NewMeta, Upload, Slot, None
    <3>4. StoreInv'
      BY <1>0, <2>1, <2>2, <3>1, <3>2, <3>3 DEF StoreInv
    <3>5. Store!Save
      BY <1>0, <2>1, <3>1, <3>2, <3>3 DEF Store!Save
    <3> QED
      BY <3>4, <3>5 DEF Store!Next
  <2> QED
    BY <2>1, <2>3, <2>4
<1>17. CASE CommitRejected
  BY <1>0, <1>17, StoreQuiet DEF CommitRejected, FailUpload, storeVars, Running, Uploading
<1>18. CASE SweepPart
  BY <1>0, <1>18, StoreQuiet DEF SweepPart, Running
<1>19. CASE SweepPartFails
  BY <1>0, <1>19, StoreQuiet DEF SweepPartFails, UnackedObj, Running
<1>20. CASE SweepNextSlot
  BY <1>0, <1>20, StoreQuiet DEF SweepNextSlot, storeVars, Running
<1>21. CASE SweepDone
  BY <1>0, <1>21, StoreQuiet DEF SweepDone, storeVars, Running
<1>22. CASE UNCHANGED vars
  BY <1>0, <1>22, StoreQuiet DEF vars, storeVars
<1> QED
  BY <1>1, <1>2, <1>3, <1>4, <1>5, <1>6, <1>7, <1>8, <1>9, <1>10, <1>11, <1>12, <1>13,
     <1>14, <1>15, <1>16, <1>17, <1>18, <1>19, <1>20, <1>21, <1>22
     DEF Next, AgentStep, Failure

\* Every life starts from exactly what was saved, and what is saved only moves
\* forward, to progress the job has really made: the ring, with its parts, commits,
\* retries, re-reads and sweeps, implements CheckpointStore.
THEOREM RingImplementsStore ==
    ASSUME PromptStore
    PROVE  Spec => ImplementsStore
<1>1. TypeInv /\ RingInv /\ [Next]_vars => RingInv'
  BY RingNext
<1>2. TypeInv /\ LabelInv /\ RingInv /\ StoreInv /\ [Next]_vars
          => StoreInv' /\ [Store!Next]_(Store!vars)
  BY StoreNext
<1>3. Spec => []((TypeInv /\ LabelInv /\ RingInv) /\ StoreInv)
  BY <1>1, <1>2, TypeInit, TypeNext, LabelInit, LabelNext, RingInit, StoreInit, PTL DEF Spec
<1> QED
  BY <1>2, <1>3, StoreInit, PTL DEF Spec, ImplementsStore, Store!Spec
-----------------------------------------------------------------------------
(***************************************************************************)
(* What a job resumes from.                                                *)
(***************************************************************************)
\* Archives hold progress, and the metadata a restore works on described an archive
\* when it was probed: no archive is built meanwhile.
SoundInv ==
    /\ dir >= 0
    /\ \A i \in 1 .. Len(archives) : archives[i] >= 0
    /\ pc = "restore" => Honest(probed)

\* Every step keeps what a restore works on sound.
LEMMA SoundNext == TypeInv /\ LabelInv /\ SoundInv /\ [Next]_vars => SoundInv'
<1> SUFFICES ASSUME TypeInv, LabelInv, SoundInv, [Next]_vars PROVE SoundInv'
  OBVIOUS
<1>0. archives \in Seq(Int) /\ dir \in Int /\ probed \in Meta /\ meta \in Meta
  BY DEF TypeInv, TypeOK
<1>1. CASE UNCHANGED <<dir, archives>> /\ pc' # "restore"
  BY <1>1 DEF SoundInv
<1>2. CASE Crash
  BY <1>2 DEF Crash, AgentReset, SoundInv
<1>3. CASE Probe
  <2>1. UNCHANGED <<dir, archives>>
    BY <1>3 DEF Probe
  <2>2. PICK seen \in FetchMeta :
            \/ seen.slot = None /\ pc' = "watch"
            \/ seen.slot # None /\ probed' = seen
    BY <1>3 DEF Probe, NewRing
  <2>3. seen.slot # None => seen = meta
    BY <2>2 DEF FetchMeta, NoMeta
  <2> QED
    BY <1>1, <2>1, <2>2, <2>3 DEF SoundInv, LabelInv, Honest
<1>4. CASE Restore
  <2>1. pc = "restore" /\ Honest(probed) /\ probed.slot # None /\ archives' = archives
    BY <1>4 DEF Restore, SoundInv, TypeInv, ProbedNamesSlot
  <2>2. CASE ShaMatches(probed) /\ dir' = (IF probed.parts = 0 THEN 0 ELSE Extracted(probed))
    <3>1. probed.parts \in Nat /\ probed.parts >= 1 /\ probed.sha \in 1 .. Len(archives)
      BY <1>0, <2>1, RingAssumption DEF Honest, Meta
    <3>2. \A p \in 0 .. probed.parts - 1 : obj[probed.slot][p] = probed.sha
      BY <2>2 DEF ShaMatches
    <3>3. 0 \in 0 .. probed.parts - 1 /\ probed.sha # NoObject
      BY <3>1 DEF NoObject
    <3>4. Extracted(probed) = archives[probed.sha]
      BY <3>2, <3>3 DEF Extracted
    <3> QED
      BY <1>4, <2>1, <2>2, <3>1, <3>4 DEF Restore, NewRing, AgentReset, SoundInv
  <2>3. CASE pc' = "down" /\ dir' = 0
    BY <2>1, <2>3 DEF SoundInv
  <2> QED
    BY <1>4, <2>2, <2>3 DEF Restore, AgentReset
<1>5. CASE Work
  BY <1>0, <1>5 DEF Work, Running, Uploading, SoundInv
<1>6. CASE Archive
  <2>1. /\ Len(archives') = Len(archives) + 1 /\ Len(archives) \in Nat
        /\ archives'[Len(archives) + 1] = dir
        /\ \A i \in 1 .. Len(archives) : archives'[i] = archives[i]
    BY <1>6, <1>0 DEF Archive
  <2>2. dir' = dir /\ pc' = "parts"
    BY <1>6 DEF Archive
  <2> QED
    BY <2>1, <2>2 DEF SoundInv
<1>7. CASE LateObjLands \/ LateMetaLands \/ UNCHANGED vars
  <2>1. UNCHANGED <<dir, archives, pc, probed>>
    BY <1>7 DEF LateObjLands, LateMetaLands, vars, bootVars
  <2> QED
    BY <2>1 DEF SoundInv, Honest
<1>8. CASE Boot \/ Scan \/ BeginUpload \/ RereadFails \/ ArchiveFails \/ CommitRejected
  BY <1>1, <1>8
     DEF Boot, Scan, BeginUpload, RereadFails, ArchiveFails, CommitRejected, FailUpload
<1>9. CASE PutPart \/ PutPartFails \/ CommitAcked \/ CommitFails
  BY <1>1, <1>9 DEF PutPart, PutPartFails, CommitAcked, CommitFails, FailUpload
<1>10. CASE SweepPart \/ SweepPartFails \/ SweepNextSlot \/ SweepDone
  BY <1>1, <1>10 DEF SweepPart, SweepPartFails, SweepNextSlot, SweepDone
<1> QED
  BY <1>2, <1>3, <1>4, <1>5, <1>6, <1>7, <1>8, <1>9, <1>10 DEF Next, AgentStep, Failure

\* A job never runs on a directory pieced together from several archives, for all
\* constants: also when storage applies abandoned requests late and denies reads.
THEOREM RestoresAreWhole == Spec => []NeverRunsOnTornRestore
<1>1. Init => SoundInv
  BY DEF Init, SoundInv
<1>2. SoundInv => NeverRunsOnTornRestore
  BY DEF SoundInv, NeverRunsOnTornRestore, Torn
<1>3. Spec => [](TypeInv /\ LabelInv /\ SoundInv)
  BY <1>1, TypeInit, TypeNext, LabelInit, LabelNext, SoundNext, PTL DEF Spec
<1> QED
  BY <1>2, <1>3, PTL
-----------------------------------------------------------------------------
(***************************************************************************)
(* What reclaim still knows of.                                            *)
(***************************************************************************)
\* The target's parts lie below the count it had before the upload, or below what the
\* upload has sent; and of a slot being swept the parts passed are gone.
TargetHeld(sent) ==
    up.prior # None => \A p \in Part : obj[up.slot][p] # NoObject => p < up.prior \/ p < sent

SweptClean ==
    pc = "reclaim" /\ sweep.slot < NSlots /\ sweep.slot # live /\ ~sweep.failed
        => \A p \in Part : p < sweep.part => obj[sweep.slot][p] = NoObject

Resumed == pc \in Running /\ hadRemote

CoverInv ==
    /\ lateObj = {}
    /\ Resumed =>
          /\ Covered
          /\ pc \in {"archive", "parts", "commit"} => known[up.slot] = None
          /\ pc = "archive" => TargetHeld(0)
          /\ pc = "parts" => TargetHeld(up.next + 1)
          /\ pc = "commit" => TargetHeld(up.parts)
          /\ SweptClean

\* A step that leaves the objects and the counts alone and goes to none of the steps
\* of an upload or a sweep keeps every object within reach.
LEMMA CoverIdle ==
    ASSUME CoverInv, UNCHANGED <<obj, lateObj, known>>, Resumed' => Resumed,
           pc' \notin {"archive", "parts", "commit", "reclaim"}
    PROVE  CoverInv'
BY DEF CoverInv, Covered, SweptClean

\* Every step keeps every object within reach.
LEMMA CoverNext == MaxLateParts = 0 /\ TypeInv /\ CoverInv /\ [Next]_vars => CoverInv'
<1> SUFFICES ASSUME MaxLateParts = 0, TypeInv, CoverInv, [Next]_vars PROVE CoverInv'
  OBVIOUS
<1>0. /\ TypeOK /\ up \in Upload /\ up.slot \in Slot /\ sweep \in Sweep
      /\ obj \in [Slot -> [Part -> Nat]] /\ lateObj = {}
      /\ known \in [Slot -> 0 .. MaxParts \cup {None}]
  BY DEF TypeInv, TypeOK, CoverInv, Upload
<1>1. CASE LateObjLands
  BY <1>0, <1>1 DEF LateObjLands
<1>2. CASE LateMetaLands \/ UNCHANGED vars
  <2>1. UNCHANGED <<obj, lateObj, pc, hadRemote, known, up, sweep, live>>
    BY <1>2 DEF LateMetaLands, vars, storeVars, bootVars, ringVars
  <2> QED
    BY <2>1 DEF CoverInv, Resumed, Covered, TargetHeld, SweptClean
<1>3. CASE Crash \/ Boot
  <2>1. UNCHANGED <<obj, lateObj>> /\ ~Resumed'
    BY <1>3 DEF Crash, AgentReset, Boot, storeVars, Resumed, Running, Uploading
  <2> QED
    BY <1>0, <2>1 DEF CoverInv
<1>4. CASE Probe
  <2>1. UNCHANGED <<obj, lateObj>> /\ ~Resumed'
    BY <1>4 DEF Probe, NewRing, storeVars, Resumed, Running, Uploading
  <2> QED
    BY <1>0, <2>1 DEF CoverInv
<1>5. CASE Restore
  <2>1. UNCHANGED <<obj, lateObj>>
    BY <1>5 DEF Restore, storeVars
  <2>2. CASE pc' = "watch" /\ known' = [s \in Slot |-> None]
    BY <1>0, <2>1, <2>2 DEF CoverInv, Covered, SweptClean
  <2>3. CASE pc' = "down"
    BY <1>0, <2>1, <2>3 DEF CoverInv, Resumed, Running, Uploading
  <2> QED
    BY <1>5, <2>2, <2>3 DEF Restore, NewRing, AgentReset
<1>6. CASE Work
  <2>1. UNCHANGED <<obj, lateObj, pc, hadRemote, known, up, sweep, live>>
    BY <1>6 DEF Work, storeVars, bootVars, ringVars
  <2> QED
    BY <2>1 DEF CoverInv, Resumed, Covered, TargetHeld, SweptClean
<1>7. CASE Scan \/ RereadFails \/ ArchiveFails \/ SweepDone \/ CommitRejected
  <2>1. UNCHANGED <<obj, lateObj, known, hadRemote>> /\ pc' \in {"scan", "watch"}
    BY <1>7 DEF Scan, RereadFails, ArchiveFails, SweepDone, CommitRejected, FailUpload, storeVars,
                bootVars, ringVars
  <2>2. pc \in Running
    BY <1>7 DEF Scan, RereadFails, ArchiveFails, SweepDone, CommitRejected, Running, Uploading
  <2> QED
    BY <2>1, <2>2, CoverIdle DEF Resumed
<1>8. CASE BeginUpload
  <2>1. PICK lv \in ResolvedLive :
            /\ up' = [up EXCEPT !.slot = Target(lv), !.prior = known[Target(lv)],
                                !.label = dir]
            /\ known' = [known EXCEPT ![Target(lv)] = None]
    BY <1>8 DEF BeginUpload
  <2>2. UNCHANGED <<obj, lateObj, hadRemote>> /\ pc = "scan" /\ pc' = "archive"
    BY <1>8 DEF BeginUpload, storeVars, bootVars
  <2>3. lv \in Slot \cup {None}
    BY <1>0 DEF ResolvedLive, FetchMeta, TypeOK, Meta, NoMeta
  <2>4. Target(lv) \in Slot
    BY <2>3, TargetIsFree
  <2>5. up'.slot = Target(lv) /\ up'.prior = known[Target(lv)]
    BY <1>0, <2>1 DEF Upload
  <2>6. known'[Target(lv)] = None /\ \A s \in Slot : known'[s] \in {known[s], None}
    BY <1>0, <2>1, <2>4
  <2>7. Resumed' => Covered
    BY <2>2 DEF CoverInv, Resumed, Running, Uploading
  <2>8. Resumed' => Covered' /\ TargetHeld(0)'
    BY <2>2, <2>4, <2>5, <2>6, <2>7 DEF Covered, TargetHeld
  <2> QED
    BY <1>0, <2>2, <2>5, <2>6, <2>8 DEF CoverInv, SweptClean
<1>9. CASE Archive
  <2>1. UNCHANGED <<obj, lateObj, hadRemote, known>> /\ pc = "archive" /\ pc' = "parts"
    BY <1>9 DEF Archive, storeVars, bootVars, ringVars
  <2>2. up'.slot = up.slot /\ up'.prior = up.prior /\ up'.next = 0
    BY <1>0, <1>9 DEF Archive, Upload
  <2>3. Resumed' => Covered /\ known[up.slot] = None /\ TargetHeld(0)
    BY <2>1 DEF CoverInv, Resumed, Running, Uploading
  <2>4. Resumed' => TargetHeld(up.next + 1)'
    BY <2>1, <2>2, <2>3 DEF TargetHeld, Part
  <2> QED
    BY <1>0, <2>1, <2>2, <2>3, <2>4 DEF CoverInv, Covered, SweptClean
<1>10. CASE PutPart \/ PutPartFails
  <2>1. /\ pc = "parts" /\ UNCHANGED <<hadRemote, known>>
        /\ up.next \in Part /\ up.sha \in Nat /\ up.next \in Nat
    <3>1. pc = "parts" /\ UNCHANGED <<hadRemote, known>> /\ up.next < up.parts
      BY <1>10 DEF PutPart, PutPartFails, TypeInv, PartsLeft, bootVars, ringVars
    <3> QED
      BY <1>0, <3>1, RingAssumption DEF Upload, Part
  <2>2. lateObj' = {} /\ (SetObj(up.slot, up.next, up.sha) \/ obj' = obj)
    BY <1>0, <1>10, FS_EmptySet DEF PutPart, PutPartFails, UnackedObj
  <2>3. \A s \in Slot, p \in Part : s # up.slot \/ p # up.next => obj'[s][p] = obj[s][p]
    BY <1>0, <2>1, <2>2, SetObjType
  <2>4. Resumed' => Covered /\ known[up.slot] = None /\ TargetHeld(up.next + 1)
    BY <2>1 DEF CoverInv, Resumed, Running, Uploading
  <2>5. Resumed' => Covered'
    BY <1>0, <2>1, <2>3, <2>4 DEF Covered
  <2>6. Resumed' /\ up.prior # None
            => \A p \in Part : obj'[up.slot][p] # NoObject => p < up.prior \/ p < up.next + 1
    BY <1>0, <2>1, <2>3, <2>4 DEF TargetHeld
  <2>7. CASE PutPart
    <3>1. /\ up'.slot = up.slot /\ up'.prior = up.prior /\ up'.next = up.next + 1
          /\ up'.parts = up.parts
          /\ pc' = IF up.next + 1 = up.parts THEN "commit" ELSE "parts"
      BY <1>0, <2>7 DEF PutPart, Upload
    <3>2. Resumed' => /\ pc' = "parts" => TargetHeld(up.next + 1)'
                      /\ pc' = "commit" => TargetHeld(up.parts)'
      BY <2>1, <2>6, <3>1 DEF TargetHeld, Part
    <3> QED
      BY <2>1, <2>2, <2>4, <2>5, <3>1, <3>2 DEF CoverInv, SweptClean
  <2>8. CASE PutPartFails
    <3>1. (pc' = pc /\ up' = up) \/ pc' = "watch"
      BY <2>8 DEF PutPartFails, FailUpload
    <3>2. pc' = pc /\ up' = up /\ Resumed' => TargetHeld(up.next + 1)'
      BY <2>6 DEF TargetHeld
    <3> QED
      BY <2>1, <2>2, <2>4, <2>5, <3>1, <3>2 DEF CoverInv, SweptClean
  <2> QED
    BY <1>10, <2>7, <2>8
<1>11. CASE CommitAcked
  <2>1. /\ UNCHANGED <<obj, lateObj, hadRemote>> /\ pc = "commit" /\ pc' = "reclaim"
        /\ known' = [known EXCEPT ![up.slot] = HighWater(up.prior, up.parts)]
        /\ sweep' = NoSweep
    BY <1>11 DEF CommitAcked, bootVars
  <2>2. Resumed' => Covered /\ TargetHeld(up.parts)
    BY <2>1 DEF CoverInv, Resumed, Running, Uploading
  <2>3. up.prior \in 0 .. MaxParts \cup {None} /\ up.parts \in 0 .. MaxParts
    BY <1>0 DEF Upload
  <2>4. known'[up.slot] = HighWater(up.prior, up.parts)
        /\ \A s \in Slot : s # up.slot => known'[s] = known[s]
    BY <1>0, <2>1
  <2>5. /\ HighWater(up.prior, up.parts) # None => up.prior # None
        /\ \A p \in Part : up.prior # None /\ (p < up.prior \/ p < up.parts)
              => p < HighWater(up.prior, up.parts)
    BY <2>3, RingAssumption DEF HighWater, Part, None
  <2>6. Resumed' => Covered'
    BY <2>1, <2>2, <2>4, <2>5 DEF Covered, TargetHeld
  <2>7. sweep'.part = 0 /\ \A p \in Part : ~(p < 0)
    BY <2>1 DEF NoSweep, Part
  <2> QED
    BY <1>0, <2>1, <2>6, <2>7 DEF CoverInv, SweptClean
<1>12. CASE CommitFails
  <2>1. UNCHANGED <<obj, lateObj, hadRemote, known>> /\ pc = "commit"
    BY <1>12 DEF CommitFails, UnackedMeta, bootVars
  <2>2. CASE pc' = pc /\ up' = [up EXCEPT !.attempt = @ + 1]
    <3>1. up'.slot = up.slot /\ up'.prior = up.prior /\ up'.parts = up.parts
      BY <1>0, <2>2 DEF Upload
    <3> QED
      BY <1>0, <2>1, <2>2, <3>1 DEF CoverInv, Resumed, Covered, TargetHeld, SweptClean
  <2>3. CASE pc' = "watch"
    BY <2>1, <2>3, CoverIdle DEF Resumed, Running, Uploading
  <2> QED
    BY <1>12, <2>2, <2>3 DEF CommitFails, FailUpload
<1>13. CASE SweepPart \/ SweepPartFails
  <2>1. /\ sweep.slot \in Slot /\ sweep.part \in Part /\ NoObject \in Nat /\ sweep.part \in Nat
        /\ pc = "reclaim"
    <3>1. pc = "reclaim" /\ sweep.slot < NSlots /\ sweep.part < SweepCount(sweep.slot)
      BY <1>13 DEF SweepPart, SweepPartFails
    <3> QED
      BY <1>0, <3>1, SweepInRange DEF Part, NoObject
  <2>2. UNCHANGED <<pc, hadRemote, known, live>> /\ lateObj' = {}
        /\ (SetObj(sweep.slot, sweep.part, NoObject) \/ obj' = obj)
    BY <1>0, <1>13, FS_EmptySet DEF SweepPart, SweepPartFails, UnackedObj, bootVars, ringVars
  <2>3. /\ \A s \in Slot, p \in Part : obj'[s][p] \in {obj[s][p], NoObject}
        /\ \A s \in Slot, p \in Part : s # sweep.slot \/ p # sweep.part => obj'[s][p] = obj[s][p]
        /\ SetObj(sweep.slot, sweep.part, NoObject) => obj'[sweep.slot][sweep.part] = NoObject
    BY <1>0, <2>1, <2>2, SetObjType
  <2>4. Resumed' => Covered /\ SweptClean
    BY <2>2 DEF CoverInv, Resumed
  <2>5. Resumed' => Covered'
    BY <2>2, <2>3, <2>4 DEF Covered
  <2>6. Resumed' => SweptClean'
    <3>1. CASE SweepPart
      <4>1. sweep'.slot = sweep.slot /\ sweep'.part = sweep.part + 1 /\ sweep'.failed = sweep.failed
            /\ SetObj(sweep.slot, sweep.part, NoObject)
        BY <1>0, <3>1 DEF SweepPart, Sweep
      <4>2. \A p \in Part : p < sweep.part + 1 => p < sweep.part \/ p = sweep.part
        BY <2>1 DEF Part
      <4> QED
        BY <2>1, <2>2, <2>3, <2>4, <4>1, <4>2 DEF SweptClean
    <3>2. CASE SweepPartFails
      <4>1. sweep'.failed = TRUE
        BY <1>0, <3>2 DEF SweepPartFails, Sweep
      <4> QED
        BY <4>1 DEF SweptClean
    <3> QED
      BY <1>13, <3>1, <3>2
  <2> QED
    BY <2>1, <2>2, <2>5, <2>6 DEF CoverInv
<1>14. CASE SweepNextSlot
  <2>1. /\ UNCHANGED <<obj, lateObj, pc, hadRemote, live>> /\ pc = "reclaim"
        /\ sweep.slot < NSlots /\ sweep.part = SweepCount(sweep.slot)
        /\ sweep' = [slot |-> sweep.slot + 1, part |-> 0, failed |-> FALSE]
        /\ known' = IF sweep.slot = live \/ sweep.failed THEN known
                    ELSE [known EXCEPT ![sweep.slot] = 0]
    BY <1>14 DEF SweepNextSlot, storeVars, bootVars
  <2>2. sweep.slot \in Slot
    BY <1>0, <2>1, RingAssumption DEF Sweep, Slot
  <2>3. Resumed' => Covered /\ SweptClean
    BY <2>1 DEF CoverInv, Resumed
  <2>4. Resumed' /\ sweep.slot # live /\ ~sweep.failed
            => \A p \in Part : obj[sweep.slot][p] = NoObject
    <3>1. CASE known[sweep.slot] = None
      <4>1. sweep.slot # live => \A p \in Part : p < sweep.part
        BY <2>1, <3>1, RingAssumption DEF SweepCount, Part
      <4> QED
        BY <2>1, <2>3, <4>1 DEF SweptClean
    <3>2. CASE known[sweep.slot] # None
      <4>1. sweep.slot # live => sweep.part = known[sweep.slot]
        BY <2>1, <3>2 DEF SweepCount
      <4> QED
        BY <2>1, <2>2, <2>3, <3>2, <4>1 DEF SweptClean, Covered
    <3> QED
      BY <3>1, <3>2
  <2>5. Resumed' => Covered'
    <3>1. CASE known' = known
      BY <2>1, <2>3, <3>1 DEF Covered
    <3>2. CASE sweep.slot # live /\ ~sweep.failed /\ known' = [known EXCEPT ![sweep.slot] = 0]
      <4>1. \A s \in Slot : s # sweep.slot => known'[s] = known[s]
        BY <1>0, <3>2
      <4> QED
        BY <2>1, <2>3, <2>4, <3>2, <4>1 DEF Covered
    <3> QED
      BY <2>1, <3>1, <3>2
  <2>6. sweep'.part = 0 /\ \A p \in Part : ~(p < 0)
    BY <2>1 DEF Part
  <2> QED
    BY <1>0, <2>1, <2>5, <2>6 DEF CoverInv, SweptClean
<1> QED
  BY <1>1, <1>2, <1>3, <1>4, <1>5, <1>6, <1>7, <1>8, <1>9, <1>10, <1>11, <1>12, <1>13, <1>14
     DEF Next, AgentStep, Failure

\* In a resumed life reclaim knows of every object there is, for all constants and also
\* when metadata PUTs take effect late or reads are denied, if no part PUT or DELETE
\* does.
THEOREM ResumedIsCovered ==
    ASSUME MaxLateParts = 0
    PROVE  Spec => []ResumedRingCovers
<1>1. Init => CoverInv
  BY DEF Init, CoverInv, Resumed, Running, Uploading
<1>2. TypeInv /\ CoverInv /\ [Next]_vars => CoverInv'
  BY CoverNext
<1>3. CoverInv => ResumedRingCovers
  BY DEF CoverInv, Resumed, ResumedRingCovers
<1>4. Spec => [](TypeInv /\ CoverInv)
  BY <1>1, <1>2, TypeInit, TypeNext, PTL DEF Spec
<1> QED
  BY <1>3, <1>4, PTL
=============================================================================
