----------------------------- MODULE Serve_proofs -----------------------------
(***************************************************************************)
(* The serve agent and its client: the ring of an exec request and its     *)
(* followers, the timers and the shutdown, uploads and downloads. What     *)
(* holds of the requests holds for any number of them, and of the ring for *)
(* any capacity, page and length of output.                                *)
(***************************************************************************)
EXTENDS ServeExec, ServeTimers, FileUpload, FileDownload, Integers, FiniteSetTheorems, TLAPS
-----------------------------------------------------------------------------
(***************************************************************************)
(* The ring and the follower. The argument: the segments of a ring are     *)
(* adjacent and end at its total, so the bytes of a stream that lie after  *)
(* a cursor are the total of that stream less what lies before it, and     *)
(* each page moves that line. Sums are taken by the running sums of the    *)
(* segments (BytesAre): induction over a set of naturals, which has a      *)
(* least member, stands for induction over the length.                     *)
(***************************************************************************)

\* A set of naturals has a least member: the set form of induction.
LEMMA LeastOf ==
    ASSUME NEW T, T \subseteq Nat, T # {}
    PROVE  \E n \in T : \A m \in T : n <= m
<1> DEFINE C == {0 .. n : n \in T}
           R == StrictSubsetOrdering(Nat)
           S == FiniteSubsetsOf(Nat)
<1>1. C \subseteq S /\ C # {}
    <2>1. \A n \in T : IsFiniteSet(0 .. n) /\ 0 .. n \in SUBSET Nat
        BY FS_Interval
    <2>2. \A n \in T : 0 .. n \in S
        BY <2>1 DEF FiniteSubsetsOf
    <2> HIDE DEF S
    <2> QED BY <2>2
<1>2. \E x \in C : \A y \in C : ~ (<<y, x>> \in R)
    <2>1. IsWellFoundedOn(R, S)
        BY FS_StrictSubsetOrderingWellFounded
    <2> HIDE DEF R, S, C
    <2> QED BY <1>1, <2>1, WFMin
<1>3. PICK n \in T : \A m \in T : ~ (<<0 .. m, 0 .. n>> \in R)
    BY <1>2
<1>4. ASSUME NEW m \in T, m < n PROVE FALSE
    <2>1. 0 .. m \subseteq 0 .. n /\ n \in 0 .. n /\ n \notin 0 .. m
        BY <1>4
    <2>2. 0 .. m # 0 .. n
        BY <2>1
    <2>3. <<0 .. m, 0 .. n>> \in (SUBSET Nat) \X (SUBSET Nat)
        OBVIOUS
    <2>4. <<0 .. m, 0 .. n>> \in R
        BY <2>1, <2>2, <2>3 DEF StrictSubsetOrdering
    <2> QED BY <1>3, <2>4
<1> QED BY <1>4

\* Induction: a set that holds 0 and with a number the next one holds them all.
LEMMA NatInSet ==
    ASSUME NEW P, 0 \in P, \A n \in Nat : n \in P => n + 1 \in P
    PROVE  Nat \subseteq P
<1> DEFINE T == Nat \ P
<1>1. SUFFICES ASSUME T # {} PROVE FALSE
    OBVIOUS
<1>2. PICK n \in T : \A m \in T : n <= m
    <2> HIDE DEF T
    <2>1. T \subseteq Nat
        BY DEF T
    <2> QED BY <1>1, <2>1, LeastOf
<1>3. n - 1 \in Nat /\ n - 1 \notin T
    BY <1>2
<1> QED BY <1>2, <1>3

\* The sums of the first 0, 1, .. n values of f.
IsSums(g, f, n) ==
    /\ g \in [0 .. n -> Nat]
    /\ g[0] = 0
    /\ \A i \in 1 .. n : g[i] = g[i - 1] + f[i]

\* Values have sums.
LEMMA SumsExist ==
    ASSUME NEW n \in Nat, NEW f, \A i \in 1 .. n : f[i] \in Nat
    PROVE  \E g : IsSums(g, f, n)
<1> DEFINE P == {m \in Nat : m <= n => \E g : IsSums(g, f, m)}
<1>1. 0 \in P
    <2>1. IsSums([i \in 0 .. 0 |-> 0], f, 0)
        BY DEF IsSums
    <2> QED BY <2>1
<1>2. ASSUME NEW m \in Nat, m \in P, m + 1 <= n PROVE m + 1 \in P
    <2>1. PICK g : IsSums(g, f, m)
        BY <1>2
    <2> DEFINE h == [i \in 0 .. m + 1 |-> IF i = m + 1 THEN g[m] + f[m + 1] ELSE g[i]]
    <2>2. h \in [0 .. m + 1 -> Nat] /\ h[0] = 0
        BY <1>2, <2>1 DEF IsSums
    <2>3. ASSUME NEW i \in 1 .. m + 1 PROVE h[i] = h[i - 1] + f[i]
        <3>1. i - 1 \in 0 .. m + 1 /\ i \in 0 .. m + 1 /\ i - 1 # m + 1
            OBVIOUS
        <3>2. CASE i = m + 1
            BY <3>1, <3>2
        <3>3. CASE i \in 1 .. m
            BY <3>1, <3>3, <2>1 DEF IsSums
        <3> QED BY <3>2, <3>3
    <2> HIDE DEF h
    <2>4. IsSums(h, f, m + 1)
        BY <2>2, <2>3 DEF IsSums
    <2> QED BY <1>2, <2>4
<1>3. Nat \subseteq P
    <2>1. \A m \in Nat : m \in P => m + 1 \in P
        BY <1>2
    <2> HIDE DEF P
    <2> QED BY <1>1, <2>1, NatInSet
<1> QED BY <1>3

\* What SumTo is: whatever adds up as its partial sums do ends in it.
LEMMA SumToIs ==
    ASSUME NEW n \in Nat, NEW f, NEW g, IsSums(g, f, n), \A i \in 1 .. n : f[i] \in Nat
    PROVE  SumTo(f, n) = g[n]
<1> DEFINE Eq(s) == s = [i \in 0 .. n |-> IF i = 0 THEN 0 ELSE s[i - 1] + f[i]]
           sum == CHOOSE s : Eq(s)
<1>1. Eq(g)
    BY DEF IsSums
<1>2. Eq(sum)
    BY <1>1
<1>3. SumTo(f, n) = sum[n]
    BY DEF SumTo
<1>4. ASSUME NEW s, Eq(s) PROVE s = g
  <2> DEFINE P == {m \in Nat : m <= n => s[m] = g[m]}
  <2>1. 0 \in P
     BY <1>4 DEF IsSums
  <2>2. ASSUME NEW m \in Nat, m \in P, m + 1 <= n PROVE m + 1 \in P
    <3>1. m + 1 \in 1 .. n /\ m + 1 \in 0 .. n /\ (m + 1) - 1 = m
        BY <2>2
    <3>2. g[m + 1] = g[m] + f[m + 1] /\ s[m + 1] = s[m] + f[m + 1]
        BY <3>1, <1>4 DEF IsSums
    <3> QED BY <3>2, <2>2
  <2>3. Nat \subseteq P
    <3>1. \A m \in Nat : m \in P => m + 1 \in P
        BY <2>2
    <3> HIDE DEF P
    <3> QED BY <2>1, <3>1, NatInSet
  <2> QED BY <2>3, <1>4, SMTT(30) DEF IsSums
<1> QED BY <1>2, <1>3, <1>4
-----------------------------------------------------------------------------
\* What each segment gives to a stream.
PartsOf(segs, s, start) ==
    [i \in 1 .. Len(segs) |-> IF segs[i].stream = s THEN Rest(segs[i], start) ELSE 0]

\* What is left of a segment after a cursor is a number of bytes.
LEMMA RestTyped ==
    ASSUME NEW g \in Segment, NEW start \in Nat
    PROVE  Rest(g, start) \in Nat
BY DEF Segment, Rest

\* The bytes of a stream are a number, and the sums that lead to it exist.
LEMMA PartsHaveSums ==
    ASSUME NEW segs \in Seq(Segment), NEW s, NEW start \in Nat
    PROVE  /\ \A i \in 1 .. Len(segs) : PartsOf(segs, s, start)[i] \in Nat
           /\ \E g : IsSums(g, PartsOf(segs, s, start), Len(segs))
<1>1. Len(segs) \in Nat /\ \A i \in 1 .. Len(segs) : segs[i] \in Segment
    OBVIOUS
<1>2. \A i \in 1 .. Len(segs) : PartsOf(segs, s, start)[i] \in Nat
    BY <1>1, RestTyped DEF PartsOf
<1> HIDE DEF PartsOf
<1> QED BY <1>1, <1>2, SumsExist

\* BytesFrom is the last of the running sums of the segments.
LEMMA BytesAre ==
    ASSUME NEW segs \in Seq(Segment), NEW s, NEW start \in Nat,
           NEW g, IsSums(g, PartsOf(segs, s, start), Len(segs))
    PROVE  BytesFrom(segs, s, start) = g[Len(segs)] /\ g[Len(segs)] \in Nat
<1>1. BytesFrom(segs, s, start) = SumTo(PartsOf(segs, s, start), Len(segs))
    BY DEF BytesFrom, PartsOf
<1>2. Len(segs) \in Nat
    OBVIOUS
<1>3. SumTo(PartsOf(segs, s, start), Len(segs)) = g[Len(segs)]
    BY <1>2, PartsHaveSums, SumToIs
<1> QED BY <1>1, <1>2, <1>3 DEF IsSums

\* read_from returns a number of bytes of each stream.
LEMMA BytesTyped ==
    ASSUME NEW segs \in Seq(Segment), NEW s, NEW start \in Nat
    PROVE  BytesFrom(segs, s, start) \in Nat
BY PartsHaveSums, BytesAre

\* One more segment gives what it has.
LEMMA BytesAppended ==
    ASSUME NEW segs \in Seq(Segment), NEW s, NEW start \in Nat, NEW g \in Segment
    PROVE  BytesFrom(Append(segs, g), s, start)
              = BytesFrom(segs, s, start) + (IF g.stream = s THEN Rest(g, start) ELSE 0)
<1> DEFINE n == Len(segs)
           all == Append(segs, g)
           more == IF g.stream = s THEN Rest(g, start) ELSE 0
<1>1. PICK a : IsSums(a, PartsOf(segs, s, start), n)
    BY PartsHaveSums
<1> DEFINE b == [i \in 0 .. n + 1 |-> IF i = n + 1 THEN a[n] + more ELSE a[i]]
<1>2. all \in Seq(Segment) /\ Len(all) = n + 1 /\ n \in Nat
      /\ all[n + 1] = g /\ \A i \in 1 .. n : all[i] = segs[i]
    OBVIOUS
<1>3. more \in Nat
    BY RestTyped
<1>4. b \in [0 .. n + 1 -> Nat] /\ b[0] = 0
    <2> HIDE DEF n, more
    <2>1. a \in [0 .. n -> Nat] /\ a[0] = 0 /\ a[n] + more \in Nat
        BY <1>1, <1>2, <1>3 DEF IsSums
    <2>2. \A i \in 0 .. n + 1 : i # n + 1 => i \in 0 .. n
        BY <1>2
    <2> QED BY <2>1, <2>2, <1>2
<1>5. ASSUME NEW i \in 1 .. n + 1 PROVE b[i] = b[i - 1] + PartsOf(all, s, start)[i]
    <2>1. i - 1 \in 0 .. n + 1 /\ i \in 0 .. n + 1 /\ i - 1 # n + 1
        BY <1>2
    <2>2. CASE i = n + 1
        <3>1. PartsOf(all, s, start)[i] = more
            BY <1>2, <2>2 DEF PartsOf
        <3> QED BY <2>1, <2>2, <3>1
    <2>3. CASE i \in 1 .. n
        <3>1. PartsOf(all, s, start)[i] = PartsOf(segs, s, start)[i]
            BY <1>2, <2>3 DEF PartsOf
        <3>2. a[i] = a[i - 1] + PartsOf(segs, s, start)[i]
            BY <1>1, <2>3 DEF IsSums
        <3> QED BY <2>1, <2>3, <3>1, <3>2, <1>2
    <2> QED BY <2>2, <2>3, <1>2
<1>6. IsSums(b, PartsOf(all, s, start), Len(all))
    <2> HIDE DEF b
    <2> QED BY <1>2, <1>4, <1>5 DEF IsSums
<1>7. BytesFrom(all, s, start) = b[Len(all)] /\ BytesFrom(segs, s, start) = a[n]
    <2> HIDE DEF b, all
    <2> QED BY <1>1, <1>2, <1>6, BytesAre
<1> QED BY <1>2, <1>7

\* Segments that have nothing to give may go.
LEMMA BytesDropped ==
    ASSUME NEW segs \in Seq(Segment), NEW s, NEW start \in Nat,
           NEW k \in 0 .. Len(segs) - 1,
           \A i \in 1 .. k : Rest(segs[i], start) = 0
    PROVE  BytesFrom(SubSeq(segs, k + 1, Len(segs)), s, start) = BytesFrom(segs, s, start)
<1> DEFINE n == Len(segs)
           kept == SubSeq(segs, k + 1, n)
<1>1. kept \in Seq(Segment) /\ Len(kept) = n - k /\ n \in Nat /\ n - k \in Nat
      /\ \A i \in 1 .. n - k : kept[i] = segs[k + i]
    OBVIOUS
<1>2. PICK a : IsSums(a, PartsOf(kept, s, start), n - k)
    BY <1>1, PartsHaveSums
<1> DEFINE b == [i \in 0 .. n |-> IF i <= k THEN 0 ELSE a[i - k]]
<1>3. b \in [0 .. n -> Nat] /\ b[0] = 0
    BY <1>1, <1>2 DEF IsSums
<1>4. ASSUME NEW i \in 1 .. n PROVE b[i] = b[i - 1] + PartsOf(segs, s, start)[i]
    <2>1. i - 1 \in 0 .. n /\ i \in 0 .. n
        BY <1>1
    <2>2. CASE i <= k
        <3>1. PartsOf(segs, s, start)[i] = 0
            BY <2>2 DEF PartsOf
        <3> QED BY <2>1, <2>2, <3>1
    <2>3. CASE i > k
        <3> DEFINE j == i - k
        <3>1. j \in 1 .. n - k /\ j - 1 = (i - 1) - k /\ k + j = i
            BY <2>3, <1>1
        <3>2. PartsOf(segs, s, start)[i] = PartsOf(kept, s, start)[j]
            BY <3>1, <1>1 DEF PartsOf
        <3>3. a[j] = a[j - 1] + PartsOf(kept, s, start)[j]
            BY <3>1, <1>2 DEF IsSums
        <3>4. b[i - 1] = a[j - 1]
            <4>1. CASE i - 1 <= k
                <5>1. j - 1 = 0
                    BY <4>1, <2>3, <3>1, <1>1
                <5> QED BY <5>1, <4>1, <2>1, <1>2 DEF IsSums
            <4>2. CASE ~ (i - 1 <= k)
                BY <4>2, <2>1, <3>1
            <4> QED BY <4>1, <4>2
        <3>5. b[i] = a[j]
            BY <2>1, <2>3
        <3> QED BY <3>2, <3>3, <3>4, <3>5
    <2> QED BY <2>2, <2>3, <1>1
<1>5. IsSums(b, PartsOf(segs, s, start), n)
    <2> HIDE DEF b
    <2> QED BY <1>1, <1>3, <1>4 DEF IsSums
<1>6. BytesFrom(segs, s, start) = b[n] /\ BytesFrom(kept, s, start) = a[n - k]
    <2> HIDE DEF b, kept
    <2> QED BY <1>1, <1>2, <1>5, BytesAre
<1> QED BY <1>1, <1>6
-----------------------------------------------------------------------------
\* Every segment ends where the next one begins, and the last one at the end of the ring.
Adjacent(segs, total) ==
    \A i \in 1 .. Len(segs) :
        segs[i].offset + segs[i].len = IF i < Len(segs) THEN segs[i + 1].offset ELSE total

\* A segment of the ring is a record of the type, and not empty.
LEMMA SegmentTyped ==
    ASSUME NEW segs \in Seq(Segment), NEW i \in 1 .. Len(segs)
    PROVE  /\ segs[i] \in Segment /\ segs[i].stream \in Streams
           /\ segs[i].offset \in Nat /\ segs[i].len \in Nat /\ segs[i].len > 0
<1>1. segs[i] \in Segment
    OBVIOUS
<1> QED BY <1>1 DEF Segment

\* Segments that follow one another are in the order of their offsets.
LEMMA Ascending ==
    ASSUME NEW segs \in Seq(Segment), NEW total \in Nat, Adjacent(segs, total),
           NEW i \in 1 .. Len(segs), NEW j \in 1 .. Len(segs), i < j
    PROVE  segs[i].offset + segs[i].len <= segs[j].offset
<1> DEFINE low == segs[i].offset + segs[i].len
           P == {d \in Nat : \A k \in 1 .. Len(segs) : k = i + 1 + d => low <= segs[k].offset}
<1>1. low \in Nat /\ \A k \in 1 .. Len(segs) : segs[k].offset \in Nat /\ segs[k].len \in Nat
    BY SegmentTyped
<1>2. \A k \in 1 .. Len(segs) : k # 1
        => segs[k - 1].offset + segs[k - 1].len = segs[k].offset
    BY SMTT(30) DEF Adjacent
<1>3. 0 \in P
    BY <1>1, <1>2
<1>4. ASSUME NEW d \in Nat, d \in P, NEW k \in 1 .. Len(segs), k = i + 1 + (d + 1)
      PROVE  low <= segs[k].offset
    <2>1. PICK h \in 1 .. Len(segs) : h = k - 1 /\ h = i + 1 + d /\ k # 1
        BY <1>4
    <2>2. low <= segs[h].offset
        BY <1>4, <2>1
    <2>3. segs[h].offset + segs[h].len = segs[k].offset
        BY <1>2, <2>1
    <2> HIDE DEF low
    <2> QED BY <1>1, <2>2, <2>3, SMTT(30)
<1>5. Nat \subseteq P
    <2>1. \A d \in Nat : d \in P => d + 1 \in P
        BY <1>4
    <2> HIDE DEF P
    <2> QED BY <1>3, <2>1, NatInSet
<1>6. j - (i + 1) \in Nat /\ i + 1 + (j - (i + 1)) = j
    OBVIOUS
<1>7. j - (i + 1) \in P
    <2> HIDE DEF P
    <2> QED BY <1>5, <1>6
<1> QED BY <1>6, <1>7

\* What a well-formed ring has.
LEMMA WellFormedIs ==
    ASSUME NEW r, WellFormed(r)
    PROVE  /\ r.segments \in Seq(Segment) /\ Adjacent(r.segments, r.total)
           /\ r.base \in Nat /\ r.total \in Nat /\ r.buffered \in 0 .. Capacity
           /\ r.base + r.buffered = r.total
           /\ r.base = IF r.segments = <<>> THEN r.total ELSE r.segments[1].offset
BY DEF WellFormed, Adjacent, SegmentEnd

\* The two streams share all the bytes of the ring.
LEMMA BothStreams ==
    ASSUME NEW r, WellFormed(r), NEW start \in Nat, r.base <= start, start <= r.total
    PROVE  BytesFrom(r.segments, "stdout", start) + BytesFrom(r.segments, "stderr", start)
              = r.total - start
<1> DEFINE segs == r.segments
           n == Len(segs)
           rest == [i \in 1 .. n |-> Rest(segs[i], start)]
           past(i) == segs[i].offset + segs[i].len
<1>0. segs \in Seq(Segment) /\ n \in Nat /\ r.total \in Nat /\ Adjacent(segs, r.total)
      /\ r.base = IF segs = <<>> THEN r.total ELSE segs[1].offset
    BY WellFormedIs
<1>1. PICK a : IsSums(a, PartsOf(segs, "stdout", start), n)
    BY <1>0, PartsHaveSums
<1>2. PICK b : IsSums(b, PartsOf(segs, "stderr", start), n)
    BY <1>0, PartsHaveSums
<1>3. \A i \in 1 .. n : /\ segs[i].stream \in Streams /\ rest[i] \in Nat
                        /\ segs[i].offset \in Nat /\ segs[i].len \in Nat /\ segs[i].len > 0
    <2>1. \A i \in 1 .. n : segs[i] \in Segment
        BY <1>0
    <2>2. \A i \in 1 .. n : rest[i] \in Nat
        BY <2>1, RestTyped
    <2> HIDE DEF rest
    <2> QED BY <1>0, <2>2, SegmentTyped
<1> DEFINE c == [i \in 0 .. n |-> a[i] + b[i]]
           d == [i \in 0 .. n |-> IF i = 0 \/ past(i) <= start THEN 0 ELSE past(i) - start]
<1>4. IsSums(c, rest, n)
    <2>1. a \in [0 .. n -> Nat] /\ b \in [0 .. n -> Nat] /\ a[0] = 0 /\ b[0] = 0
        BY <1>1, <1>2 DEF IsSums
    <2>2. ASSUME NEW i \in 1 .. n PROVE c[i] = c[i - 1] + rest[i]
        <3>1. i \in 0 .. n /\ i - 1 \in 0 .. n
            BY <1>0
        <3>2. a[i] = a[i - 1] + PartsOf(segs, "stdout", start)[i]
              /\ b[i] = b[i - 1] + PartsOf(segs, "stderr", start)[i]
            BY <1>1, <1>2 DEF IsSums
        <3>3. segs[i].stream \in {"stdout", "stderr"}
            BY <1>3 DEF Streams
        <3>4. \/ PartsOf(segs, "stdout", start)[i] = rest[i] /\ PartsOf(segs, "stderr", start)[i] = 0
              \/ PartsOf(segs, "stdout", start)[i] = 0 /\ PartsOf(segs, "stderr", start)[i] = rest[i]
            BY <3>3 DEF PartsOf
        <3>5. rest[i] \in Nat
            BY <1>3
        <3> HIDE DEF rest
        <3> QED BY <2>1, <3>1, <3>2, <3>4, <3>5
    <2>3. c \in [0 .. n -> Nat] /\ c[0] = 0
        BY <2>1, <1>0
    <2> HIDE DEF c, rest
    <2> QED BY <2>2, <2>3 DEF IsSums
<1>5. IsSums(d, rest, n)
    <2>1. \A i \in 1 .. n : past(i) \in Nat /\ segs[i].offset \in Nat /\ segs[i].len \in Nat
                            /\ segs[i].len > 0
        <3> HIDE DEF rest
        <3> QED BY <1>3
    <2>2. d \in [0 .. n -> Nat] /\ d[0] = 0
        BY <2>1, <1>0
    <2>3. ASSUME NEW i \in 1 .. n PROVE d[i] = d[i - 1] + rest[i]
        <3>1. i \in 0 .. n /\ i - 1 \in 0 .. n
            BY <1>0
        <3>2. CASE i = 1
            <4>1. segs[1].offset <= start
                BY <3>2, <1>0
            <4>2. rest[i] = Rest(segs[i], start) /\ d[i - 1] = 0
                  /\ d[i] = IF past(i) <= start THEN 0 ELSE past(i) - start
                BY <3>1, <3>2
            <4>3. segs[i].offset \in Nat /\ segs[i].len \in Nat /\ segs[i].len > 0
                  /\ segs[i].offset <= start
                BY <2>1, <3>2, <4>1
            <4> HIDE DEF rest, d
            <4>4. CASE past(i) <= start
                BY <4>2, <4>3, <4>4 DEF Rest
            <4>5. CASE ~ (past(i) <= start) /\ segs[i].offset < start
                BY <4>2, <4>3, <4>5 DEF Rest
            <4>6. CASE ~ (past(i) <= start) /\ ~ (segs[i].offset < start)
                BY <4>2, <4>3, <4>6 DEF Rest
            <4> QED BY <4>4, <4>5, <4>6
        <3>3. CASE i # 1
            <4>1. i - 1 \in 1 .. n /\ i - 1 < n /\ (i - 1) + 1 = i
                BY <3>3, <1>0
            <4>2. past(i - 1) = segs[i].offset
                BY <4>1, <1>0 DEF Adjacent
            <4>3. /\ rest[i] = Rest(segs[i], start)
                  /\ d[i] = IF past(i) <= start THEN 0 ELSE past(i) - start
                  /\ d[i - 1] = IF segs[i].offset <= start THEN 0 ELSE segs[i].offset - start
                BY <3>1, <3>3, <4>1, <4>2
            <4>4. segs[i].offset \in Nat /\ segs[i].len \in Nat /\ segs[i].len > 0
                BY <2>1
            <4> HIDE DEF rest, d
            <4>5. CASE past(i) <= start
                BY <4>3, <4>4, <4>5 DEF Rest
            <4>6. CASE ~ (past(i) <= start) /\ segs[i].offset < start
                BY <4>3, <4>4, <4>6 DEF Rest
            <4>7. CASE ~ (past(i) <= start) /\ ~ (segs[i].offset < start)
                BY <4>3, <4>4, <4>7 DEF Rest
            <4> QED BY <4>5, <4>6, <4>7
        <3> QED BY <3>2, <3>3
    <2> HIDE DEF d, rest
    <2> QED BY <2>2, <2>3 DEF IsSums
<1>6. c[n] = d[n]
    <2> HIDE DEF c, d, rest
    <2> QED BY <1>0, <1>3, <1>4, <1>5, SumToIs
<1>7. d[n] = r.total - start
    <2>1. CASE n = 0
        BY <2>1, <1>0
    <2>2. CASE n # 0
        <3>1. past(n) = r.total
            BY <2>2, <1>0 DEF Adjacent
        <3> QED BY <2>2, <3>1, <1>0
    <2> QED BY <2>1, <2>2
<1>8. BytesFrom(segs, "stdout", start) = a[n] /\ BytesFrom(segs, "stderr", start) = b[n]
    BY <1>0, <1>1, <1>2, BytesAre
<1> QED BY <1>0, <1>6, <1>7, <1>8
-----------------------------------------------------------------------------

\* The bytes that an eviction drops are a number.
LEMMA DroppedTyped ==
    ASSUME NEW segs \in Seq(Segment), NEW total, NEW m \in 0 .. Len(segs) - 1
    PROVE  DroppedLen(segs, total, m) \in Int
<1>1. PICK h \in 1 .. Len(segs) : h = m + 1 /\ m < Len(segs) /\ 1 \in 1 .. Len(segs)
    OBVIOUS
<1>2. segs[h].offset \in Nat /\ segs[1].offset \in Nat
    BY <1>1, SegmentTyped
<1> QED BY <1>1, <1>2 DEF DroppedLen

\* evict drops segments until the rest fits, and never the last one.
LEMMA EvictedIs ==
    ASSUME NEW segs \in Seq(Segment), segs # <<>>, NEW total \in Nat, NEW buffered \in Nat,
           NEW k, k = Evicted(segs, total, buffered)
    PROVE  /\ k \in 0 .. Len(segs) - 1
           /\ k = Len(segs) - 1 \/ buffered - DroppedLen(segs, total, k) <= Capacity
<1> DEFINE T == {j \in 0 .. Len(segs) - 1 :
                    j = Len(segs) - 1 \/ buffered - DroppedLen(segs, total, j) <= Capacity}
<1>1. Len(segs) \in Nat /\ Len(segs) > 0 /\ Capacity \in Nat
    BY CapacityAssumption
<1>2. T \subseteq Nat /\ Len(segs) - 1 \in T
    BY <1>1
<1>3. PICK j \in T : \A m \in T : j <= m
    <2> HIDE DEF T
    <2> QED BY <1>2, LeastOf
<1>4. \A m \in 0 .. j - 1 : buffered - DroppedLen(segs, total, m) > Capacity
    <2> SUFFICES ASSUME NEW m \in 0 .. j - 1
                 PROVE  buffered - DroppedLen(segs, total, m) > Capacity
        OBVIOUS
    <2>1. m \notin T /\ m \in 0 .. Len(segs) - 1 /\ m # Len(segs) - 1
        BY <1>1, <1>3
    <2>2. ~ (buffered - DroppedLen(segs, total, m) <= Capacity)
        BY <2>1
    <2>3. DroppedLen(segs, total, m) \in Int
        BY <2>1, DroppedTyped
    <2> QED BY <2>2, <2>3, <1>1
<1>5. \E e \in 0 .. Len(segs) - 1 :
        /\ e = Len(segs) - 1 \/ buffered - DroppedLen(segs, total, e) <= Capacity
        /\ \A m \in 0 .. e - 1 : buffered - DroppedLen(segs, total, m) > Capacity
    BY <1>3, <1>4
<1> HIDE DEF T
<1> QED BY <1>5 DEF Evicted

\* A head that was cut off is nothing to who reads on from after it.
LEMMA RestTrimmed ==
    ASSUME NEW g, NEW h, NEW c \in Nat,
           g.offset \in Nat, g.len \in Nat, h.offset \in Nat, h.len \in Nat, g.len > 0,
           g.offset + g.len = h.offset + h.len, h.offset <= g.offset, g.offset <= c
    PROVE  Rest(g, c) = Rest(h, c)
BY DEF Rest

\* Segments that give the same give the same bytes.
LEMMA BytesSame ==
    ASSUME NEW segs, NEW others, NEW s, NEW start, Len(segs) = Len(others),
           \A i \in 1 .. Len(segs) : segs[i].stream = others[i].stream
                                      /\ Rest(segs[i], start) = Rest(others[i], start)
    PROVE  BytesFrom(segs, s, start) = BytesFrom(others, s, start)
<1>1. PartsOf(segs, s, start) = PartsOf(others, s, start)
    BY DEF PartsOf
<1>2. BytesFrom(segs, s, start) = SumTo(PartsOf(segs, s, start), Len(segs))
      /\ BytesFrom(others, s, start) = SumTo(PartsOf(others, s, start), Len(others))
    BY DEF BytesFrom, PartsOf
<1> QED BY <1>1, <1>2

\* push: the ring stays well-formed, it loses bytes at its old end alone, and what it still
\* has past an offset is what it had and what was pushed.
LEMMA PushKeeps ==
    ASSUME NEW r, WellFormed(r), NEW s \in Streams, NEW n \in Nat \ {0}
    PROVE  /\ WellFormed(Push(r, s, n))
           /\ Push(r, s, n).total = r.total + n
           /\ r.base <= Push(r, s, n).base
           /\ \A t \in Streams, c \in Nat :
                Push(r, s, n).base <= c /\ c <= r.total
                  => BytesFrom(Push(r, s, n).segments, t, c)
                        = BytesFrom(r.segments, t, c) + (IF t = s THEN n ELSE 0)
<1> DEFINE new   == [stream |-> s, offset |-> r.total, len |-> n]
           total == r.total + n
           all   == Append(r.segments, new)
           k     == Evicted(all, total, r.buffered + n)
           kept  == SubSeq(all, k + 1, Len(all))
           left  == r.buffered + n - DroppedLen(all, total, k)
           over  == IF left > Capacity /\ left - Capacity < kept[1].len
                    THEN left - Capacity ELSE 0
           segs  == TrimHead(kept, over)
<1>a. /\ r.segments \in Seq(Segment) /\ Adjacent(r.segments, r.total)
      /\ r.base \in Nat /\ r.total \in Nat /\ r.buffered \in Nat
      /\ r.base + r.buffered = r.total
      /\ r.base = IF r.segments = <<>> THEN r.total ELSE r.segments[1].offset
    BY WellFormedIs
<1>b. Capacity \in Nat /\ Capacity > 0 /\ n \in Nat /\ n > 0
    BY CapacityAssumption
<1>p. Push(r, s, n) = [segments |-> segs, base |-> segs[1].offset, total |-> total,
                       buffered |-> left - over]
    BY DEF Push
<1>n. new \in Segment /\ new.stream = s /\ new.offset = r.total /\ new.len = n
    BY <1>a, <1>b DEF Segment
<1>1. /\ all \in Seq(Segment) /\ Len(all) = Len(r.segments) + 1 /\ Len(r.segments) \in Nat
      /\ Len(all) \in Nat /\ all # <<>>
      /\ all[Len(all)] = new /\ \A i \in 1 .. Len(r.segments) : all[i] = r.segments[i]
    <2>1. r.segments \in Seq(Segment) /\ new \in Segment /\ Len(r.segments) \in Nat
        BY <1>a, <1>n
    <2> HIDE DEF new
    <2>2. all \in Seq(Segment) /\ Len(all) = Len(r.segments) + 1
        BY <2>1
    <2>3. Len(all) \in Nat /\ all # <<>>
        BY <2>1, <2>2
    <2>4. all[Len(r.segments) + 1] = new
        BY <2>1
    <2>5. \A i \in 1 .. Len(r.segments) : all[i] = r.segments[i]
        BY <2>1
    <2> HIDE DEF all
    <2> QED BY <2>1, <2>2, <2>3, <2>4, <2>5
<1>2. total \in Nat /\ Adjacent(all, total) /\ all[1].offset = r.base
    <2>1. ASSUME NEW i \in 1 .. Len(all)
          PROVE  all[i].offset + all[i].len = IF i < Len(all) THEN all[i + 1].offset ELSE total
        <3>1. CASE i = Len(all)
            BY <3>1, <1>1, <1>n, <1>a, <1>b
        <3>2. CASE i = Len(r.segments)
            <4>1. i \in 1 .. Len(r.segments) /\ i < Len(all) /\ i + 1 = Len(all)
                BY <3>2, <1>1
            <4>2. all[i] = r.segments[i] /\ all[i + 1] = new
                BY <4>1, <1>1
            <4>3. r.segments[i].offset + r.segments[i].len = r.total
                BY <3>2, <4>1, <1>a DEF Adjacent
            <4> HIDE DEF all, new
            <4> QED BY <4>1, <4>2, <4>3, <1>n
        <3>3. CASE i < Len(r.segments)
            <4>1. i \in 1 .. Len(r.segments) /\ i + 1 \in 1 .. Len(r.segments) /\ i < Len(all)
                BY <3>3, <1>1
            <4>2. all[i] = r.segments[i] /\ all[i + 1] = r.segments[i + 1]
                BY <4>1, <1>1
            <4>3. r.segments[i].offset + r.segments[i].len = r.segments[i + 1].offset
                BY <3>3, <4>1, <1>a DEF Adjacent
            <4> HIDE DEF all, new
            <4> QED BY <4>1, <4>2, <4>3
        <3> QED BY <3>1, <3>2, <3>3, <1>1
    <2>2. all[1].offset = r.base
        <3>1. CASE r.segments = <<>>
            <4>1. Len(all) = 1
                BY <3>1, <1>1
            <4> QED BY <4>1, <3>1, <1>1, <1>n, <1>a
        <3>2. CASE r.segments # <<>>
            <4>1. 1 \in 1 .. Len(r.segments)
                BY <3>2, <1>1, <1>a
            <4>2. all[1] = r.segments[1]
                BY <4>1, <1>1
            <4> QED BY <4>2, <3>2, <1>a
        <3> QED BY <3>1, <3>2
    <2> HIDE DEF all
    <2> QED BY <2>1, <2>2, <1>a, <1>b DEF Adjacent
<1> HIDE DEF all, new, total
<1>3. /\ k \in 0 .. Len(all) - 1
      /\ k = Len(all) - 1 \/ r.buffered + n - DroppedLen(all, total, k) <= Capacity
    <2>1. r.buffered + n \in Nat
        BY <1>a, <1>b
    <2> DEFINE b == r.buffered + n
    <2>2. k = Evicted(all, total, b) /\ b \in Nat
        BY <2>1
    <2>3. /\ k \in 0 .. Len(all) - 1
          /\ k = Len(all) - 1 \/ b - DroppedLen(all, total, k) <= Capacity
        <3> HIDE DEF k, b
        <3> QED BY <2>2, <1>1, <1>2, EvictedIs
    <2>4. DroppedLen(all, total, k) \in Int
        <3> HIDE DEF k, b
        <3> QED BY <2>3, <1>1, DroppedTyped
    <2> HIDE DEF k
    <2>5. b - DroppedLen(all, total, k) = r.buffered + n - DroppedLen(all, total, k)
        BY <2>4, <1>a, <1>b
    <2> QED BY <2>3, <2>5
<1> HIDE DEF k
<1>4. /\ kept \in Seq(Segment) /\ Len(kept) = Len(all) - k /\ Len(kept) \in Nat /\ Len(kept) > 0
      /\ \A i \in 1 .. Len(kept) : kept[i] = all[k + i]
    BY <1>1, <1>3, SMTT(30)
<1>h. kept[1] = all[k + 1] /\ k + 1 \in 1 .. Len(all)
    <2> HIDE DEF kept
    <2> QED BY <1>1, <1>3, <1>4
<1> HIDE DEF kept
<1>5. Adjacent(kept, total)
    <2> SUFFICES ASSUME NEW i \in 1 .. Len(kept)
                 PROVE  kept[i].offset + kept[i].len
                            = IF i < Len(kept) THEN kept[i + 1].offset ELSE total
        BY DEF Adjacent
    <2>1. PICK j \in 1 .. Len(all) : j = k + i
        BY <1>1, <1>3, <1>4
    <2>2. kept[i] = all[j] /\ (i < Len(kept) <=> j < Len(all))
        BY <2>1, <1>1, <1>3, <1>4
    <2>3. i < Len(kept) => kept[i + 1] = all[j + 1]
        <3>1. i < Len(kept) => i + 1 \in 1 .. Len(kept) /\ k + (i + 1) = j + 1
            BY <2>1, <1>4, <1>3, <1>1
        <3> QED BY <3>1, <1>4
    <2>4. all[j].offset + all[j].len = IF j < Len(all) THEN all[j + 1].offset ELSE total
        BY <1>2 DEF Adjacent
    <2> QED BY <2>2, <2>3, <2>4
<1>6. /\ kept[1].offset \in Nat /\ kept[1].len \in Nat /\ kept[1].len > 0
      /\ kept[1].stream \in Streams
    BY <1>4, SegmentTyped
<1>7. r.base <= kept[1].offset /\ left = total - kept[1].offset
    <2>1. all[1].offset <= all[k + 1].offset
        <3>1. CASE k = 0
            BY <3>1, <1>h, <1>6
        <3>2. CASE k # 0
            <4>1. PICK h \in 1 .. Len(all) : h = k + 1 /\ 1 < h /\ 1 \in 1 .. Len(all)
                BY <3>2, <1>h, <1>1, <1>3
            <4>2. all[1].offset + all[1].len <= all[h].offset
                BY <4>1, <1>1, <1>2, Ascending
            <4>3. all[1].offset \in Nat /\ all[1].len \in Nat /\ all[h].offset \in Nat
                BY <4>1, <1>1, SegmentTyped
            <4>4. all[1].offset <= all[h].offset
                BY <4>2, <4>3
            <4> QED BY <4>1, <4>4
        <3> QED BY <3>1, <3>2
    <2>2. DroppedLen(all, total, k) = kept[1].offset - r.base
        <3>1. k < Len(all)
            BY <1>1, <1>3
        <3> QED BY <3>1, <1>h, <1>2 DEF DroppedLen
    <2>3. r.base <= kept[1].offset
        BY <2>1, <1>2, <1>h
    <2>4. left = total - kept[1].offset
        <3>1. left = r.buffered + n - (kept[1].offset - r.base)
            BY <2>2
        <3>2. total = r.base + r.buffered + n
            BY <1>a, <1>b DEF total
        <3>3. r.base \in Nat /\ r.buffered \in Nat /\ n \in Nat /\ kept[1].offset \in Nat
            BY <1>a, <1>b, <1>6
        <3> HIDE DEF left
        <3> QED BY <3>1, <3>2, <3>3
    <2> QED BY <2>3, <2>4
<1>8. kept[1].offset + kept[1].len <= total
    <2>1. CASE Len(kept) = 1
        BY <2>1, <1>4, <1>5, <1>2, <1>6 DEF Adjacent
    <2>2. CASE Len(kept) > 1
        <3>1. PICK h \in 1 .. Len(kept) : h = Len(kept) /\ 1 < h /\ 1 \in 1 .. Len(kept)
            BY <2>2, <1>4
        <3>2. kept[1].offset + kept[1].len <= kept[h].offset
            BY <3>1, <1>4, <1>5, <1>2, Ascending
        <3>3. kept[h].offset + kept[h].len = total
            BY <3>1, <1>4, <1>5 DEF Adjacent
        <3>4. kept[h].offset \in Nat /\ kept[h].len \in Nat
            BY <3>1, <1>4, SegmentTyped
        <3> QED BY <3>2, <3>3, <3>4, <1>6
    <2> QED BY <2>1, <2>2, <1>4
<1>9. over \in Nat /\ over < kept[1].len /\ left \in Nat /\ left - over \in 0 .. Capacity
    <2>1. left \in Nat /\ kept[1].len <= left
        BY <1>6, <1>7, <1>8, <1>2
    <2>2. CASE left <= Capacity
        BY <2>1, <2>2, <1>b, <1>6
    <2>3. CASE left > Capacity
        <3>1. k = Len(all) - 1
            BY <2>3, <2>1, <1>3, <1>b
        <3>2. Len(kept) = 1
            BY <3>1, <1>4, <1>1
        <3>3. kept[1].offset + kept[1].len = total
            BY <3>2, <1>4, <1>5 DEF Adjacent
        <3>4. kept[1].len = left
            BY <3>3, <1>7, <1>6, <1>2
        <3> HIDE DEF left
        <3> QED BY <3>4, <2>1, <2>3, <1>b
    <2> QED BY <2>1, <2>2, <2>3, <1>b
<1> HIDE DEF over, left
<1>10. /\ segs \in Seq(Segment) /\ Len(segs) = Len(kept)
       /\ segs[1].stream = kept[1].stream /\ segs[1].offset = kept[1].offset + over
       /\ segs[1].len = kept[1].len - over
       /\ \A i \in 2 .. Len(kept) : segs[i] = kept[i]
    <2> DEFINE head == [kept[1] EXCEPT !.offset = @ + over, !.len = @ - over]
    <2>1. kept[1] \in Segment
        BY <1>4
    <2>2. head \in Segment /\ head.stream = kept[1].stream
          /\ head.offset = kept[1].offset + over /\ head.len = kept[1].len - over
        <3>1. kept[1].offset + over \in Nat /\ kept[1].len - over \in Nat \ {0}
            BY <1>6, <1>9
        <3> DEFINE o == kept[1].offset + over
                   l == kept[1].len - over
        <3>2. head = [kept[1] EXCEPT !.offset = o, !.len = l]
            BY <2>1 DEF Segment
        <3>3. o \in Nat /\ l \in Nat \ {0}
            BY <3>1
        <3> HIDE DEF o, l, head
        <3>4. head \in Segment /\ head.stream = kept[1].stream /\ head.offset = o /\ head.len = l
            <4> DEFINE g == kept[1]
            <4>1. g \in Segment /\ head = [g EXCEPT !.offset = o, !.len = l]
                BY <2>1, <3>2
            <4> HIDE DEF g
            <4>2. head \in Segment /\ head.stream = g.stream /\ head.offset = o /\ head.len = l
                BY <4>1, <3>3 DEF Segment
            <4> QED BY <4>2 DEF g
        <3> QED BY <3>4 DEF o, l
    <2>3. segs = [kept EXCEPT ![1] = head]
        BY <1>4, <2>1 DEF TrimHead, Segment
    <2> HIDE DEF head, segs
    <2> QED BY <2>2, <2>3, <1>4
<1> HIDE DEF segs
<1>11. Adjacent(segs, total)
    <2> SUFFICES ASSUME NEW i \in 1 .. Len(segs)
                 PROVE  segs[i].offset + segs[i].len
                            = IF i < Len(segs) THEN segs[i + 1].offset ELSE total
        BY DEF Adjacent
    <2>1. kept[i].offset + kept[i].len = IF i < Len(kept) THEN kept[i + 1].offset ELSE total
        BY <1>5, <1>10 DEF Adjacent
    <2>2. segs[i].offset + segs[i].len = kept[i].offset + kept[i].len
        <3>1. CASE i = 1
            BY <3>1, <1>10, <1>6, <1>9
        <3>2. CASE i # 1
            <4>1. i \in 2 .. Len(kept)
                BY <3>2, <1>10, <1>4
            <4> QED BY <4>1, <1>10
        <3> QED BY <3>1, <3>2
    <2>3. i < Len(kept) => segs[i + 1] = kept[i + 1]
        <3>1. i < Len(kept) => i + 1 \in 2 .. Len(kept)
            BY <1>10, <1>4
        <3> QED BY <3>1, <1>10
    <2> QED BY <2>1, <2>2, <2>3, <1>10
<1>12. WellFormed(Push(r, s, n))
    <2>1. segs[1].offset \in Nat /\ segs # <<>>
        BY <1>10, <1>4, <1>6, <1>9
    <2>2. segs[1].offset + (left - over) = total
        BY <1>10, <1>7, <1>6, <1>9, <1>2
    <2> QED BY <1>p, <1>2, <1>9, <1>10, <1>11, <2>1, <2>2 DEF WellFormed, Adjacent, SegmentEnd
<1>13. ASSUME NEW t \in Streams, NEW c \in Nat, segs[1].offset <= c, c <= r.total
       PROVE  BytesFrom(segs, t, c) = BytesFrom(r.segments, t, c) + (IF t = s THEN n ELSE 0)
    <2>1. BytesFrom(segs, t, c) = BytesFrom(kept, t, c)
        <3>1. ASSUME NEW i \in 1 .. Len(segs)
              PROVE  segs[i].stream = kept[i].stream /\ Rest(segs[i], c) = Rest(kept[i], c)
            <4>1. CASE i = 1
                <5>1. segs[1].offset + segs[1].len = kept[1].offset + kept[1].len
                      /\ kept[1].offset <= segs[1].offset
                      /\ segs[1].offset \in Nat /\ segs[1].len \in Nat
                    BY <1>10, <1>6, <1>9
                <5>2. Rest(segs[1], c) = Rest(kept[1], c)
                    <6>1. segs[1].offset <= c /\ segs[1].len > 0
                        BY <1>13, <1>10, <1>6, <1>9
                    <6> QED BY <5>1, <6>1, <1>6, RestTrimmed
                <5> QED BY <4>1, <5>2, <1>10
            <4>2. CASE i # 1
                <5>1. i \in 2 .. Len(kept)
                    BY <4>2, <1>10, <1>4
                <5> QED BY <5>1, <1>10
            <4> QED BY <4>1, <4>2
        <3> QED BY <3>1, <1>10, BytesSame
    <2>2. BytesFrom(kept, t, c) = BytesFrom(all, t, c)
        <3>1. ASSUME NEW i \in 1 .. k PROVE Rest(all[i], c) = 0
            <4>1. PICK h \in 1 .. Len(all) : h = k + 1 /\ i < h /\ i \in 1 .. Len(all)
                BY <1>h, <1>1, <1>3
            <4>2. all[i].offset + all[i].len <= all[h].offset
                BY <4>1, <1>1, <1>2, Ascending
            <4>3. all[h].offset <= c /\ all[h].offset \in Nat
                BY <4>1, <1>h, <1>10, <1>13, <1>6, <1>9
            <4>4. all[i].offset \in Nat /\ all[i].len \in Nat
                BY <4>1, <1>1, SegmentTyped
            <4>5. all[i].offset + all[i].len <= c
                BY <4>2, <4>3, <4>4
            <4> QED BY <4>5 DEF Rest
        <3> QED BY <3>1, <1>1, <1>3, BytesDropped DEF kept
    <2>3. BytesFrom(all, t, c) = BytesFrom(r.segments, t, c) + (IF t = s THEN n ELSE 0)
        <3>1. Rest(new, c) = n
            BY <1>n, <1>13, <1>a, <1>b DEF Rest
        <3>2. BytesFrom(all, t, c)
                 = BytesFrom(r.segments, t, c) + (IF new.stream = t THEN Rest(new, c) ELSE 0)
            BY <1>a, <1>n, BytesAppended DEF all
        <3> QED BY <3>1, <3>2, <1>n
    <2> QED BY <2>1, <2>2, <2>3
<1>14. r.base <= segs[1].offset
    BY <1>7, <1>10, <1>6, <1>9, <1>a, SMTT(30)
<1> QED BY <1>p, <1>12, <1>13, <1>14 DEF total

\* Past its end a ring has nothing.
LEMMA NothingPastTotal ==
    ASSUME NEW r, WellFormed(r), NEW s \in Streams
    PROVE  BytesFrom(r.segments, s, r.total) = 0
<1>1. r.segments \in Seq(Segment) /\ r.total \in Nat /\ r.base \in Nat /\ r.base <= r.total
    BY WellFormedIs, CapacityAssumption
<1>2. BytesFrom(r.segments, "stdout", r.total) + BytesFrom(r.segments, "stderr", r.total) = 0
    BY <1>1, BothStreams
<1>3. BytesFrom(r.segments, "stdout", r.total) \in Nat
      /\ BytesFrom(r.segments, "stderr", r.total) \in Nat
    BY <1>1, BytesTyped
<1> QED BY <1>2, <1>3 DEF Streams
-----------------------------------------------------------------------------
\* The order in which a child, its pumps and its supervisor come to an end.
Ending ==
    /\ sup # "wait" => child # "running"
    /\ sup \in {"notify", "done"} <=> state # "running"
    /\ \A s \in Streams : pump[s] = "eof" => pipe[s] = 0 /\ child # "running" /\ ~orphan
    /\ state # "running" => \A s \in Streams : pump[s] = "eof"
    /\ poll.exited # "running" => state # "running"

\* Every byte is in a pipe, or it has been in the ring.
Counted ==
    /\ ring.total + pipe["stdout"] + pipe["stderr"] = written["stdout"] + written["stderr"]
    /\ \A s \in Streams : pipe[s] <= written[s]

\* What the client has shown and what it was told to be lost is all that it is past; while
\* it is in the ring and never was warned, each stream has the rest of its bytes there.
Followed ==
    /\ follow.cursor <= ring.total
    /\ follow.shown["stdout"] + follow.shown["stderr"] + follow.skipped = follow.cursor
    /\ ~follow.warned /\ ring.base <= follow.cursor =>
           \A s \in Streams :
               follow.shown[s] + BytesFrom(ring.segments, s, follow.cursor) + pipe[s] = written[s]
    /\ follow.pc = "done" =>
           follow.cursor = ring.total /\ \A s \in Streams : pump[s] = "eof"

\* The inductive invariant.
ExecInv == ExecTypeOK /\ Ending /\ Counted /\ Followed

\* A request starts with an empty ring and a silent child.
LEMMA InitExecInv == ExecInit => ExecInv
<1> SUFFICES ASSUME ExecInit PROVE ExecInv
    OBVIOUS
<1>1. WellFormed(NewRing) /\ NewRing.segments = <<>> /\ NewRing.total = 0
    BY CapacityAssumption DEF WellFormed, NewRing, SegmentEnd
<1>2. ASSUME NEW s \in Streams PROVE BytesFrom(ring.segments, s, 0) = 0
    BY <1>1, <1>2, NothingPastTotal DEF ExecInit
<1>3. ExecTypeOK
    <2>1. pipe \in [Streams -> 0 .. MaxBytes] /\ written \in [Streams -> 0 .. MaxBytes]
          /\ pump \in [Streams -> {"read", "notify", "eof"}] /\ WellFormed(ring)
        BY <1>1, ExecAssumption DEF ExecInit
    <2>2. poll \in Poll
        BY DEF ExecInit, Poll, NoPoll
    <2>3. follow \in Follow
        BY DEF ExecInit, Follow
    <2> QED BY <2>1, <2>2, <2>3 DEF ExecInit, ExecTypeOK
<1>4. Ending /\ Counted
    BY <1>1 DEF ExecInit, Ending, Counted, NoPoll, Streams
<1>5. Followed
    <2>1. follow.cursor = 0 /\ follow.skipped = 0 /\ follow.pc = "ask"
          /\ \A s \in Streams : follow.shown[s] = 0 /\ pipe[s] = 0 /\ written[s] = 0
        BY DEF ExecInit
    <2>2. ring.total = 0
        BY <1>1 DEF ExecInit
    <2> QED BY <2>1, <2>2, <1>2 DEF Followed, Streams
<1> QED BY <1>3, <1>4, <1>5 DEF ExecInv

\* What the variables are, in the words that the steps below need.
LEMMA ExecRanges ==
    ASSUME ExecInv
    PROVE  /\ "stdout" \in Streams /\ "stderr" \in Streams
           /\ \A s \in Streams : /\ pipe[s] \in Nat /\ pipe[s] <= written[s]
                                 /\ written[s] \in Nat /\ written[s] <= MaxBytes
                                 /\ follow.shown[s] \in Nat
           /\ WellFormed(ring) /\ ring.total \in Nat /\ ring.base \in Nat /\ ring.base <= ring.total
           /\ follow.cursor \in Nat /\ follow.skipped \in Nat /\ follow.cursor <= ring.total
           /\ ring.segments \in Seq(Segment) /\ MaxBytes \in Nat
<1>1. ExecTypeOK /\ Counted /\ Followed
    BY DEF ExecInv
<1>2. WellFormed(ring)
    BY <1>1 DEF ExecTypeOK
<1>3. ring.total \in Nat /\ ring.base \in Nat /\ ring.segments \in Seq(Segment)
      /\ ring.base <= ring.total
    BY <1>2, WellFormedIs, CapacityAssumption
<1> QED BY <1>1, <1>2, <1>3, ExecAssumption DEF ExecTypeOK, Counted, Followed, Follow, Streams

\* A page brings the client to the end of the ring.
LEMMA ReplyKeepsInv ==
    ASSUME ExecInv, Reply(ReadFrom(ring, follow.cursor)),
           UNCHANGED <<childVars, pump, ring, sup, state, listed>>
    PROVE  ExecInv'
<1> DEFINE page  == ReadFrom(ring, follow.cursor)
           start == IF follow.cursor > ring.base THEN follow.cursor ELSE ring.base
           got(s) == BytesFrom(ring.segments, s, start)
<1>0. ExecTypeOK /\ Ending /\ Counted /\ Followed
    BY DEF ExecInv
<1>1. /\ page.next = ring.total /\ page.truncated = (follow.cursor < ring.base)
      /\ \A s \in Streams : page.bytes[s] = got(s)
    BY DEF ReadFrom
<1>2. start \in Nat /\ ring.base <= start /\ start <= ring.total
    BY ExecRanges
<1>3. got("stdout") + got("stderr") = ring.total - start
    BY <1>2, ExecRanges, BothStreams
<1>4. \A s \in Streams : got(s) \in Nat
    BY <1>2, ExecRanges, BytesTyped
<1> HIDE DEF start, got, page
<1>5. /\ follow' \in Follow /\ poll' = NoPoll
      /\ \A s \in Streams : follow'.shown[s] = follow.shown[s] + got(s)
      /\ follow'.skipped = IF follow.cursor < ring.base
                           THEN follow.skipped + (ring.base - follow.cursor) ELSE follow.skipped
      /\ follow'.warned = (follow.warned \/ follow.cursor < ring.base)
      /\ follow'.cursor = ring.total
      /\ follow'.pc = IF poll.exited = "running" THEN "ask" ELSE "done"
    <2>1. follow \in Follow
        BY <1>0 DEF ExecTypeOK
    <2>2. Shown(page) \in [Streams -> Nat]
          /\ \A s \in Streams : Shown(page)[s] = follow.shown[s] + got(s)
        BY <1>1, <1>4, ExecRanges DEF Shown
    <2>3. follow.cursor < ring.base => ring.base - follow.cursor \in Nat
        BY ExecRanges
    <2> DEFINE skipped == IF page.truncated THEN follow.skipped + (ring.base - follow.cursor)
                          ELSE follow.skipped
               warned == follow.warned \/ page.truncated
               code == IF poll.exited = "running" THEN follow.code ELSE ExitCode(poll.exited)
               pc == IF poll.exited = "running" THEN "ask" ELSE "done"
    <2>4. skipped \in Nat /\ warned \in BOOLEAN /\ code \in {"none", "0", "1"}
          /\ pc \in {"ask", "waiting", "done", "failed"}
        <3>1. skipped \in Nat
            <4>1. CASE follow.cursor < ring.base
                BY <4>1, <1>1, <2>3, ExecRanges
            <4>2. CASE ~ (follow.cursor < ring.base)
                <5>1. ~page.truncated
                    BY <4>2, <1>1, Zenon
                <5> QED BY <5>1, ExecRanges
            <4> QED BY <4>1, <4>2
        <3>2. follow.warned \in BOOLEAN /\ follow.code \in {"none", "0", "1"}
            BY <2>1 DEF Follow
        <3>3. warned \in BOOLEAN
            BY <1>1, <3>2, Zenon
        <3> QED BY <3>1, <3>2, <3>3 DEF ExitCode
    <2>5. /\ poll' = NoPoll
          /\ follow' = [follow EXCEPT !.shown = Shown(page), !.skipped = skipped,
                                      !.warned = warned, !.cursor = page.next,
                                      !.pc = pc, !.code = code]
        BY DEF Reply, page, Follow
    <2>6. page.next \in Nat
        BY <1>1, ExecRanges
    <2> HIDE DEF skipped, warned, code, pc
    <2>7. /\ follow' \in Follow /\ follow'.shown = Shown(page) /\ follow'.skipped = skipped
          /\ follow'.warned = warned /\ follow'.cursor = page.next /\ follow'.pc = pc
        BY <2>1, <2>2, <2>4, <2>5, <2>6 DEF Follow
    <2>8. follow'.warned = (follow.warned \/ follow.cursor < ring.base)
        BY <2>7, <1>1, Zenon DEF warned
    <2>9. follow'.skipped = IF follow.cursor < ring.base
                            THEN follow.skipped + (ring.base - follow.cursor) ELSE follow.skipped
        BY <2>7, <1>1, Zenon DEF skipped
    <2> QED BY <2>2, <2>5, <2>7, <2>8, <2>9, <1>1 DEF pc
<1>6. ExecTypeOK' /\ Ending' /\ Counted'
    BY <1>0, <1>5 DEF ExecTypeOK, Ending, Counted, Poll, NoPoll, childVars
<1>7. follow'.shown["stdout"] + follow'.shown["stderr"] + follow'.skipped = follow'.cursor
    <2>1. follow.shown["stdout"] + follow.shown["stderr"] + follow.skipped = follow.cursor
        BY <1>0 DEF Followed
    <2>2. start = IF follow.cursor > ring.base THEN follow.cursor ELSE ring.base
        BY DEF start
    <2>3. /\ follow'.shown["stdout"] = follow.shown["stdout"] + got("stdout")
          /\ follow'.shown["stderr"] = follow.shown["stderr"] + got("stderr")
          /\ got("stdout") \in Nat /\ got("stderr") \in Nat
          /\ follow.shown["stdout"] \in Nat /\ follow.shown["stderr"] \in Nat
        BY <1>4, <1>5, ExecRanges
    <2>4. CASE follow.cursor < ring.base
        <3>1. got("stdout") + got("stderr") = ring.total - ring.base
            BY <2>2, <2>4, <1>3, ExecRanges
        <3>2. follow'.skipped = follow.skipped + (ring.base - follow.cursor)
              /\ follow'.cursor = ring.total
            BY <1>5, <2>4
        <3>3. /\ ring.base \in Nat /\ ring.total \in Nat
              /\ follow.cursor \in Nat /\ follow.skipped \in Nat
            BY ExecRanges
        <3> QED BY <2>1, <2>3, <3>1, <3>2, <3>3
    <2>5. CASE ~ (follow.cursor < ring.base)
        <3>1. got("stdout") + got("stderr") = ring.total - follow.cursor
            BY <2>2, <2>5, <1>3, ExecRanges
        <3>2. follow'.skipped = follow.skipped /\ follow'.cursor = ring.total
            BY <1>5, <2>5
        <3>3. ring.total \in Nat /\ follow.cursor \in Nat /\ follow.skipped \in Nat
            BY ExecRanges
        <3> QED BY <2>1, <2>3, <3>1, <3>2, <3>3
    <2> QED BY <2>4, <2>5
<1>8. ASSUME ~follow'.warned, NEW s \in Streams
      PROVE  follow'.shown[s] + BytesFrom(ring.segments, s, ring.total) + pipe[s] = written[s]
    <2>1. ~follow.warned /\ ring.base <= follow.cursor
        <3>1. ~follow.warned /\ ~ (follow.cursor < ring.base)
            BY <1>5, <1>8, Zenon
        <3> QED BY <3>1, ExecRanges
    <2>2. start = follow.cursor
        BY <2>1, ExecRanges DEF start
    <2>3. follow.shown[s] + got(s) + pipe[s] = written[s]
        BY <2>1, <2>2, <1>0 DEF Followed, got
    <2>4. BytesFrom(ring.segments, s, ring.total) = 0
        BY ExecRanges, NothingPastTotal
    <2>5. got(s) \in Nat /\ follow.shown[s] \in Nat /\ pipe[s] \in Nat
        BY <1>4, ExecRanges
    <2> QED BY <2>3, <2>4, <2>5, <1>5
<1>9. poll.exited # "running" => \A s \in Streams : pump[s] = "eof"
    BY <1>0 DEF Ending
<1>10. Followed'
    BY <1>5, <1>7, <1>8, <1>9, ExecRanges DEF Followed, childVars
<1> QED BY <1>6, <1>10 DEF ExecInv

\* Steps that move no byte and end no client.
LEMMA NoByteMoves ==
    ASSUME ExecInv, UNCHANGED <<pipe, written, ring>>,
           follow'.cursor = follow.cursor, follow'.shown = follow.shown,
           follow'.skipped = follow.skipped, follow'.warned = follow.warned,
           follow'.pc = "done" => follow.pc = "done",
           \A s \in Streams : pump[s] = "eof" => pump'[s] = "eof"
    PROVE  Counted' /\ Followed'
BY DEF ExecInv, Counted, Followed

\* A byte is written, and goes to the pipe.
LEMMA WriteKeepsExecInv ==
    ASSUME ExecInv, NEW s \in Streams, Write(s)
    PROVE  ExecInv'
<1>0. ExecTypeOK /\ Ending /\ Counted /\ Followed
    BY DEF ExecInv
<1>1. /\ pipe'[s] = pipe[s] + 1 /\ written'[s] = written[s] + 1
      /\ \A t \in Streams : t # s => pipe'[t] = pipe[t] /\ written'[t] = written[t]
      /\ written["stdout"] + written["stderr"] < MaxBytes
      /\ UNCHANGED <<child, orphan, pump, ring, sup, state, listed, poll, follow>>
      /\ pipe' \in [Streams -> Int] /\ written' \in [Streams -> Int]
    <2>1. /\ pipe' = [pipe EXCEPT ![s] = pipe[s] + 1]
          /\ written' = [written EXCEPT ![s] = written[s] + 1]
          /\ written["stdout"] + written["stderr"] < MaxBytes
          /\ UNCHANGED <<child, orphan, pump, ring, sup, state, listed, poll, follow>>
        BY DEF Write
    <2>2. pipe \in [Streams -> Int] /\ written \in [Streams -> Int]
        BY <1>0 DEF ExecTypeOK
    <2>3. pipe[s] + 1 \in Int /\ written[s] + 1 \in Int
        BY <2>2
    <2> QED BY <2>1, <2>2, <2>3
<1>2. \A t \in Streams : pipe'[t] \in Nat /\ pipe'[t] <= written'[t] /\ written'[t] \in Nat
                         /\ written'[t] <= MaxBytes /\ pipe'[t] <= MaxBytes
    <2>1. \A t \in Streams : pipe[t] \in Nat /\ written[t] \in Nat /\ pipe[t] <= written[t]
                             /\ written[t] <= MaxBytes
        BY ExecRanges
    <2>2. written[s] + 1 <= MaxBytes
        <3>1. CASE s = "stdout"
            BY <3>1, <2>1, <1>1, ExecAssumption DEF Streams
        <3>2. CASE s = "stderr"
            BY <3>2, <2>1, <1>1, ExecAssumption DEF Streams
        <3> QED BY <3>1, <3>2 DEF Streams
    <2> SUFFICES ASSUME NEW t \in Streams
                 PROVE  /\ pipe'[t] \in Nat /\ pipe'[t] <= written'[t] /\ written'[t] \in Nat
                        /\ written'[t] <= MaxBytes /\ pipe'[t] <= MaxBytes
        OBVIOUS
    <2>3. CASE t = s
        BY <2>1, <2>2, <2>3, <1>1, ExecAssumption
    <2>4. CASE t # s
        BY <2>1, <2>4, <1>1, ExecAssumption
    <2> QED BY <2>3, <2>4
<1>3. ExecTypeOK'
    <2>1. pipe' \in [Streams -> 0 .. MaxBytes] /\ written' \in [Streams -> 0 .. MaxBytes]
        BY <1>1, <1>2, ExecRanges
    <2> QED BY <1>0, <1>1, <2>1 DEF ExecTypeOK
<1>4. pump[s] # "eof"
    BY <1>0 DEF Write, Ending
<1>5. Ending'
    <2>1. \A t \in Streams : pump[t] = "eof" => pipe'[t] = 0
        BY <1>0, <1>1, <1>4 DEF Ending
    <2> QED BY <1>0, <1>1, <2>1 DEF Ending
<1>6. Counted'
    <2>1. ring.total + pipe["stdout"] + pipe["stderr"] = written["stdout"] + written["stderr"]
        BY <1>0 DEF Counted
    <2>2. /\ pipe["stdout"] \in Nat /\ pipe["stderr"] \in Nat
          /\ written["stdout"] \in Nat /\ written["stderr"] \in Nat /\ ring.total \in Nat
        BY ExecRanges
    <2>3. CASE s = "stdout"
        <3>1. "stderr" # s /\ "stderr" \in Streams
            BY <2>3 DEF Streams
        <3>2. /\ pipe'["stdout"] = pipe["stdout"] + 1 /\ written'["stdout"] = written["stdout"] + 1
              /\ pipe'["stderr"] = pipe["stderr"] /\ written'["stderr"] = written["stderr"]
            BY <2>3, <3>1, <1>1
        <3>3. ring'.total + pipe'["stdout"] + pipe'["stderr"]
                 = written'["stdout"] + written'["stderr"]
            BY <2>1, <2>2, <3>2, <1>1
        <3> QED BY <3>3, <1>2 DEF Counted
    <2>4. CASE s = "stderr"
        <3>1. "stdout" # s /\ "stdout" \in Streams
            BY <2>4 DEF Streams
        <3>2. /\ pipe'["stderr"] = pipe["stderr"] + 1 /\ written'["stderr"] = written["stderr"] + 1
              /\ pipe'["stdout"] = pipe["stdout"] /\ written'["stdout"] = written["stdout"]
            BY <2>4, <3>1, <1>1
        <3>3. ring'.total + pipe'["stdout"] + pipe'["stderr"]
                 = written'["stdout"] + written'["stderr"]
            BY <2>1, <2>2, <3>2, <1>1
        <3> QED BY <3>3, <1>2 DEF Counted
    <2> QED BY <2>3, <2>4 DEF Streams
<1>7. Followed'
    <2>1. \A t \in Streams : follow.shown[t] \in Nat
                             /\ BytesFrom(ring.segments, t, follow.cursor) \in Nat
        BY ExecRanges, BytesTyped
    <2>2. ASSUME NEW t \in Streams,
                 follow.shown[t] + BytesFrom(ring.segments, t, follow.cursor) + pipe[t] = written[t]
          PROVE  follow.shown[t] + BytesFrom(ring.segments, t, follow.cursor) + pipe'[t]
                    = written'[t]
        <3>1. CASE t = s
            <4>1. /\ pipe[s] \in Nat /\ written[s] \in Nat /\ follow.shown[s] \in Nat
                  /\ BytesFrom(ring.segments, s, follow.cursor) \in Nat
                BY <2>1, ExecRanges
            <4>2. follow.shown[s] + BytesFrom(ring.segments, s, follow.cursor) + pipe[s] = written[s]
                  /\ pipe'[s] = pipe[s] + 1 /\ written'[s] = written[s] + 1
                BY <3>1, <2>2, <1>1
            <4> QED BY <3>1, <4>1, <4>2
        <3>2. CASE t # s
            BY <3>2, <1>1, <2>2
        <3> QED BY <3>1, <3>2
    <2> QED BY <1>0, <1>1, <2>2 DEF Followed
<1> QED BY <1>3, <1>5, <1>6, <1>7 DEF ExecInv

\* A pump takes bytes from its pipe into the ring.
LEMMA PumpReadKeepsInv ==
    ASSUME ExecInv, NEW s \in Streams, PumpRead(s)
    PROVE  ExecInv'
<1>0. ExecTypeOK /\ Ending /\ Counted /\ Followed
    BY DEF ExecInv
<1>1. PICK n \in 1 .. PumpBuf : n <= pipe[s] /\ ring' = Push(ring, s, n)
                                /\ pipe' = [pipe EXCEPT ![s] = @ - n]
    BY DEF PumpRead
<1>2. n \in Nat /\ n \in Nat \ {0} /\ n > 0
    BY <1>1, ExecAssumption
<1>3. /\ pump[s] = "read" /\ pump' = [pump EXCEPT ![s] = "notify"]
      /\ UNCHANGED <<child, orphan, written, sup, state, listed, poll, follow>>
    BY DEF PumpRead
<1>4. /\ pipe' \in [Streams -> Int] /\ pipe'[s] = pipe[s] - n
      /\ \A t \in Streams : t # s => pipe'[t] = pipe[t]
    BY <1>0, <1>1, <1>2, ExecRanges DEF ExecTypeOK
<1>5. \A t \in Streams : pipe'[t] \in Nat /\ pipe'[t] <= pipe[t]
    BY <1>1, <1>2, <1>4, ExecRanges
<1>6. /\ WellFormed(ring') /\ ring'.total = ring.total + n /\ ring.base <= ring'.base
      /\ \A t \in Streams, c \in Nat :
            ring'.base <= c /\ c <= ring.total
                => BytesFrom(ring'.segments, t, c)
                      = BytesFrom(ring.segments, t, c) + (IF t = s THEN n ELSE 0)
    <2>1. WellFormed(ring)
        BY ExecRanges
    <2>2. /\ WellFormed(Push(ring, s, n)) /\ Push(ring, s, n).total = ring.total + n
          /\ ring.base <= Push(ring, s, n).base
          /\ \A t \in Streams, c \in Nat :
                Push(ring, s, n).base <= c /\ c <= ring.total
                    => BytesFrom(Push(ring, s, n).segments, t, c)
                          = BytesFrom(ring.segments, t, c) + (IF t = s THEN n ELSE 0)
        BY <2>1, <1>2, PushKeeps
    <2> QED BY <2>2, <1>1
<1>7. ExecTypeOK'
    <2>1. pipe' \in [Streams -> 0 .. MaxBytes]
        BY <1>4, <1>5, ExecRanges, SMTT(30)
    <2>2. pump' \in [Streams -> {"read", "notify", "eof"}]
        BY <1>0, <1>3 DEF ExecTypeOK
    <2> QED BY <1>0, <1>3, <1>6, <2>1, <2>2 DEF ExecTypeOK
<1>8. \A t \in Streams : /\ pump'[t] = "eof" <=> pump[t] = "eof"
                         /\ pump[t] = "eof" => t # s
    BY <1>0, <1>3 DEF ExecTypeOK
<1>9. Ending'
    <2>1. sup \in {"notify", "done"} <=> state # "running"
        BY <1>0 DEF Ending
    <2> QED BY <1>0, <1>3, <1>4, <1>8, <2>1 DEF Ending
<1>10. Counted'
    <2>1. pipe'["stdout"] + pipe'["stderr"] + n = pipe["stdout"] + pipe["stderr"]
        <3>1. pipe["stdout"] \in Nat /\ pipe["stderr"] \in Nat
            BY ExecRanges
        <3>2. CASE s = "stdout"
            <4>1. pipe'["stdout"] = pipe["stdout"] - n /\ pipe'["stderr"] = pipe["stderr"]
                BY <3>2, <1>4 DEF Streams
            <4> QED BY <4>1, <3>1, <1>2
        <3>3. CASE s = "stderr"
            <4>1. pipe'["stderr"] = pipe["stderr"] - n /\ pipe'["stdout"] = pipe["stdout"]
                BY <3>3, <1>4 DEF Streams
            <4> QED BY <4>1, <3>1, <1>2
        <3> QED BY <3>2, <3>3 DEF Streams
    <2>2. ring.total + pipe["stdout"] + pipe["stderr"] = written["stdout"] + written["stderr"]
        BY <1>0 DEF Counted
    <2>3. /\ pipe["stdout"] \in Nat /\ pipe["stderr"] \in Nat
          /\ pipe'["stdout"] \in Nat /\ pipe'["stderr"] \in Nat
          /\ written["stdout"] \in Nat /\ written["stderr"] \in Nat /\ ring.total \in Nat
        BY <1>5, ExecRanges
    <2>4. ring'.total + pipe'["stdout"] + pipe'["stderr"] = written["stdout"] + written["stderr"]
        BY <2>1, <2>2, <2>3, <1>2, <1>6
    <2>5. \A t \in Streams : pipe'[t] <= written[t]
        BY <1>5, ExecRanges, SMTT(30)
    <2> QED BY <2>4, <2>5, <1>3 DEF Counted
<1>11. Followed'
    <2>1. follow.cursor \in Nat /\ follow.cursor <= ring'.total
        BY <1>2, <1>6, ExecRanges
    <2>2. ASSUME ~follow.warned, ring'.base <= follow.cursor, NEW t \in Streams
          PROVE  follow.shown[t] + BytesFrom(ring'.segments, t, follow.cursor) + pipe'[t]
                    = written[t]
        <3>1. BytesFrom(ring'.segments, t, follow.cursor)
                 = BytesFrom(ring.segments, t, follow.cursor) + (IF t = s THEN n ELSE 0)
            BY <2>2, <1>6, ExecRanges
        <3>2. ring.base <= follow.cursor
            <4>1. ring'.base \in Nat
                BY <1>6, WellFormedIs
            <4> QED BY <2>2, <4>1, <1>6, ExecRanges
        <3>3. follow.shown[t] + BytesFrom(ring.segments, t, follow.cursor) + pipe[t] = written[t]
            BY <2>2, <3>2, <1>0 DEF Followed
        <3>4. follow.shown[t] \in Nat /\ BytesFrom(ring.segments, t, follow.cursor) \in Nat
              /\ pipe[t] \in Nat /\ pipe'[t] \in Nat
            BY <1>5, ExecRanges, BytesTyped
        <3>5. pipe'[t] + (IF t = s THEN n ELSE 0) = pipe[t]
            BY <1>2, <1>4, <3>4
        <3> HIDE DEF Streams
        <3>6. (IF t = s THEN n ELSE 0) \in Nat
            BY <1>2
        <3> QED BY <3>1, <3>3, <3>4, <3>5, <3>6
    <2>3. follow.pc # "done"
        BY <1>0, <1>3 DEF Followed
    <2> QED BY <1>0, <1>3, <2>1, <2>2, <2>3 DEF Followed
<1> QED BY <1>7, <1>9, <1>10, <1>11 DEF ExecInv

\* The steps of the child, the pumps and the supervisor that move no byte.
LEMMA SuperviseKeepsInv ==
    ASSUME ExecInv,
           \/ Fork \/ OrphanEnds \/ \E how \in Ends : ChildEnds(how)
           \/ \E s \in Streams : PumpNotify(s) \/ PumpEof(s)
           \/ Reap \/ SetExited \/ NotifyExited \/ Prune
    PROVE  ExecInv'
<1>0. ExecTypeOK /\ Ending
    BY DEF ExecInv
<1>1. UNCHANGED <<pipe, written, ring, follow>>
    BY DEF Fork, OrphanEnds, ChildEnds, PumpNotify, PumpEof, Reap, SetExited, NotifyExited,
           Prune, childVars
<1>2. poll' \in Poll /\ poll'.exited = poll.exited
    <2>1. poll \in Poll
        BY <1>0 DEF ExecTypeOK
    <2>2. \A w \in BOOLEAN : [poll EXCEPT !.woken = w] \in Poll
                             /\ [poll EXCEPT !.woken = w].exited = poll.exited
        BY <2>1 DEF Poll
    <2>3. poll' = poll \/ \E w \in BOOLEAN : poll' = [poll EXCEPT !.woken = w]
        BY DEF Fork, OrphanEnds, ChildEnds, PumpNotify, PumpEof, Reap, SetExited, NotifyExited,
               Prune, NotifyWaiters
    <2> QED BY <2>1, <2>2, <2>3
<1>3. ASSUME \/ Fork \/ OrphanEnds \/ \E how \in Ends : ChildEnds(how)
             \/ Reap \/ SetExited \/ NotifyExited \/ Prune
      PROVE  ExecTypeOK' /\ Ending' /\ pump' = pump
    <2>1. CASE Fork
        BY <2>1, <1>0 DEF Fork, ExecTypeOK, Ending
    <2>2. CASE OrphanEnds
        BY <2>2, <1>0 DEF OrphanEnds, ExecTypeOK, Ending
    <2>3. CASE \E how \in Ends : ChildEnds(how)
        BY <2>3, <1>0 DEF ChildEnds, ExecTypeOK, Ending, Ends
    <2>4. CASE Reap
        BY <2>4, <1>0 DEF Reap, ExecTypeOK, Ending, childVars
    <2>5. CASE SetExited
        <3>1. child # "running"
            BY <2>5, <1>0 DEF SetExited, Ending
        <3> QED BY <2>5, <3>1, <1>0 DEF SetExited, Drained, ExecTypeOK, Ending, childVars
    <2>6. CASE NotifyExited
        BY <2>6, <1>0, <1>2 DEF NotifyExited, ExecTypeOK, Ending, childVars
    <2>7. CASE Prune
        BY <2>7, <1>0 DEF Prune, ExecTypeOK, Ending, childVars
    <2> QED BY <1>3, <2>1, <2>2, <2>3, <2>4, <2>5, <2>6, <2>7
<1>4. ASSUME NEW s \in Streams, PumpNotify(s) \/ PumpEof(s)
      PROVE  ExecTypeOK' /\ Ending' /\ \A t \in Streams : pump[t] = "eof" => pump'[t] = "eof"
    <2>1. CASE PumpNotify(s)
        <3>1. /\ pump[s] = "notify" /\ pump' = [pump EXCEPT ![s] = "read"]
              /\ UNCHANGED <<child, orphan, pipe, written, ring, sup, state, listed, follow>>
            BY <2>1 DEF PumpNotify, childVars
        <3>2. pump' \in [Streams -> {"read", "notify", "eof"}]
              /\ \A t \in Streams : pump'[t] = "eof" <=> pump[t] = "eof"
            BY <3>1, <1>0 DEF ExecTypeOK
        <3> QED BY <3>1, <3>2, <1>0, <1>2 DEF ExecTypeOK, Ending
    <2>2. CASE PumpEof(s)
        <3>1. /\ pump[s] = "read" /\ pipe[s] = 0 /\ child # "running" /\ ~orphan
              /\ pump' = [pump EXCEPT ![s] = "eof"]
              /\ UNCHANGED <<child, orphan, pipe, written, ring, sup, state, listed, poll, follow>>
            BY <2>2 DEF PumpEof, childVars
        <3>2. pump' \in [Streams -> {"read", "notify", "eof"}] /\ pump'[s] = "eof"
              /\ \A t \in Streams : t # s => pump'[t] = pump[t]
            BY <3>1, <1>0 DEF ExecTypeOK
        <3> QED BY <3>1, <3>2, <1>0 DEF ExecTypeOK, Ending
    <2> QED BY <1>4, <2>1, <2>2
<1>5. ExecTypeOK' /\ Ending' /\ \A t \in Streams : pump[t] = "eof" => pump'[t] = "eof"
    BY <1>3, <1>4
<1>6. Counted' /\ Followed'
    BY <1>1, <1>5, NoByteMoves
<1> QED BY <1>5, <1>6 DEF ExecInv

\* The steps of the handler and its client that bring no page.
LEMMA PollKeepsInv ==
    ASSUME ExecInv, poll' \in Poll,
           poll'.exited = "running" \/ poll'.exited = poll.exited \/ poll'.exited = state,
           \/ follow' = follow
           \/ \E pc \in {"waiting", "failed"} : follow' = [follow EXCEPT !.pc = pc],
           UNCHANGED <<childVars, pump, ring, sup, state, listed>>
    PROVE  ExecInv'
<1>0. ExecTypeOK /\ Ending
    BY DEF ExecInv
<1>1. /\ follow' \in Follow /\ follow'.cursor = follow.cursor /\ follow'.shown = follow.shown
      /\ follow'.skipped = follow.skipped /\ follow'.warned = follow.warned
      /\ follow'.pc = "done" => follow.pc = "done"
    BY <1>0 DEF ExecTypeOK, Follow
<1>2. ExecTypeOK' /\ Ending'
    BY <1>0, <1>1 DEF ExecTypeOK, Ending, childVars
<1>3. Counted' /\ Followed'
    BY <1>1, NoByteMoves DEF childVars
<1> QED BY <1>2, <1>3 DEF ExecInv

\* The handler of a poll keeps the invariant, whatever it has read and however it ends.
LEMMA HandleKeepsInv ==
    ASSUME ExecInv,
           \/ Ask \/ AskTooLate \/ ReadState \/ ReadRing \/ Woken \/ ReadRingAgain
           \/ WaitOver \/ PollLost \/ GiveUp
    PROVE  ExecInv'
<1>0. poll \in Poll /\ state \in Ends \cup {"running"} /\ ring.total \in Nat
    BY ExecRanges DEF ExecInv, ExecTypeOK
<1>n. NoPoll \in Poll /\ NoPoll.exited = "running"
      /\ [NoPoll EXCEPT !.pc = "state"] \in Poll
      /\ [NoPoll EXCEPT !.pc = "state"].exited = "running"
    BY DEF Poll, NoPoll
<1>1. CASE Ask
    BY <1>1, <1>n, PollKeepsInv DEF Ask
<1>2. CASE AskTooLate
    BY <1>2, <1>0, PollKeepsInv DEF AskTooLate
<1>3. CASE ReadState
    <2>1. poll' \in Poll /\ poll'.exited = state
        BY <1>3, <1>0 DEF ReadState, Poll
    <2> QED BY <1>3, <2>1, PollKeepsInv DEF ReadState
<1>4. CASE ReadRing
    <2>1. CASE Reply(ReadFrom(ring, follow.cursor))
        BY <1>4, <2>1, ReplyKeepsInv DEF ReadRing
    <2>2. CASE poll' = [poll EXCEPT !.pc = "wait", !.seen = ring.total] /\ UNCHANGED follow
        <3>1. poll' \in Poll /\ poll'.exited = poll.exited
            BY <2>2, <1>0 DEF Poll
        <3> QED BY <1>4, <2>2, <3>1, PollKeepsInv DEF ReadRing
    <2> QED BY <1>4, <2>1, <2>2 DEF ReadRing
<1>5. CASE Woken \/ WaitOver
    <2>1. poll' \in Poll /\ poll'.exited = poll.exited
        BY <1>5, <1>0 DEF Woken, WaitOver, Poll
    <2> QED BY <1>5, <2>1, PollKeepsInv DEF Woken, WaitOver
<1>6. CASE ReadRingAgain
    BY <1>6, ReplyKeepsInv DEF ReadRingAgain
<1>7. CASE PollLost
    BY <1>7, <1>n, PollKeepsInv DEF PollLost
<1>8. CASE GiveUp
    BY <1>8, <1>0, PollKeepsInv DEF GiveUp
<1> QED BY <1>1, <1>2, <1>3, <1>4, <1>5, <1>6, <1>7, <1>8

\* The supervisor, the pumps, the child and the handler keep the invariant.
LEMMA ExecInvStep == ExecInv /\ [ExecNext]_execVars => ExecInv'
<1> SUFFICES ASSUME ExecInv, [ExecNext]_execVars PROVE ExecInv'
    OBVIOUS
<1>1. CASE \E s \in Streams : Write(s)
    BY <1>1, WriteKeepsExecInv
<1>2. CASE \E s \in Streams : PumpRead(s)
    BY <1>2, PumpReadKeepsInv
<1>3. CASE \/ Fork \/ OrphanEnds \/ \E how \in Ends : ChildEnds(how)
           \/ \E s \in Streams : PumpNotify(s) \/ PumpEof(s)
           \/ Reap \/ SetExited \/ NotifyExited \/ Prune
    BY <1>3, SuperviseKeepsInv
<1>4. CASE \/ Ask \/ AskTooLate \/ ReadState \/ ReadRing \/ Woken \/ ReadRingAgain
           \/ WaitOver \/ PollLost \/ GiveUp
    BY <1>4, HandleKeepsInv
<1>5. CASE UNCHANGED execVars
    BY <1>5 DEF execVars, ExecInv, ExecTypeOK, Ending, Counted, Followed
<1> QED BY <1>1, <1>2, <1>3, <1>4, <1>5 DEF ExecNext, Supervise, Handle

\* Every reachable state satisfies ExecInv.
LEMMA ExecInvariant == ExecSpec => []ExecInv
<1> QED BY InitExecInv, ExecInvStep, PTL DEF ExecSpec

\* Every reachable state of an exec session is within its types.
LEMMA ExecTyped == ExecSpec => []ExecTypeOK
<1>1. ExecInv => ExecTypeOK
    BY DEF ExecInv
<1> QED BY ExecInvariant, <1>1, PTL

\* serve.rs read_page, run_exec: whoever has locked the state as exited, or was told so,
\* finds both pipes drained into the ring, however the child, what it forked, the pumps and
\* the pollers interleave.
THEOREM ExitedMeansComplete == ExecSpec => []ExitedIsComplete
<1>1. ExecInv => ExitedIsComplete
    BY DEF ExecInv, Ending, ExitedIsComplete
<1> QED BY <1>1, ExecInvariant, PTL

\* ring.rs push and read_from, session.rs exec: for every capacity of the ring, length of
\* the output and size of a read, a follower that was told `exited` has shown every byte of
\* each stream once, or has warned, and then the gap is all that is missing.
THEOREM FollowerIsTold == ExecSpec => []FollowerSeesAll
<1>1. ASSUME ExecInv PROVE FollowerSeesAll
    <2> SUFFICES ASSUME follow.pc = "done"
                 PROVE  /\ follow.shown["stdout"] + follow.shown["stderr"] + follow.skipped
                               = written["stdout"] + written["stderr"]
                        /\ ~follow.warned => follow.shown = written
        BY DEF FollowerSeesAll
    <2>1. \A s \in Streams : pipe[s] = 0
        BY <1>1 DEF ExecInv, Ending, Followed
    <2>2. follow.cursor = ring.total
        BY <1>1 DEF ExecInv, Followed
    <2>3. follow.shown["stdout"] + follow.shown["stderr"] + follow.skipped
            = written["stdout"] + written["stderr"]
        <3>1. ring.total + 0 + 0 = written["stdout"] + written["stderr"]
            BY <1>1, <2>1, ExecRanges DEF ExecInv, Counted
        <3> QED BY <1>1, <3>1, <2>2, ExecRanges DEF ExecInv, Followed
    <2>4. ASSUME ~follow.warned PROVE follow.shown = written
        <3>1. ASSUME NEW s \in Streams PROVE follow.shown[s] = written[s]
            <4>1. follow.shown[s] + BytesFrom(ring.segments, s, ring.total) + pipe[s] = written[s]
                BY <1>1, <2>2, <2>4, ExecRanges DEF ExecInv, Followed
            <4>2. BytesFrom(ring.segments, s, ring.total) = 0
                BY <1>1, ExecRanges, NothingPastTotal
            <4> QED BY <1>1, <2>1, <4>1, <4>2, ExecRanges
        <3>2. follow.shown \in [Streams -> Nat] /\ written \in [Streams -> 0 .. MaxBytes]
            BY <1>1 DEF ExecInv, ExecTypeOK, Follow
        <3> QED BY <3>1, <3>2
    <2> QED BY <2>3, <2>4
<1> QED BY <1>1, ExecInvariant, PTL
-----------------------------------------------------------------------------
(***************************************************************************)
(* ServeTimers keeps its children. The argument: a silence of the deadman  *)
(* has no request in flight, so what is in flight when the timers task has *)
(* read last_contact came in afterwards; and from the moment the server    *)
(* drains no request is new, so what it leaves to terminate is in the      *)
(* table.                                                                  *)
(***************************************************************************)

InFlight(r) == execRequest[r] \in {"sent", "admitted", "spawned"}
Works(r) == exec[r] \in {"running", "termed"}

\* Where a request is and what its child does.
Children ==
    \A r \in ExecRequests :
        /\ Works(r) => execRequest[r] \in {"spawned", "created", "refused"}
        /\ execRequest[r] = "created" /\ exec[r] = "running" => r \in execTable

\* What the timers task may conclude.
SilenceIsSilent ==
    /\ quiet => \A r \in ExecRequests : ~InFlight(r)
    /\ timer = "looked" => \A r \in ExecRequests : InFlight(r) => r \in touched

\* Once the deadman has fired, nothing new comes in.
DeadmanFired ==
    cause = "deadman" =>
        /\ timer = "returned"
        /\ \A r \in ExecRequests :
               /\ InFlight(r) => r \in touched
               /\ Works(r) => r \in touched \/ execRequest[r] = "refused"

\* How far the shutdown is.
TimersDrained ==
    /\ server \in {"binding", "accepting"} => cause = "none"
    /\ server \in {"served", "exited"} => \A r \in ExecRequests : ~InFlight(r)
    /\ NoChildForgotten

TimersInv == TimersTypeOK /\ Children /\ SilenceIsSilent /\ DeadmanFired /\ TimersDrained
-----------------------------------------------------------------------------
LEMMA InitTimersInv == TimersInit => TimersInv
BY DEF TimersInit, TimersInv, TimersTypeOK, Children, SilenceIsSilent, DeadmanFired, TimersDrained,
       NoChildForgotten, InFlight, Works

\* No permit is held exactly when no handler and no supervised child is at work.
LEMMA NoPermit ==
    ASSUME Permits = {}, NEW r \in ExecRequests
    PROVE  /\ execRequest[r] \notin {"admitted", "spawned"}
           /\ execRequest[r] = "created" => ~Works(r)
BY DEF Permits, Works

LEMMA TimersInvStep == TimersInv /\ [TimersNext]_timersVars => TimersInv'
<1> SUFFICES ASSUME TimersInv, [TimersNext]_timersVars PROVE TimersInv'
    OBVIOUS
<1>0. TimersTypeOK /\ Children /\ SilenceIsSilent /\ DeadmanFired /\ TimersDrained
    BY DEF TimersInv
<1> USE <1>0
<1> USE DEF Children, SilenceIsSilent, DeadmanFired, TimersDrained, NoChildForgotten, InFlight, Works
<1>1. CASE Silence \/ MaxDurationPasses \/ Accept
    <2>1. CASE Silence
        BY <2>1 DEF Silence, TimersInv, TimersTypeOK
    <2>2. CASE MaxDurationPasses
        BY <2>2 DEF MaxDurationPasses, TimersInv, TimersTypeOK
    <2>3. CASE Accept
        BY <2>3 DEF Accept, TimersInv, TimersTypeOK
    <2> QED BY <1>1, <2>1, <2>2, <2>3
<1>2. CASE ToldToStop
    <2>1. /\ server = "accepting" /\ server' = "draining" /\ cause' \in {"asked", "SIGTERM"}
          /\ UNCHANGED <<overdue, execRequest, exec, execTable, touched>>
          /\ timer' = timer \/ timer' = "returned"
          /\ quiet' = quiet \/ quiet' = FALSE
        BY <1>2 DEF ToldToStop, ShutDown
    <2>2. TimersTypeOK' /\ Children'
        BY <2>1 DEF TimersTypeOK
    <2>3. SilenceIsSilent' /\ DeadmanFired' /\ TimersDrained'
        BY <2>1
    <2> QED BY <2>2, <2>3 DEF TimersInv
<1>3. CASE MaxDurationFires
    BY <1>3 DEF MaxDurationFires, ShutDown, TimersInv, TimersTypeOK
<1>4. CASE ReadLastContact
    BY <1>4 DEF ReadLastContact, TimersInv, TimersTypeOK
<1>5. CASE DeadmanOrSleep
    <2>1. CASE NoExecs /\ ShutDown("deadman") /\ timer' = "returned"
        <3>1. \A r \in ExecRequests : Works(r) => execRequest[r] = "refused"
            BY <2>1, NoPermit DEF NoExecs
        <3>2. TimersTypeOK' /\ Children' /\ SilenceIsSilent' /\ TimersDrained'
            BY <1>5, <2>1 DEF DeadmanOrSleep, ShutDown, TimersTypeOK
        <3>3. DeadmanFired'
            BY <1>5, <2>1, <3>1 DEF DeadmanOrSleep, ShutDown, TimersTypeOK
        <3> QED BY <3>2, <3>3 DEF TimersInv
    <2>2. CASE ~NoExecs /\ timer' = "sleep" /\ UNCHANGED <<server, cause>>
        BY <1>5, <2>2 DEF DeadmanOrSleep, TimersInv, TimersTypeOK
    <2> QED BY <1>5, <2>1, <2>2 DEF DeadmanOrSleep
<1>6. ASSUME NEW r \in ExecRequests, Authenticate(r) PROVE TimersInv'
    BY <1>6 DEF Authenticate, Go, TimersInv, TimersTypeOK
<1>7. ASSUME NEW r \in ExecRequests, Admit(r) PROVE TimersInv'
    BY <1>7 DEF Admit, Go, TimersInv, TimersTypeOK
<1>8. ASSUME NEW r \in ExecRequests, Spawn(r) PROVE TimersInv'
    BY <1>8 DEF Spawn, Go, TimersInv, TimersTypeOK
<1>9. ASSUME NEW r \in ExecRequests, InsertExec(r) PROVE TimersInv'
    BY <1>9 DEF InsertExec, Go, TimersInv, TimersTypeOK
<1>10. ASSUME NEW r \in ExecRequests, HandlerDropped(r) PROVE TimersInv'
    BY <1>10 DEF HandlerDropped, Go, TimersInv, TimersTypeOK
<1>11. ASSUME NEW r \in ExecRequests, ExecEnds(r) \/ Forget(r) PROVE TimersInv'
    <2>1. CASE ExecEnds(r)
        BY <2>1 DEF ExecEnds, TimersInv, TimersTypeOK
    <2>2. CASE Forget(r)
        BY <2>2, ZenonT(30) DEF Forget, TimersInv, TimersTypeOK
    <2> QED BY <1>11, <2>1, <2>2
<1>12. CASE ServeReturns
    BY <1>12 DEF ServeReturns, ShutdownDrained, TimersInv, TimersTypeOK
<1>13. CASE TerminateChildren
    BY <1>13 DEF TerminateChildren, TimersInv, TimersTypeOK
<1>14. CASE UNCHANGED timersVars
    BY <1>14 DEF timersVars, TimersInv, TimersTypeOK
<1> QED
    BY <1>1, <1>2, <1>3, <1>4, <1>5, <1>6, <1>7, <1>8, <1>9, <1>10, <1>11, <1>12, <1>13, <1>14
       DEF TimersNext, TimersTask, Handler, ServerTask

\* serve.rs run_timers and the graceful shutdown, for any number of execs: the deadman takes no
\* running work of a request it could know of, and no announced child survives the process
\* without having been told to end.
THEOREM ServeKeepsChildren == TimersSpec => []ChildrenAreKept
<1>1. TimersInv => ChildrenAreKept
    BY DEF TimersInv, DeadmanFired, TimersDrained, Works, ChildrenAreKept, DeadmanSparesWork
<1> QED BY InitTimersInv, TimersInvStep, <1>1, PTL DEF TimersSpec

\* Every reachable state of the timers is within their types.
LEMMA TimersTyped == TimersSpec => []TimersTypeOK
<1>1. TimersInv => TimersTypeOK
    BY DEF TimersInv
<1> QED BY InitTimersInv, TimersInvStep, <1>1, PTL DEF TimersSpec
-----------------------------------------------------------------------------
(***************************************************************************)
(* FileUpload is sound. The argument: what a completion is about to rename *)
(* has been found whole, a late chunk can only add to a file, and no step  *)
(* takes a part file out of one hand without putting it into another.      *)
(***************************************************************************)

\* The client is at an upload, and nothing is known yet of the ones to come.
FreshUpload ==
    /\ cp.pc # "failed" => cp.u \in Uploads
    /\ \A u \in Uploads : u > cp.u => complete[u] = "none" /\ target # u

\* What is about to be renamed is what was announced.
RenamesWhole == \A u \in Uploads : complete[u] = "rename" => Announced(u)

UploadInv == UploadTypeOK /\ FreshUpload /\ RenamesWhole /\ TargetIsWhole /\ PartsAreReclaimed
-----------------------------------------------------------------------------
LEMMA InitUploadInv == UploadInit => UploadInv
<1> SUFFICES ASSUME UploadInit PROVE UploadInv
    OBVIOUS
<1>1. 0 \in Chunk /\ 1 \in 1 .. MaxTries
    BY UploadAssumption DEF Chunk
<1>2. UploadTypeOK
    BY <1>1 DEF UploadInit, UploadTypeOK, Client, NoFile
<1>3. FreshUpload /\ RenamesWhole /\ TargetIsWhole /\ PartsAreReclaimed
    BY DEF UploadInit, FreshUpload, RenamesWhole, TargetIsWhole, PartsAreReclaimed, NoFile, Uploads
<1> QED BY <1>2, <1>3 DEF UploadInv

\* The chunk loop of the client stays within its chunks and its tries.
LEMMA AnswersTyped ==
    ASSUME cp \in Client, cp.pc = "answer"
    PROVE  /\ Acked \in Client /\ Refused \in Client
           /\ Acked.u = cp.u /\ Refused.u = cp.u
<1>1. cp.i \in Chunk /\ cp.try \in 1 .. MaxTries
    BY DEF Client
<1>2. cp.i # LastChunk => cp.i + 1 \in Chunk
    BY <1>1, UploadAssumption DEF Chunk
<1>3. cp.try # MaxTries => cp.try + 1 \in 1 .. MaxTries
    BY <1>1, UploadAssumption
<1>4. 1 \in 1 .. MaxTries
    BY UploadAssumption
<1>5. Acked \in Client /\ Acked.u = cp.u
    BY <1>2, <1>4 DEF Acked, Client
<1>6. Refused \in Client /\ Refused.u = cp.u
    BY <1>3 DEF Refused, Client
<1> QED BY <1>5, <1>6

\* A handler of a chunk and an answer to one: contents grow, and the client goes on.
LEMMA ChunkKeepsInv ==
    ASSUME UploadInv,
           puts' \subseteq Put, cp' \in Client, cp'.u = cp.u, cp' = cp \/ cp.pc \notin {"insert", "failed"},
           content' \in [Uploads -> SUBSET Chunk],
           \A u \in Uploads : content[u] \subseteq content'[u],
           UNCHANGED <<changed, entry, part, target, complete, sweep, broken>>
    PROVE  UploadInv'
<1>1. UploadTypeOK'
    BY DEF UploadInv, UploadTypeOK
<1>2. \A u \in Uploads : Announced(u) => Announced(u)'
    BY DEF Announced
<1>3. FreshUpload'
    BY DEF UploadInv, FreshUpload
<1>4. RenamesWhole'
    BY <1>2 DEF UploadInv, RenamesWhole
<1>5. TargetIsWhole'
    BY <1>2 DEF UploadInv, UploadTypeOK, TargetIsWhole
<1>6. PartsAreReclaimed'
    BY DEF UploadInv, PartsAreReclaimed
<1> QED BY <1>1, <1>3, <1>4, <1>5, <1>6 DEF UploadInv

LEMMA ChunkStepKeepsInv ==
    ASSUME UploadInv, NEW h \in puts,
           ChunkLook(h) \/ ChunkOpen(h) \/ ChunkWrite(h) \/ ChunkRecord(h) \/ ChunkDropped(h)
    PROVE  UploadInv'
<1>0. h \in Put /\ h.u \in Uploads /\ h.i \in Chunk /\ puts \subseteq Put /\ cp \in Client
    BY DEF UploadInv, UploadTypeOK, Put
<1>1. ASSUME NEW pc \in {"open", "write", "record"}, Proceed(h, pc)
      PROVE  puts' \subseteq Put /\ cp' \in Client /\ cp'.u = cp.u /\ cp' = cp
    <2>1. [h EXCEPT !.pc = pc] \in Put
        BY <1>0 DEF Put
    <2> QED BY <1>0, <1>1, <2>1 DEF Proceed
<1>2. ASSUME NEW c, c = Acked \/ c = Refused, Replied(h, c)
      PROVE  /\ puts' \subseteq Put /\ cp' \in Client /\ cp'.u = cp.u
             /\ cp' = cp \/ cp.pc \notin {"insert", "failed"}
    BY <1>0, <1>2, AnswersTyped DEF Replied, WaitsFor
<1>3. UNCHANGED <<changed, entry, part, target, complete, sweep, broken>>
    BY DEF ChunkLook, ChunkOpen, ChunkWrite, ChunkRecord, ChunkDropped, files
<1>4. /\ content' \in [Uploads -> SUBSET Chunk]
      /\ \A u \in Uploads : content[u] \subseteq content'[u]
    <2>1. content \in [Uploads -> SUBSET Chunk]
        BY DEF UploadInv, UploadTypeOK
    <2>2. CASE UNCHANGED content
        BY <2>1, <2>2
    <2>3. CASE content' = [content EXCEPT ![h.u] = @ \cup {h.i}]
        BY <1>0, <2>1, <2>3
    <2> QED BY <2>2, <2>3 DEF ChunkLook, ChunkOpen, ChunkWrite, ChunkRecord, ChunkDropped, files
<1>5. /\ puts' \subseteq Put /\ cp' \in Client /\ cp'.u = cp.u
      /\ cp' = cp \/ cp.pc \notin {"insert", "failed"}
    BY <1>1, <1>2 DEF ChunkLook, ChunkOpen, ChunkWrite, ChunkRecord, ChunkDropped
<1> QED BY <1>3, <1>4, <1>5, ChunkKeepsInv

LEMMA UploadInvStep == UploadInv /\ [UploadNext]_uploadVars => UploadInv'
<1> SUFFICES ASSUME UploadInv, [UploadNext]_uploadVars PROVE UploadInv'
    OBVIOUS
<1>0. UploadTypeOK /\ FreshUpload /\ RenamesWhole /\ TargetIsWhole /\ PartsAreReclaimed
    BY DEF UploadInv
<1>t. /\ cp \in Client /\ cp.u \in 0 .. MaxCps /\ target \in Uploads \cup {NoFile}
      /\ complete \in [Uploads -> {"none", "hash", "rename"}] /\ MaxCps \in Nat
      /\ content \in [Uploads -> SUBSET Chunk]
    BY <1>0, UploadAssumption DEF UploadTypeOK, Client, Uploads, NoFile
<1>1. ASSUME NEW u \in Uploads, InitCreate(u) PROVE UploadInv'
    <2>1. /\ cp.pc \in {"ok", "failed"} /\ u = cp.u + 1 /\ part' = part \cup {u}
          /\ cp' = [u |-> u, i |-> 0, try |-> 1, pc |-> "insert"]
          /\ changed' \in {changed, changed \cup {u}}
          /\ UNCHANGED <<entry, content, target, puts, complete, sweep, broken>>
        BY <1>1 DEF InitCreate
    <2>2. 0 \in Chunk /\ 1 \in 1 .. MaxTries
        BY UploadAssumption DEF Chunk
    <2>3. UploadTypeOK'
        BY <1>0, <2>1, <2>2 DEF UploadTypeOK, Client
    <2>4. u > cp.u /\ complete[u] = "none" /\ target # u
        BY <1>0, <1>t, <2>1 DEF FreshUpload
    <2>5. FreshUpload'
        BY <1>0, <1>t, <2>1 DEF FreshUpload, Uploads
    <2>6. \A v \in Uploads : v # u /\ Announced(v) => Announced(v)'
        BY <2>1 DEF Announced
    <2>7. RenamesWhole'
        BY <1>0, <2>1, <2>4, <2>6 DEF RenamesWhole
    <2>8. TargetIsWhole'
        BY <1>0, <1>t, <2>1, <2>4, <2>6 DEF TargetIsWhole
    <2>9. PartsAreReclaimed'
        BY <1>0, <2>1 DEF PartsAreReclaimed
    <2> QED BY <2>3, <2>5, <2>7, <2>8, <2>9 DEF UploadInv
<1>2. CASE InitInsert
    <2>1. /\ cp.pc = "insert" /\ cp.u \in Uploads
          /\ UNCHANGED <<changed, part, content, target, puts, complete, sweep>>
        BY <1>0, <1>2 DEF InitInsert, files, FreshUpload
    <2>2. /\ cp' \in Client /\ cp'.u = cp.u
          /\ entry' \in {entry, entry \cup {cp.u}} /\ broken' \in {broken, broken \cup {cp.u}}
          /\ cp.u \in entry' \cup broken' /\ entry \subseteq entry' /\ broken \subseteq broken'
        BY <1>2, <1>t DEF InitInsert, Client
    <2>3. UploadTypeOK'
        BY <1>0, <2>1, <2>2 DEF UploadTypeOK
    <2>4. FreshUpload' /\ RenamesWhole' /\ TargetIsWhole'
        BY <1>0, <2>1, <2>2 DEF FreshUpload, RenamesWhole, TargetIsWhole, Announced
    <2>5. PartsAreReclaimed'
        BY <1>0, <2>1, <2>2 DEF PartsAreReclaimed
    <2> QED BY <2>3, <2>4, <2>5 DEF UploadInv
<1>3. CASE PutChunk \/ NoAnswer \/ NoVerdict
    <2>1. /\ puts' \subseteq Put /\ cp' \in Client /\ cp'.u = cp.u
          /\ cp.pc \notin {"insert", "failed"}
        <3>1. CASE PutChunk
            <4>1. /\ cp.u \in Uploads /\ cp.i \in Chunk /\ cp.try \in 1 .. MaxTries
                  /\ cp.pc = "put" /\ cp' = [cp EXCEPT !.pc = "answer"]
                  /\ puts' = puts \cup {[u |-> cp.u, i |-> cp.i, try |-> cp.try, pc |-> "look"]}
                BY <1>0, <1>t, <3>1 DEF PutChunk, FreshUpload, Client
            <4>2. [u |-> cp.u, i |-> cp.i, try |-> cp.try, pc |-> "look"] \in Put
                BY <4>1 DEF Put
            <4> QED BY <1>0, <1>t, <4>1, <4>2 DEF Client, UploadTypeOK
        <3>2. CASE NoAnswer
            BY <1>0, <1>t, <3>2, AnswersTyped DEF NoAnswer, UploadTypeOK
        <3>3. CASE NoVerdict
            BY <1>0, <1>t, <3>3 DEF NoVerdict, Client, UploadTypeOK
        <3> QED BY <1>3, <3>1, <3>2, <3>3
    <2>2. UNCHANGED <<changed, entry, part, content, target, complete, sweep, broken>>
        BY <1>3 DEF PutChunk, NoAnswer, NoVerdict, files
    <2> QED BY <1>0, <1>t, <2>1, <2>2, ChunkKeepsInv
<1>4. ASSUME NEW h \in puts,
             ChunkLook(h) \/ ChunkOpen(h) \/ ChunkWrite(h) \/ ChunkRecord(h) \/ ChunkDropped(h)
      PROVE  UploadInv'
    BY <1>4, ChunkStepKeepsInv
<1>5. CASE AskComplete
    <2>1. /\ cp.pc = "complete" /\ cp.u \in Uploads
          /\ UNCHANGED <<changed, part, content, target, puts, sweep, broken>>
        BY <1>0, <1>5 DEF AskComplete, files, FreshUpload
    <2>2. CASE /\ entry' = entry \ {cp.u} /\ complete' = [complete EXCEPT ![cp.u] = "hash"]
               /\ cp' = [cp EXCEPT !.pc = "finish"]
        <3>1. UploadTypeOK'
            BY <1>0, <2>1, <2>2 DEF UploadTypeOK, Client
        <3>2. cp'.u = cp.u
            BY <1>t, <2>2 DEF Client
        <3>3. FreshUpload' /\ RenamesWhole' /\ TargetIsWhole'
            BY <1>0, <1>t, <2>1, <2>2, <3>2 DEF FreshUpload, RenamesWhole, TargetIsWhole, Announced
        <3>4. PartsAreReclaimed'
            BY <1>0, <1>t, <2>1, <2>2 DEF PartsAreReclaimed
        <3> QED BY <3>1, <3>3, <3>4 DEF UploadInv
    <2>3. CASE cp' = [cp EXCEPT !.pc = "failed"] /\ UNCHANGED <<entry, complete>>
        <3>1. cp' \in Client /\ cp'.u = cp.u
            BY <1>t, <2>3 DEF Client
        <3> QED BY <1>0, <1>t, <2>1, <2>3, <3>1, ChunkKeepsInv DEF UploadTypeOK
    <2> QED BY <1>5, <2>2, <2>3 DEF AskComplete
<1>6. ASSUME NEW u \in Uploads, Hash(u) \/ Rename(u) \/ CompleteDropped(u) PROVE UploadInv'
    <2>1. /\ complete[u] # "none" /\ UNCHANGED <<changed, entry, content, puts, sweep>>
          /\ part' \in {part, part \ {u}} /\ broken \subseteq broken' /\ broken' \subseteq broken \cup {u}
        BY <1>6 DEF Hash, Rename, CompleteDropped, CompleteFails, CompleteEnds, files
    <2>2. /\ complete' = [complete EXCEPT ![u] = complete'[u]]
          /\ complete'[u] \in {"none", "hash", "rename"}
          /\ complete'[u] = "rename" => Announced(u)
        BY <1>0, <1>t, <1>6
           DEF Hash, Rename, CompleteDropped, CompleteFails, CompleteEnds, Verified, RenamesWhole
    <2>3. target' = target \/ (target' = u /\ Announced(u))
        BY <1>0, <1>6
           DEF Hash, Rename, CompleteDropped, CompleteFails, CompleteEnds, files, RenamesWhole
    <2>4. /\ cp' \in Client /\ cp'.u = cp.u /\ (cp' = cp \/ (cp.pc = "finish" /\ cp.u = u))
        <3>1. ASSUME NEW pc \in {"ok", "failed"}, CompleteEnds(u, pc)
              PROVE  cp' \in Client /\ cp'.u = cp.u /\ (cp' = cp \/ (cp.pc = "finish" /\ cp.u = u))
            BY <1>t, <3>1 DEF CompleteEnds, Client
        <3> QED BY <1>t, <1>6, <3>1 DEF Hash, Rename, CompleteDropped, CompleteFails
    <2>5. complete'[u] = "none" => u \notin part' \/ u \in broken'
        BY <1>t, <1>6
           DEF Hash, Rename, CompleteDropped, CompleteFails, CompleteEnds, Verified
    <2>6. UploadTypeOK'
        BY <1>0, <1>t, <2>1, <2>2, <2>3, <2>4 DEF UploadTypeOK
    <2>7. FreshUpload'
        BY <1>0, <1>t, <2>1, <2>2, <2>3, <2>4 DEF FreshUpload
    <2>8. RenamesWhole'
        BY <1>0, <1>t, <2>1, <2>2 DEF RenamesWhole, Announced
    <2>9. TargetIsWhole'
        BY <1>0, <2>1, <2>3 DEF TargetIsWhole, Announced
    <2>10. PartsAreReclaimed'
        <3> SUFFICES ASSUME NEW v \in part'
                     PROVE  \/ v \in entry \cup broken'
                            \/ complete'[v] # "none" \/ sweep[v] # "none"
                            \/ cp'.u = v /\ cp'.pc = "insert"
            BY <2>1 DEF PartsAreReclaimed
        <3>1. CASE v = u
            BY <2>5, <3>1
        <3>2. CASE v # u
            <4>1. v \in part /\ v \in Uploads
                BY <1>0, <2>1 DEF UploadTypeOK
            <4>2. complete'[v] = complete[v]
                BY <1>t, <2>2, <3>2, <4>1
            <4>3. cp.u = v /\ cp.pc = "insert" => cp' = cp
                BY <2>4
            <4> QED BY <1>0, <2>1, <4>1, <4>2, <4>3 DEF PartsAreReclaimed
        <3> QED BY <3>1, <3>2
    <2> QED BY <2>6, <2>7, <2>8, <2>9, <2>10 DEF UploadInv
<1>7. ASSUME NEW u \in Uploads, SweepCollect(u) \/ SweepRemove(u) \/ SweepDelete(u)
      PROVE  UploadInv'
    <2>1. /\ UNCHANGED <<changed, content, target, puts, complete, cp>>
          /\ part' \in {part, part \ {u}} /\ entry' \in {entry, entry \ {u}}
          /\ broken' \in {broken, broken \cup {u}}
        BY <1>7 DEF SweepCollect, SweepRemove, SweepDelete, files
    <2>2. UploadTypeOK'
        BY <1>0, <1>7, <2>1 DEF SweepCollect, SweepRemove, SweepDelete, UploadTypeOK
    <2>3. FreshUpload' /\ RenamesWhole' /\ TargetIsWhole'
        BY <1>0, <2>1 DEF FreshUpload, RenamesWhole, TargetIsWhole, Announced
    <2>4. PartsAreReclaimed'
        BY <1>0, <1>7, <2>1
           DEF SweepCollect, SweepRemove, SweepDelete, files, UploadTypeOK, PartsAreReclaimed
    <2> QED BY <2>2, <2>3, <2>4 DEF UploadInv
<1>8. CASE UNCHANGED uploadVars
    BY <1>0, <1>8, ChunkKeepsInv DEF uploadVars, files, UploadTypeOK
<1> QED
    BY <1>1, <1>2, <1>3, <1>4, <1>5, <1>6, <1>7, <1>8 DEF UploadNext

\* serve.rs upload_init, upload_chunk, upload_complete and prune, for any number of uploads,
\* chunks and handlers side by side: the remote path never names a file that is not, whole,
\* what was announced, and no part file is forgotten but by a handler that was cut off or met an
\* I/O error.
THEOREM UploadSound == UploadSpec => []UploadIsSound
<1>1. UploadInv => UploadIsSound
    BY DEF UploadInv, UploadIsSound
<1> QED BY InitUploadInv, UploadInvStep, <1>1, PTL DEF UploadSpec

\* Every reachable state of the uploads is within their types.
LEMMA UploadTyped == UploadSpec => []UploadTypeOK
<1>1. UploadInv => UploadTypeOK
    BY DEF UploadInv
<1> QED BY InitUploadInv, UploadInvStep, <1>1, PTL DEF UploadSpec
-----------------------------------------------------------------------------
(***************************************************************************)
(* A download that resumes. The argument: the local file is made of chunks *)
(* of versions that never get older, so if its first chunk is of the       *)
(* newest version all are.                                                 *)
(***************************************************************************)

\* The chunks of the local file: none is newer than the remote file, or older than the chunk
\* before it.
FetchInOrder ==
    \A i, j \in 1 .. Len(local) : i <= j => local[i] <= local[j] /\ local[j] <= version

\* What a cp has seen of the remote file, and where it is in the local one.
Resumes ==
    /\ fetch.of <= version /\ (fetch.pc = "idle" => fetch.of = 0)
    /\ fetch.of = version => fetch.size = size
    /\ fetch.pc = "fetch" => fetch.offset = Len(local) /\ fetch.offset <= fetch.size
    /\ fetch.pc = "done" /\ fetch.of = version => Len(local) = size

DownloadInv == DownloadTypeOK /\ FetchInOrder /\ Resumes
-----------------------------------------------------------------------------

\* A cp starts with nothing.
LEMMA InitDownloadInv == DownloadInit => DownloadInv
<1> SUFFICES ASSUME DownloadInit PROVE DownloadInv
    OBVIOUS
<1>1. 0 \in 0 .. MaxSize /\ 0 \in 0 .. MaxVersions /\ 1 \in 1 .. MaxVersions
      /\ 1 \in 0 .. MaxSize
    BY DownloadAssumption
<1> QED BY <1>1 DEF DownloadInit, DownloadInv, DownloadTypeOK, FetchInOrder, Resumes

\* A page of `cp`, a fault and a change of the remote file keep the invariant.
LEMMA DownloadInvStep == DownloadInv /\ [DownloadNext]_downloadVars => DownloadInv'
<1> SUFFICES ASSUME DownloadInv, [DownloadNext]_downloadVars PROVE DownloadInv'
    OBVIOUS
<1>0. /\ DownloadTypeOK /\ FetchInOrder /\ Resumes
      /\ version \in Nat /\ size \in Nat /\ MaxSize \in Nat /\ MaxVersions \in Nat
      /\ local \in Seq(0 .. MaxVersions) /\ Len(local) \in Nat /\ Len(local) <= MaxSize
      /\ \A i \in 1 .. Len(local) : local[i] \in 0 .. MaxVersions
    BY DownloadAssumption DEF DownloadInv, DownloadTypeOK
<1>f. /\ fetch.of \in 0 .. MaxVersions /\ fetch.size \in 0 .. MaxSize
      /\ fetch.offset \in 0 .. MaxSize
      /\ fetch.pc \in {"idle", "open", "fetch", "done", "failed"}
    BY <1>0 DEF DownloadTypeOK
<1>1. CASE Replace
    <2>1. version' = version + 1 /\ UNCHANGED <<local, fetch>> /\ size' \in 0 .. MaxSize
          /\ version' \in 1 .. MaxVersions
        BY <1>1, <1>0 DEF Replace
    <2>2. DownloadTypeOK'
        BY <2>1, <1>0 DEF DownloadTypeOK
    <2>3. FetchInOrder'
        BY <2>1, <1>0 DEF FetchInOrder
    <2>4. Resumes'
        BY <2>1, <1>0, <1>f DEF Resumes
    <2> QED BY <2>2, <2>3, <2>4 DEF DownloadInv
<1>2. CASE LocalLeftover
    <2>1. PICK n \in 1 .. MaxSize : local' = [i \in 1 .. n |-> 0]
        BY <1>2 DEF LocalLeftover
    <2>2. local' \in Seq(0 .. MaxVersions) /\ Len(local') = n
          /\ \A i \in 1 .. Len(local') : local'[i] = 0
        BY <2>1, <1>0
    <2>3. fetch.pc = "idle" /\ UNCHANGED <<version, size, fetch>>
        BY <1>2 DEF LocalLeftover
    <2>4. DownloadTypeOK'
        BY <2>1, <2>2, <2>3, <1>0 DEF DownloadTypeOK
    <2>5. FetchInOrder'
        BY <2>2, <2>3, <1>0 DEF FetchInOrder
    <2>6. Resumes'
        BY <2>3, <1>0, <1>f DEF Resumes
    <2> QED BY <2>4, <2>5, <2>6 DEF DownloadInv
<1>3. CASE Stat
    <2>1. /\ fetch' = [pc |-> "open", size |-> size, of |-> version, offset |-> 0]
          /\ UNCHANGED <<version, size, local>>
        BY <1>3 DEF Stat, FileStat
    <2> QED BY <2>1, <1>0 DEF DownloadInv, DownloadTypeOK, FetchInOrder, Resumes
<1>4. CASE Open
    <2> DEFINE from == Shorter(Len(local), fetch.size)
    <2>1. /\ from \in 0 .. MaxSize /\ from <= Len(local) /\ from <= fetch.size
        BY <1>0, <1>f DEF Shorter
    <2>2. /\ local' = SubSeq(local, 1, from) /\ UNCHANGED <<version, size>>
          /\ fetch' = [fetch EXCEPT !.pc = "fetch", !.offset = from]
        BY <1>4 DEF Open, Trimmed
    <2> HIDE DEF from
    <2>3. local' \in Seq(0 .. MaxVersions) /\ Len(local') = from
          /\ \A i \in 1 .. from : local'[i] = local[i]
        BY <2>1, <2>2, <1>0, SMTT(30)
    <2>4. DownloadTypeOK'
        <3>1. Len(local') <= MaxSize
            BY <2>1, <2>3, <1>0
        <3>2. fetch' \in [pc: {"idle", "open", "fetch", "done", "failed"},
                           size: 0 .. MaxSize, of: 0 .. MaxVersions, offset: 0 .. MaxSize]
            BY <2>1, <2>2, <1>0 DEF DownloadTypeOK
        <3> QED BY <2>2, <2>3, <3>1, <3>2, <1>0 DEF DownloadTypeOK
    <2>5. FetchInOrder'
        <3> SUFFICES ASSUME NEW i \in 1 .. Len(local'), NEW j \in 1 .. Len(local'), i <= j
                     PROVE  local'[i] <= local'[j] /\ local'[j] <= version
            BY <2>2 DEF FetchInOrder
        <3>1. i \in 1 .. from /\ j \in 1 .. from /\ i \in 1 .. Len(local) /\ j \in 1 .. Len(local)
            BY <2>1, <2>3, <1>0
        <3>2. local[i] <= local[j] /\ local[j] <= version
            BY <3>1, <1>0 DEF FetchInOrder
        <3> QED BY <2>3, <3>1, <3>2
    <2>6. Resumes'
        BY <2>1, <2>2, <2>3, <1>0, <1>f DEF Resumes, DownloadTypeOK
    <2> QED BY <2>4, <2>5, <2>6 DEF DownloadInv
<1>5. CASE FetchChunk
    <2>1. fetch.pc = "fetch" /\ UNCHANGED <<version, size>>
          /\ fetch.offset = Len(local) /\ fetch.offset <= fetch.size
        BY <1>5, <1>0 DEF FetchChunk, Resumes
    <2>2. CASE fetch.offset < fetch.size /\ fetch.offset < size
        <3>1. /\ local' = local \o <<version>>
              /\ fetch' = [fetch EXCEPT !.offset = fetch.offset + 1]
            BY <1>5, <2>2 DEF FetchChunk, ServedFrom
        <3>2. /\ local' \in Seq(0 .. MaxVersions) /\ Len(local') = Len(local) + 1
              /\ local'[Len(local) + 1] = version
              /\ \A i \in 1 .. Len(local) : local'[i] = local[i]
            BY <3>1, <1>0 DEF DownloadTypeOK
        <3>3. fetch.offset + 1 \in 0 .. MaxSize /\ Len(local') <= MaxSize
            BY <2>1, <2>2, <3>2, <1>f, <1>0
        <3>4. DownloadTypeOK'
            BY <2>1, <3>1, <3>2, <3>3, <1>0 DEF DownloadTypeOK
        <3>5. FetchInOrder'
            <4> SUFFICES ASSUME NEW i \in 1 .. Len(local'), NEW j \in 1 .. Len(local'), i <= j
                         PROVE  local'[i] <= local'[j] /\ local'[j] <= version
                BY <2>1 DEF FetchInOrder
            <4>0. local[i] <= version \/ i = Len(local) + 1
                <5>1. CASE i \in 1 .. Len(local)
                    BY <5>1, <1>0 DEF FetchInOrder
                <5> QED BY <5>1, <3>2, <1>0
            <4>1. CASE j = Len(local) + 1
                BY <4>0, <4>1, <3>2, <1>0, SMTT(30)
            <4>2. CASE j # Len(local) + 1
                <5>1. i \in 1 .. Len(local) /\ j \in 1 .. Len(local)
                    BY <4>2, <3>2, <1>0
                <5> QED BY <5>1, <3>2, <1>0 DEF FetchInOrder
            <4> QED BY <4>1, <4>2
        <3>6. Resumes'
            BY <2>1, <2>2, <3>1, <3>2, <1>0, <1>f DEF Resumes, DownloadTypeOK
        <3> QED BY <3>4, <3>5, <3>6 DEF DownloadInv
    <2>3. CASE ~ (fetch.offset < fetch.size /\ fetch.offset < size)
        <3>1. fetch' = [fetch EXCEPT !.pc = "done"] /\ UNCHANGED local
            BY <1>5, <2>3 DEF FetchChunk, ServedFrom
        <3>2. fetch.of = version => Len(local) = size
            BY <2>1, <2>3, <1>0, <1>f DEF Resumes
        <3> QED BY <2>1, <3>1, <3>2, <1>0 DEF DownloadInv, DownloadTypeOK, FetchInOrder, Resumes
    <2> QED BY <2>2, <2>3
<1>6. CASE DownloadFails
    BY <1>6, <1>0 DEF DownloadFails, DownloadInv, DownloadTypeOK, FetchInOrder, Resumes
<1>7. CASE UNCHANGED downloadVars
    BY <1>7, <1>0 DEF downloadVars, DownloadInv, DownloadTypeOK, FetchInOrder, Resumes
<1> QED BY <1>1, <1>2, <1>3, <1>4, <1>5, <1>6, <1>7 DEF DownloadNext

\* Every reachable state satisfies DownloadInv.
LEMMA DownloadInvariant == DownloadSpec => []DownloadInv
<1> QED BY InitDownloadInv, DownloadInvStep, PTL DEF DownloadSpec

\* Every reachable state of a download is within its types.
LEMMA DownloadTyped == DownloadSpec => []DownloadTypeOK
<1>1. DownloadInv => DownloadTypeOK
    BY DEF DownloadInv
<1> QED BY DownloadInvariant, <1>1, PTL

\* session.rs cp from a session: for a file of any size, any number of interrupted runs and
\* of replacements of the remote file, a cp that reports success has a file of the right
\* size, and if what it resumed from began as that file, the whole of it.
THEOREM DownloadWhole == DownloadSpec => []DownloadedIsWhole
<1>1. ASSUME DownloadInv PROVE DownloadedIsWhole
    <2> SUFFICES ASSUME fetch.pc = "done", version = fetch.of
                 PROVE  /\ Len(local) = size
                        /\ local # <<>> /\ local[1] = version
                                => local = [i \in 1 .. size |-> version]
        BY DEF DownloadedIsWhole
    <2>1. Len(local) = size /\ local \in Seq(0 .. MaxVersions) /\ version \in Nat
          /\ \A i \in 1 .. Len(local) : local[i] \in Nat
        BY <1>1, DownloadAssumption DEF DownloadInv, DownloadTypeOK, Resumes
    <2>2. ASSUME local # <<>>, local[1] = version PROVE local = [i \in 1 .. size |-> version]
        <3>1. ASSUME NEW i \in 1 .. Len(local) PROVE local[i] = version
            <4>1. 1 \in 1 .. Len(local) /\ 1 <= i
                BY <2>1
            <4>2. local[1] <= local[i] /\ local[i] <= version
                BY <4>1, <1>1 DEF DownloadInv, FetchInOrder
            <4> QED BY <2>1, <2>2, <4>2
        <3> QED BY <2>1, <3>1
    <2> QED BY <2>1, <2>2
<1> QED BY <1>1, DownloadInvariant, PTL
=============================================================================
