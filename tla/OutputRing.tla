----------------------------- MODULE OutputRing -----------------------------
(***************************************************************************)
(* The bounded ring that holds the output of one exec (agent ring.rs).     *)
(* Bytes are addressed by their offset in everything ever written; what a  *)
(* byte is does not matter, only which stream it came from.                *)
(***************************************************************************)
EXTENDS Naturals, Sequences

CONSTANT Capacity
ASSUME CapacityAssumption == Capacity \in Nat \ {0}

Streams == {"stdout", "stderr"}
Segment == [stream: Streams, offset: Nat, len: Nat \ {0}]

NewRing == [segments |-> <<>>, base |-> 0, total |-> 0, buffered |-> 0]

\* The bytes of segs[1..k]. Segments are adjacent (WellFormed), so it is a difference.
DroppedLen(segs, total, k) ==
    (IF k < Len(segs) THEN segs[k + 1].offset ELSE total) - segs[1].offset

\* Whole segments go while more than one is left and they are over capacity.
Evicted(segs, total, buffered) ==
    CHOOSE k \in 0 .. Len(segs) - 1 :
        /\ k = Len(segs) - 1 \/ buffered - DroppedLen(segs, total, k) <= Capacity
        /\ \A j \in 0 .. k - 1 : buffered - DroppedLen(segs, total, j) > Capacity

\* A single segment that is still too long loses its head.
TrimHead(segs, over) ==
    [segs EXCEPT ![1].offset = @ + over, ![1].len = @ - over]

PushUntrimmed(r, s, n) ==                       \* mutant: the last segment is never cut
    LET total == r.total + n
        all   == Append(r.segments, [stream |-> s, offset |-> r.total, len |-> n])
        k     == Evicted(all, total, r.buffered + n)
        kept  == SubSeq(all, k + 1, Len(all))
    IN [segments |-> kept, base |-> kept[1].offset, total |-> total,
        buffered |-> r.buffered + n - DroppedLen(all, total, k)]

PushStaleBase(r, s, n) ==                       \* mutant: base does not follow the cut
    LET total == r.total + n
        all   == Append(r.segments, [stream |-> s, offset |-> r.total, len |-> n])
        k     == Evicted(all, total, r.buffered + n)
        kept  == SubSeq(all, k + 1, Len(all))
        left  == r.buffered + n - DroppedLen(all, total, k)
        over  == IF left > Capacity /\ left - Capacity < kept[1].len
                 THEN left - Capacity ELSE 0
    IN [segments |-> TrimHead(kept, over), base |-> kept[1].offset, total |-> total,
        buffered |-> left - over]

Push(r, s, n) ==
    LET total == r.total + n
        all   == Append(r.segments, [stream |-> s, offset |-> r.total, len |-> n])
        k     == Evicted(all, total, r.buffered + n)
        kept  == SubSeq(all, k + 1, Len(all))
        left  == r.buffered + n - DroppedLen(all, total, k)
        over  == IF left > Capacity /\ left - Capacity < kept[1].len
                 THEN left - Capacity ELSE 0
        segs  == TrimHead(kept, over)
    IN [segments |-> segs, base |-> segs[1].offset, total |-> total, buffered |-> left - over]

\* What a segment holds at or after an offset.
Rest(g, start) ==
    IF g.offset + g.len <= start THEN 0
    ELSE IF g.offset < start THEN g.offset + g.len - start ELSE g.len

SumTo(f, n) ==
    LET sum[i \in 0 .. n] == IF i = 0 THEN 0 ELSE sum[i - 1] + f[i]
    IN sum[n]

\* The bytes of one stream at or after an offset, over all segments.
BytesFrom(segs, s, start) ==
    SumTo([i \in 1 .. Len(segs) |-> IF segs[i].stream = s THEN Rest(segs[i], start) ELSE 0],
          Len(segs))

\* The page for a cursor: the bytes of its chunks, per stream.
ReadFrom(r, cursor) ==
    LET start == IF cursor > r.base THEN cursor ELSE r.base
    IN [bytes |-> [s \in Streams |-> BytesFrom(r.segments, s, start)],
        next |-> r.total, truncated |-> cursor < r.base]
-----------------------------------------------------------------------------
\* Segments are adjacent and end where the next byte will go; the counters agree with
\* them and the ring keeps within its capacity.
SegmentEnd(r, i) == IF i < Len(r.segments) THEN r.segments[i + 1].offset ELSE r.total

WellFormed(r) ==
    /\ r.segments \in Seq(Segment)
    /\ r.base \in Nat /\ r.total \in Nat /\ r.buffered \in 0 .. Capacity
    /\ r.base + r.buffered = r.total
    /\ \A i \in 1 .. Len(r.segments) :
          r.segments[i].offset + r.segments[i].len = SegmentEnd(r, i)
    /\ r.base = IF r.segments = <<>> THEN r.total ELSE r.segments[1].offset
=============================================================================
