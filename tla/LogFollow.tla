----------------------------- MODULE LogFollow -----------------------------
(***************************************************************************)
(* `logs --follow` on the groups of a run (logs.rs): every few seconds the *)
(* last LOOKBACK seconds of each group are read again, because an entry    *)
(* may arrive late under an earlier time, and what was printed before is   *)
(* told by a memory of SEEN_CAP entries, which all the groups share.       *)
(* LogWindows models the read itself. That a read stopped short is dropped *)
(* here: the tail says nothing of the lines that it does not show.         *)
(***************************************************************************)
EXTENDS LogWindows

CONSTANTS
    GroupCount,   \* the groups of the run
    Window,       \* LOOKBACK, in polls
    FollowLimit,  \* FOLLOW_LIMIT
    FollowPage,   \* PAGE_SIZE, scaled to FollowLimit
    SeenCap,      \* SEEN_CAP
    Batches,      \* bound: how many lines a group logs between two polls
    MaxPolls      \* bound: polls
ASSUME FollowAssumption ==
    /\ GroupCount \in Nat \ {0} /\ Window \in Nat \ {0} /\ FollowLimit \in Nat \ {0}
    /\ FollowPage \in Nat \ {0} /\ SeenCap \in Nat /\ Batches \subseteq Nat /\ MaxPolls \in Nat

LogGroups == 1 .. GroupCount

VARIABLES
    pollNo,     \* polls so far, which is the clock too
    lines,      \* for each group the entries that a poll may still read
    seenOrder,  \* the memory, in the order of printing; `seen` is its range
    recent,     \* what was printed for the first time in the last polls, and in which one
    again,      \* an entry has been printed a second time
    asked,      \* the groups whose fetch succeeded in the last poll
    cutShort,   \* those of them whose fetch stopped short, which nobody is told
    crowded     \* more than SEEN_CAP entries were printed for the first time within a window

followVars == <<pollNo, lines, seenOrder, recent, again, asked, cutShort, crowded>>

LogLines == [group: LogGroups, id: 1 .. MaxPolls, part: Nat, time: Int]

FollowTypeOK ==
    /\ pollNo \in 0 .. MaxPolls
    /\ \A g \in LogGroups : lines[g] \subseteq {e \in LogLines : e.group = g}
    /\ seenOrder \in Seq(LogLines) /\ Len(seenOrder) <= SeenCap
    /\ \A r \in recent : r.line \in LogLines /\ r.poll \in pollNo - Window + 1 .. pollNo
    /\ cutShort \subseteq asked /\ asked \subseteq LogGroups
    /\ again \in BOOLEAN /\ crowded \in BOOLEAN

FollowInit ==
    /\ pollNo = 0 /\ lines = [g \in LogGroups |-> {}] /\ seenOrder = <<>>
    /\ recent = {} /\ again = FALSE /\ asked = {} /\ cutShort = {} /\ crowded = FALSE
-----------------------------------------------------------------------------
\* What a group has logged by poll t: a batch of lines, stamped with the time or, by a
\* node whose clock is behind, with an earlier one than lines that were there before.
Batch(g, t, n, late) ==
    {[group |-> g, id |-> t, part |-> k, time |-> IF late THEN t - 2 ELSE t] : k \in 1 .. n}

\* The window of poll t drops the old entries.
StillRead(S, t) == {e \in S : e.time > t - Window}

\* The log service orders the entries of a group by time; a poll takes one group after the other.
Before(d, e) ==
    \/ d.group < e.group
    \/ /\ d.group = e.group
       /\ \/ d.time < e.time
          \/ d.time = e.time /\ (d.id < e.id \/ (d.id = e.id /\ d.part < e.part))

\* fetch_entries: only the newest FOLLOW_LIMIT of what it has collected.
NewestEntries(S) == {e \in S : Cardinality({d \in S : Before(e, d)}) < FollowLimit}

\* A window with a full page of lines is halved; its queries may run out, or a burst may not
\* come apart, and then any of the lines may be missed. A short page is all there is.
Missable(held, asks) ==
    UNION {held[g] : g \in {h \in asks : Cardinality(held[h]) >= FollowPage}}

\* One round over the groups that answer.
Returned(held, asks, missed) == UNION {NewestEntries(held[g] \ missed) : g \in asks}
StoppedShort(held, asks, missed) ==
    {g \in asks : held[g] \cap missed # {} \/ Cardinality(held[g]) > FollowLimit}

Unseen(S) == S \ ToSet(seenOrder)
InPrintOrder(S) == InOrder(S, [e \in S |-> {d \in S : Before(d, e)}])

ForgetOldest(seq) ==
    IF Len(seq) > SeenCap THEN SubSeq(seq, Len(seq) - SeenCap + 1, Len(seq)) ELSE seq

PrintedLines == {r.line : r \in recent}

\* The groups in `failed` answer with an error.
FollowPoll(count, late, failed) ==
    LET t    == pollNo + 1
        asks == LogGroups \ failed
        held == [g \in LogGroups |->
                    StillRead(lines[g] \cup Batch(g, t, count[g], g \in late), t)]
    IN \E missed \in SUBSET Missable(held, asks) :
          LET new == Unseen(Returned(held, asks, missed))
          IN /\ pollNo' = t
             /\ lines' = held
             /\ seenOrder' = ForgetOldest(seenOrder \o InPrintOrder(new))
             /\ recent' = {r \in recent : r.poll > t - Window}
                              \cup {[line |-> e, poll |-> t] : e \in new \ PrintedLines}
             /\ asked' = asks
             /\ cutShort' = StoppedShort(held, asks, missed)
             /\ again' = (again \/ new \cap PrintedLines # {})
             /\ crowded' = (crowded \/ Cardinality(recent') > SeenCap)

FollowNext ==
    /\ pollNo < MaxPolls
    /\ \E count \in [LogGroups -> Batches], failed \in SUBSET LogGroups :
          \E late \in SUBSET {g \in LogGroups : count[g] > 0} : FollowPoll(count, late, failed)
FollowSpec == FollowInit /\ [][FollowNext]_followVars
-----------------------------------------------------------------------------
\* A line is printed a second time only when the groups together had more new lines than
\* the memory holds while it was still in the window; the doc's "entries not seen before"
\* holds below that.
RepeatsOnlyWhenCrowded == again => crowded

\* "tolerates the per-node clock skew": whatever is in the window of a group that answered
\* has been printed, however late it came, unless the fetch stopped short; which needs a
\* page of lines in the window, and is not said.
LateLinesAreShown ==
    \A g \in asked :
        \/ lines[g] \subseteq PrintedLines
        \/ /\ g \in cutShort
           /\ Cardinality(lines[g]) >= FollowPage \/ Cardinality(lines[g]) > FollowLimit
\* logs.rs follow.
FollowIsFaithful == RepeatsOnlyWhenCrowded /\ LateLinesAreShown

\* What `logs` shows is what was written, or it says that it is not all (logs.rs
\* fetch_entries). `logs --follow` promises less: it repeats no line while its memory holds,
\* and shows all that is in its window while its fetches are whole.
LogsAreHonest == LogTailIsHonest /\ FollowIsFaithful
=============================================================================
