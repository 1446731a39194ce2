----------------------------- MODULE LogWindows -----------------------------
(***************************************************************************)
(* `saladfingers logs` (cli logs.rs): fetch_entries rebuilds a window of a *)
(* group's log from pages that hold at most PageSize entries, by halving   *)
(* every window whose page comes back full. Instants are counted in parts  *)
(* of a millisecond, since `now` is finer than what the API accepts;       *)
(* entries are stamped on whole milliseconds.                              *)
(***************************************************************************)
EXTENDS Integers, Sequences, FiniteSets, SequencesExt

CONSTANTS PageSize,     \* entries a page can hold
          MinWindow,    \* MIN_WINDOW_MS
          MaxQueries,   \* MAX_QUERIES
          Limit,        \* --limit
          SubMillis,        \* instants within a millisecond
          LastMilli,    \* bound: the log spans the milliseconds 0 .. LastMilli
          Bursts        \* bound: how many entries a millisecond may hold
ASSUME LogAssumption ==
    /\ {PageSize, MaxQueries, Limit, SubMillis} \subseteq Nat \ {0}
    /\ {MinWindow, LastMilli} \subseteq Nat /\ Bursts \subseteq Nat

VARIABLES
    log,        \* how many entries the group wrote in each millisecond, in their order
    logFetch,      \* the place in `logs`, the windows still to visit, the requests made
    out,        \* what has been collected
    truncated,  \* the fetch admits that it stopped short
    cutBy       \* why it did

logVars == <<log, logFetch, out, truncated, cutBy>>

Millis == 0 .. LastMilli
Milli(t) == t \div SubMillis                        \* serialize_millis
LogEntry == [time: Millis, nth: 1 .. 3]
LogEntries == {e \in LogEntry : e.nth <= log[e.time]}
Text(e) == IF e.nth = 3 THEN 1 ELSE e.nth       \* the third line repeats the first
Older(d, e) == d.time < e.time \/ (d.time = e.time /\ d.nth < e.nth)

LogTypeOK ==
    /\ log \in [Millis -> Bursts]
    /\ logFetch.pc \in {"query", "sort", "print", "failed"}
    /\ \A i \in DOMAIN logFetch.stack : logFetch.stack[i] \in (0 .. SubMillis * (LastMilli + 3)) \X Nat
    /\ logFetch.queries \in 0 .. MaxQueries
    /\ \A i \in DOMAIN out : out[i] \in LogEntries
    /\ truncated \in BOOLEAN
    /\ cutBy \subseteq {"limit", "queries", "narrow"}

\* The window spans the log; where it starts within a millisecond is chance.
LogInit ==
    /\ log \in [Millis -> Bursts]
    /\ \E offset \in 0 .. SubMillis - 1 :
         logFetch = [pc |-> "query", queries |-> 0,
                  stack |-> << <<offset, SubMillis * (LastMilli + 1) + offset>> >>]
    /\ out = <<>> /\ truncated = FALSE /\ cutBy = {}
-----------------------------------------------------------------------------
Held(w) == {e \in LogEntries : Milli(w[1]) <= e.time /\ e.time <= Milli(w[2])}
Full(w) == Cardinality(Held(w)) >= PageSize

\* A page that is not full holds the whole window; of a full one nothing says which
\* entries it holds.
Pages(w) ==
    IF Full(w) THEN {page \in SUBSET Held(w) : Cardinality(page) = PageSize} ELSE {Held(w)}

HalvesApart(w, mid) == << <<w[1], mid>>, <<mid + 2 * SubMillis, w[2]>> >>    \* mutant: a gap
\* The older half is pushed first, so that the newer one is visited next.
Halves(w, mid) == << <<w[1], mid>>, <<mid + SubMillis, w[2]>> >>

\* The members of S in order, where before[e] are the ones that come before e.
InOrder(S, before) ==
    [k \in 1 .. Cardinality(S) |-> CHOOSE e \in S : Cardinality(before[e]) = k - 1]
OldestFirst(S) == InOrder(S, [e \in S |-> {d \in S : Older(d, e)}])

StopEarly(why) ==
    /\ truncated' = TRUE /\ cutBy' = cutBy \cup {why}
    /\ logFetch' = [logFetch EXCEPT !.pc = "sort"]
    /\ UNCHANGED <<log, out>>

\* entry_key is the stamp and the text: of equal lines of one millisecond one is kept.
SameLine(d, e) == d.time = e.time /\ Text(d) = Text(e)
Kept(e) == \E i \in DOMAIN out : SameLine(out[i], e)
\* The page is read from its end, because the sort that follows is stable.
Fresh(page) ==
    {e \in page : ~Kept(e) /\ ~\E d \in page : SameLine(d, e) /\ Older(d, e)}

Query(rest) ==
    /\ logFetch.pc = "query" /\ logFetch.stack # <<>>
    /\ Len(out) < Limit /\ logFetch.queries < MaxQueries
    /\ logFetch' = [logFetch EXCEPT !.queries = @ + 1, !.stack = Front(@) \o rest]

Wide(w) == w[2] - w[1] > MinWindow * SubMillis

\* A full page of a window that can still be halved is only a reason to halve it.
Split ==
    /\ logFetch.stack # <<>>
    /\ LET w == Last(logFetch.stack)
       IN /\ Full(w) /\ Wide(w)
          /\ Query(Halves(w, w[1] + (w[2] - w[1]) \div 2))
    /\ UNCHANGED <<log, out, truncated, cutBy>>

\* Any other page is kept, and a full one is owned up to.
Collect ==
    /\ logFetch.stack # <<>>
    /\ LET w == Last(logFetch.stack)
       IN /\ ~(Full(w) /\ Wide(w))
          /\ Query(<<>>)
          /\ \E page \in Pages(w) : out' = out \o OldestFirst(Fresh(page))
          /\ truncated' = (truncated \/ Full(w))
          /\ cutBy' = IF Full(w) THEN cutBy \cup {"narrow"} ELSE cutBy
    /\ UNCHANGED log

OutOfBudget ==
    /\ logFetch.pc = "query" /\ logFetch.stack # <<>>
    /\ Len(out) >= Limit \/ logFetch.queries >= MaxQueries
    /\ StopEarly(IF Len(out) >= Limit THEN "limit" ELSE "queries")

\* A query that fails fails the whole fetch, and nothing is printed.
QueryFails ==
    /\ logFetch.pc = "query" /\ logFetch.stack # <<>>
    /\ Len(out) < Limit /\ logFetch.queries < MaxQueries
    /\ logFetch' = [logFetch EXCEPT !.pc = "failed"]
    /\ out' = <<>>
    /\ UNCHANGED <<log, truncated, cutBy>>

AllVisited ==
    /\ logFetch.pc = "query" /\ logFetch.stack = <<>>
    /\ logFetch' = [logFetch EXCEPT !.pc = "sort"]
    /\ UNCHANGED <<log, out, truncated, cutBy>>

\* sort_by_key is stable: entries of one millisecond keep the order they were pushed in.
StableSorted(s) ==
    LET before(i) == {j \in DOMAIN s : s[j].time < s[i].time
                                         \/ (s[j].time = s[i].time /\ j < i)}
        perm == InOrder(DOMAIN s, [i \in DOMAIN s |-> before(i)])
    IN [k \in DOMAIN s |-> s[perm[k]]]

SortAndTrim ==
    /\ logFetch.pc = "sort"
    /\ logFetch' = [logFetch EXCEPT !.pc = "print"]
    /\ LET sorted == StableSorted(out)
       IN IF Len(sorted) > Limit
          THEN /\ out' = SubSeq(sorted, Len(sorted) - Limit + 1, Len(sorted))
               /\ truncated' = TRUE /\ cutBy' = cutBy \cup {"limit"}
          ELSE out' = sorted /\ UNCHANGED <<truncated, cutBy>>
    /\ UNCHANGED log
-----------------------------------------------------------------------------
LogNext == Split \/ Collect \/ OutOfBudget \/ QueryFails \/ AllVisited \/ SortAndTrim

LogSpec == LogInit /\ [][LogNext]_logVars
-----------------------------------------------------------------------------
Printed == {out[i] : i \in DOMAIN out}
DistinctLines == {e \in LogEntries : ~\E d \in LogEntries : SameLine(d, e) /\ Older(d, e)}
Missing == {e \in DistinctLines : \A d \in Printed : ~SameLine(d, e)}

\* What is printed without a warning is every line of the window, whichever entries full pages held
\* ("Splitting until every window is short therefore reconstructs the whole stream no matter
\* which end the API truncates from").
NothingLostUnsaid == logFetch.pc = "print" /\ ~truncated => Missing = {}

\* What is printed is in the order in which it was written; and if only the limit cut it, it
\* is the newest part ("so a binding limit keeps the tail").
TailInOrder ==
    logFetch.pc = "print" =>
        /\ \A i, j \in DOMAIN out : i < j => Older(out[i], out[j])
        /\ cutBy = {"limit"} => \A e \in Missing, d \in Printed : Older(e, d)
\* logs.rs fetch: the window as it was, or a warning.
LogTailIsHonest == NothingLostUnsaid /\ TailInOrder
=============================================================================
