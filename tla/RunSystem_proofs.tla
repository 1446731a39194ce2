------------------------- MODULE RunSystem_proofs -------------------------
(***************************************************************************)
(* Proofs about the operator's side of a run: whatever the bounds on       *)
(* attaches, boots and failed requests, and for every tolerance of a       *)
(* missing group that is longer than the creation lag.                     *)
(***************************************************************************)
EXTENDS RunSystem, TLAPS

\* The group does not bill, unless some request failed for good.
TornDown == group # "live" \/ apiFaults > 0

\* Nothing of the run exists before its group is created.
NothingYet ==
    cli.pc = "create" => /\ group = "absent" /\ status = "none" /\ reaper = "none"
                         /\ cancel = "idle" /\ gc = "idle"
                         /\ ~cli.seen /\ cli.polls = 0

\* A 404 is believed only when it can mean nothing but a deletion: a group that was
\* seen is shown for good, and a live one is not missed more often than it may lag.
LagIsTolerated ==
    /\ cli.seen => hidden = 0
    /\ group = "live" => cli.polls + hidden <= Lag
    /\ cli.pc = "missing" /\ cli.seen => group # "live"
    /\ cli.pc = "grace" => group # "live"

\* Every process that is about to call the run over has seen to it that it is.
MarkersTornDown ==
    /\ cli.pc = "finish" => TornDown
    /\ reaper = "mark" => TornDown
    /\ cancel = "mark" => TornDown
    /\ gc \in {"purge", "mark"} => TornDown
    /\ status \in Terminal => TornDown

TornDownInv == NothingYet /\ LagIsTolerated /\ MarkersTornDown
-----------------------------------------------------------------------------
(***************************************************************************)
(* How the actions write cli, and what a DELETE achieves.                  *)
(***************************************************************************)
\* What the ways of writing cli leave behind.
CliNow(p, s, n) == cli' \in Cli /\ cli'.pc = p /\ (cli'.seen <=> s) /\ cli'.polls = n

\* Only pc changes.
LEMMA GoesOn ==
    ASSUME NEW c \in Cli, NEW p \in CliPc, cli' = [c EXCEPT !.pc = p]
    PROVE  CliNow(p, c.seen, c.polls)
BY DEF Cli, CliNow

\* Verdict and pc change.
LEMMA Updated ==
    ASSUME NEW c \in Cli, NEW p \in CliPc, NEW v \in Verdict,
           cli' = [c EXCEPT !.verdict = v, !.pc = p]
    PROVE  CliNow(p, c.seen, c.polls)
BY DEF Cli, CliNow

\* A fresh wait is well typed.
LEMMA NewCliType == NewCli \in Cli /\ NewCli.polls = 0 /\ NewCli.seen = FALSE
BY SystemAssumption DEF NewCli, Cli, CliPc, Verdict

\* A fresh wait, but for verdict and pc.
LEMMA StartsOver ==
    ASSUME NEW p \in CliPc, NEW v \in Verdict, cli' = [NewCli EXCEPT !.verdict = v, !.pc = p]
    PROVE  CliNow(p, FALSE, 0)
<1>1. NewCli \in Cli /\ NewCli.polls = 0 /\ NewCli.seen = FALSE
  BY NewCliType
<1>2. CliNow(p, NewCli.seen, NewCli.polls)
  BY <1>1, Updated
<1> QED
  BY <1>1, <1>2 DEF CliNow

\* The process ends and forgets what it had seen.
LEMMA CliEnded ==
    ASSUME cli \in Cli, NEW p \in CliPc, CliEnds(p)
    PROVE  CliNow(p, FALSE, 0)
<1>1. cli.verdict \in Verdict
  BY DEF Cli
<1> QED
  BY <1>1, StartsOver DEF CliEnds

\* An envelope that is there goes to collection.
LEMMA HasResult ==
    ASSUME TypeOK, Found
    PROVE  CliNow("collect", FALSE, 0) /\ apiFaults' \in Nat /\ apiFaults' >= apiFaults
<1>1. result \in Verdict /\ "collect" \in CliPc
  BY DEF TypeOK, ShardTypeOK, Found, Verdict, CliPc
<1>2. CliNow("collect", FALSE, 0)
  BY <1>1, StartsOver DEF Found
<1>3. apiFaults' \in Nat /\ apiFaults' >= apiFaults
  BY DEF Found, TypeOK
<1> QED
  BY <1>2, <1>3

\* Without an envelope, or with a failed GET, the wait keeps what it has seen.
LEMMA HasNoResult ==
    ASSUME TypeOK, NEW v \in Verdict, NEW p \in CliPc, NotFound(v, p)
    PROVE  /\ CliNow(p, cli.seen, cli.polls)
           /\ apiFaults' \in Nat /\ apiFaults' >= apiFaults
<1>1. cli \in Cli /\ cli' = [cli EXCEPT !.verdict = v, !.pc = p]
  BY DEF TypeOK, NotFound
<1>2. CliNow(p, cli.seen, cli.polls)
  BY <1>1, Updated
<1>3. apiFaults' \in Nat /\ apiFaults' >= apiFaults
  BY DEF TypeOK, NotFound, ApiFault
<1> QED
  BY <1>2, <1>3

\* A DELETE never revives the group, and leaves it billing only if it failed.
LEMMA Deletes ==
    ASSUME TypeOK, DeleteIgnoringErrors
    PROVE  /\ group' \in {group, "deleted"}
           /\ group' # "live" \/ apiFaults' > 0
           /\ apiFaults' \in Nat /\ apiFaults' >= apiFaults
BY DEF TypeOK, ShardTypeOK, DeleteIgnoringErrors, DeleteAcked, DeleteFails, GroupDeleted,
       ApiFault
-----------------------------------------------------------------------------
(***************************************************************************)
(* TypeOK and TornDownInv are inductive together.                          *)
(***************************************************************************)
\* The initial states satisfy both.
LEMMA SystemInit == Init => TypeOK /\ TornDownInv
<1> SUFFICES ASSUME Init
             PROVE  TypeOK /\ TornDownInv
  OBVIOUS
<1>1. cli \in Cli /\ cli.pc = "create" /\ ~cli.seen /\ cli.polls = 0
  BY SystemAssumption DEF Init, NewCli, Cli, CliPc, Verdict
<1>2. busy \in BOOLEAN /\ overdue \in BOOLEAN
  BY Zenon DEF Init, ShardInit
<1>3. 0 \in 0 .. MaxTries /\ 0 \in 0 .. Lag /\ 0 \in Nat
  BY ShardAssumption, SystemAssumption
<1>4. TypeOK
  BY <1>1, <1>2, <1>3, Zenon DEF Init, ShardInit, TypeOK, ShardTypeOK
<1>5. TornDownInv
  BY <1>1, SystemAssumption DEF Init, ShardInit,
     TornDownInv, NothingYet, LagIsTolerated, MarkersTornDown, TornDown, Terminal
<1> QED
  BY <1>4, <1>5

\* Every step keeps both.
LEMMA SystemNext ==
    TypeOK /\ TornDownInv /\ [Next]_systemVars => TypeOK' /\ TornDownInv'
<1> SUFFICES ASSUME TypeOK, TornDownInv, [Next]_systemVars
             PROVE  TypeOK' /\ TornDownInv'
  OBVIOUS
<1>0. TypeOK /\ TornDownInv
  OBVIOUS
<1>1. CASE CreateGroup
  <2>1. CliNow("save", cli.seen, cli.polls)
    BY <1>0, <1>1, GoesOn DEF CreateGroup, CliGo, CliPc, TypeOK
  <2>2. TypeOK'
    BY <1>0, <1>1, <2>1, SystemAssumption, ShardAssumption DEF CreateGroup, agentVars,
       CliNow, TypeOK, ShardTypeOK
  <2>3. TornDownInv'
    BY <1>0, <1>1, <2>1, SystemAssumption DEF CreateGroup, agentVars, CliNow, TypeOK,
       ShardTypeOK, TornDownInv, NothingYet, LagIsTolerated, MarkersTornDown, TornDown,
       Terminal
  <2> QED
    BY <2>2, <2>3
<1>2. CASE CreateFails
  <2>1. CliNow("exited", FALSE, 0)
    BY <1>0, <1>2, CliEnded DEF CreateFails, CliPc, TypeOK
  <2>2. apiFaults' \in Nat /\ apiFaults' > 0
    BY <1>0, <1>2 DEF CreateFails, ApiFault, TypeOK
  <2>3. TypeOK'
    BY <1>0, <1>2, <2>1, <2>2, SystemAssumption, ShardAssumption DEF CreateFails,
       agentVars, CliNow, TypeOK, ShardTypeOK
  <2>4. TornDownInv'
    BY <1>0, <1>2, <2>1, <2>2, SystemAssumption DEF CreateFails, agentVars, CliNow,
       TypeOK, ShardTypeOK, TornDownInv, NothingYet, LagIsTolerated, MarkersTornDown,
       TornDown, Terminal
  <2> QED
    BY <2>3, <2>4
<1>3. CASE SaveState
  <2>1. \E p \in {"fetch", "detached"} : CliNow(p, cli.seen, cli.polls)
    BY <1>0, <1>3, GoesOn DEF SaveState, CliGo, CliPc, TypeOK
  <2>2. TypeOK'
    BY <1>0, <1>3, <2>1, SystemAssumption, ShardAssumption DEF SaveState, shardVars,
       CliNow, TypeOK, ShardTypeOK
  <2>3. TornDownInv'
    BY <1>0, <1>3, <2>1, SystemAssumption DEF SaveState, shardVars, CliNow, TypeOK,
       ShardTypeOK, TornDownInv, NothingYet, LagIsTolerated, MarkersTornDown, TornDown,
       Terminal
  <2> QED
    BY <2>2, <2>3
<1>4. CASE Attach
  <2>1. CliNow("fetch", FALSE, 0)
    BY <1>0, <1>4, NewCliType, GoesOn DEF Attach, CliPc, CliNow
  <2>2. TypeOK'
    BY <1>0, <1>4, <2>1, SystemAssumption, ShardAssumption DEF Attach, shardVars,
       CliNow, TypeOK, ShardTypeOK
  <2>3. TornDownInv'
    BY <1>0, <1>4, <2>1, SystemAssumption DEF Attach, shardVars, CliNow, TypeOK,
       ShardTypeOK, TornDownInv, NothingYet, LagIsTolerated, MarkersTornDown, TornDown,
       Terminal
  <2> QED
    BY <2>2, <2>3
<1>5. CASE FetchEnvelope
  <2>1. /\ CliNow("collect", FALSE, 0) \/ CliNow("look", cli.seen, cli.polls)
        /\ apiFaults' \in Nat /\ apiFaults' >= apiFaults
    BY <1>0, <1>5, HasResult, HasNoResult DEF FetchEnvelope, Verdict, CliPc
  <2>2. TypeOK'
    BY <1>0, <1>5, <2>1, SystemAssumption, ShardAssumption DEF FetchEnvelope, shardVars,
       CliNow, TypeOK, ShardTypeOK
  <2>3. TornDownInv'
    BY <1>0, <1>5, <2>1, SystemAssumption DEF FetchEnvelope, shardVars, CliNow, TypeOK,
       ShardTypeOK, TornDownInv, NothingYet, LagIsTolerated, MarkersTornDown, TornDown,
       Terminal
  <2> QED
    BY <2>2, <2>3
<1>6. CASE Look
  <2>1. cli \in Cli /\ cli.polls \in 0 .. Tolerance
    BY <1>0 DEF TypeOK, Cli
  <2>2. CASE Present /\ cli' = [cli EXCEPT !.seen = TRUE,
                       !.pc = IF group = "failed" THEN "grace" ELSE "sleep"]
    <3>1. CliNow(IF group = "failed" THEN "grace" ELSE "sleep", TRUE, cli.polls)
      BY <2>1, <2>2 DEF Cli, CliPc, CliNow
    <3> QED
      BY <1>0, <1>6, <2>2, <3>1, SystemAssumption
         DEF Look, Present, ApiFault, shardVars, CliNow, TypeOK, ShardTypeOK,
             TornDownInv, NothingYet, LagIsTolerated, MarkersTornDown, TornDown, Terminal
  <2>3. CASE ~Present /\ cli' = [cli EXCEPT !.polls = IF @ < Tolerance THEN @ + 1 ELSE @,
                                            !.pc = "missing"]
    <3> DEFINE polls == IF cli.polls < Tolerance THEN cli.polls + 1 ELSE cli.polls
    <3>1. polls \in 0 .. Tolerance
      BY <2>1, SystemAssumption
    <3>2. cli' = [cli EXCEPT !.polls = polls, !.pc = "missing"]
      BY <2>3
    <3> HIDE DEF polls
    <3>3. CliNow("missing", cli.seen, polls)
      BY <2>1, <3>1, <3>2 DEF Cli, CliPc, CliNow
    <3> USE DEF polls
    <3>4. UNCHANGED <<shardVars, status, reaper, cancel, gc, overdue, attaches>>
      BY <1>6 DEF Look
    <3>5. /\ hidden' = IF hidden > 0 THEN hidden - 1 ELSE 0
          /\ UNCHANGED apiFaults
      BY <1>6, <2>1, <2>3 DEF Look, CliGo, Cli
    <3> QED
      BY <1>0, <2>1, <2>3, <3>3, <3>4, <3>5, SystemAssumption
         DEF Present, shardVars, CliNow, TypeOK, ShardTypeOK,
             TornDownInv, NothingYet, LagIsTolerated, MarkersTornDown, TornDown, Terminal
  <2>4. CASE ApiFault /\ CliGo("sleep") /\ UNCHANGED hidden
    <3>1. CliNow("sleep", cli.seen, cli.polls)
      BY <2>1, <2>4, GoesOn DEF CliGo, CliPc
    <3> QED
      BY <1>0, <1>6, <2>4, <3>1, SystemAssumption
         DEF Look, ApiFault, shardVars, CliNow, TypeOK, ShardTypeOK,
             TornDownInv, NothingYet, LagIsTolerated, MarkersTornDown, TornDown, Terminal
  <2> QED
    BY <1>6, <2>2, <2>3, <2>4 DEF Look
<1>7. CASE MissingGrace
  <2>1. /\ \/ CliNow("collect", FALSE, 0)
           \/ GroupIsGone /\ CliNow("finish", cli.seen, cli.polls)
           \/ CliNow("sleep", cli.seen, cli.polls)
        /\ apiFaults' \in Nat /\ apiFaults' >= apiFaults
    BY <1>0, <1>7, HasResult, HasNoResult DEF MissingGrace, Verdict, CliPc
  <2>2. cli.polls \in Nat
    BY <1>0, <1>7 DEF TypeOK, Cli
  <2>3. GroupIsGone => group # "live"
    BY <1>0, <1>7, <2>2, SystemAssumption DEF MissingGrace, GroupIsGone, TypeOK,
       TornDownInv, LagIsTolerated
  <2>4. TypeOK'
    BY <1>0, <1>7, <2>1, <2>2, <2>3, SystemAssumption, ShardAssumption DEF MissingGrace,
       shardVars, CliNow, TypeOK, ShardTypeOK
  <2>5. TornDownInv'
    BY <1>0, <1>7, <2>1, <2>2, <2>3, SystemAssumption DEF MissingGrace, shardVars,
       CliNow, TypeOK, ShardTypeOK, TornDownInv, NothingYet, LagIsTolerated,
       MarkersTornDown, TornDown, Terminal
  <2> QED
    BY <2>4, <2>5
<1>8. CASE FailedGrace
  <2>1. /\ CliNow("collect", FALSE, 0) \/ CliNow("finish", cli.seen, cli.polls)
        /\ apiFaults' \in Nat /\ apiFaults' >= apiFaults
    BY <1>0, <1>8, HasResult, HasNoResult DEF FailedGrace, Verdict, CliPc
  <2>2. cli' \in Cli /\ apiFaults' \in Nat
    BY <1>0, <1>8, <2>1 DEF CliNow
  <2>3. UNCHANGED <<shardVars, status, reaper, cancel, gc, hidden, overdue, attaches>>
    BY <1>8 DEF FailedGrace
  <2>4. TypeOK'
    BY <1>0, <2>2, <2>3 DEF TypeOK, ShardTypeOK, shardVars
  <2>5. TornDownInv'
    BY <1>0, <1>8, <2>1, <2>2, SystemAssumption DEF FailedGrace, shardVars, CliNow,
       TypeOK, ShardTypeOK, TornDownInv, NothingYet, LagIsTolerated, MarkersTornDown,
       TornDown, Terminal
  <2> QED
    BY <2>4, <2>5
<1>9. CASE Sleep
  <2>1. \E p \in {"abort", "fetch"} : CliNow(p, cli.seen, cli.polls)
    BY <1>0, <1>9, GoesOn, Updated DEF Sleep, CliGo, Verdict, CliPc, TypeOK
  <2>2. TypeOK'
    BY <1>0, <1>9, <2>1, SystemAssumption, ShardAssumption DEF Sleep, shardVars, CliNow,
       TypeOK, ShardTypeOK
  <2>3. TornDownInv'
    BY <1>0, <1>9, <2>1, SystemAssumption DEF Sleep, shardVars, CliNow, TypeOK,
       ShardTypeOK, TornDownInv, NothingYet, LagIsTolerated, MarkersTornDown, TornDown,
       Terminal
  <2> QED
    BY <2>2, <2>3
<1>10. CASE Collect
  <2>1. CliNow("finish", FALSE, 0)
    BY <1>0, <1>10, CliEnded DEF Collect, CliPc, TypeOK
  <2>2. group' \in {group, "deleted"} /\ (group' # "live" \/ apiFaults' > 0)
        /\ apiFaults' \in Nat /\ apiFaults' >= apiFaults
    BY <1>0, <1>10, Deletes DEF Collect
  <2>3. TypeOK'
    BY <1>0, <1>10, <2>1, <2>2, SystemAssumption, ShardAssumption DEF Collect,
       agentVars, CliNow, TypeOK, ShardTypeOK
  <2>4. TornDownInv'
    BY <1>0, <1>10, <2>1, <2>2, SystemAssumption DEF Collect, agentVars, CliNow, TypeOK,
       ShardTypeOK, TornDownInv, NothingYet, LagIsTolerated, MarkersTornDown, TornDown,
       Terminal
  <2> QED
    BY <2>3, <2>4
<1>11. CASE Abort
  <2>1. CliNow("finish", FALSE, 0)
    BY <1>0, <1>11, CliEnded DEF Abort, CliPc, TypeOK
  <2>2. group' \in {group, "deleted"} /\ (group' # "live" \/ apiFaults' > 0)
        /\ apiFaults' \in Nat /\ apiFaults' >= apiFaults
    BY <1>0, <1>11, Deletes DEF Abort
  <2>3. TypeOK'
    BY <1>0, <1>11, <2>1, <2>2, SystemAssumption, ShardAssumption DEF Abort, agentVars,
       CliNow, TypeOK, ShardTypeOK
  <2>4. TornDownInv'
    BY <1>0, <1>11, <2>1, <2>2, SystemAssumption DEF Abort, agentVars, CliNow, TypeOK,
       ShardTypeOK, TornDownInv, NothingYet, LagIsTolerated, MarkersTornDown, TornDown,
       Terminal
  <2> QED
    BY <2>3, <2>4
<1>12. CASE CleanupInterrupted
  <2>1. CliNow("exited", FALSE, 0)
    BY <1>0, <1>12, CliEnded DEF CleanupInterrupted, CliPc, TypeOK
  <2>2. group' \in {group, "deleted"} /\ (group' # "live" \/ apiFaults' > 0)
        /\ apiFaults' \in Nat /\ apiFaults' >= apiFaults
    BY <1>0, <1>12, Deletes DEF CleanupInterrupted
  <2>3. TypeOK'
    BY <1>0, <1>12, <2>1, <2>2, SystemAssumption, ShardAssumption DEF
       CleanupInterrupted, agentVars, CliNow, TypeOK, ShardTypeOK
  <2>4. TornDownInv'
    BY <1>0, <1>12, <2>1, <2>2, SystemAssumption DEF CleanupInterrupted, agentVars,
       CliNow, TypeOK, ShardTypeOK, TornDownInv, NothingYet, LagIsTolerated,
       MarkersTornDown, TornDown, Terminal
  <2> QED
    BY <2>3, <2>4
<1>13. CASE Finish
  <2>1. CliNow("exited", FALSE, 0)
    BY <1>0, <1>13, CliEnded DEF Finish, CliPc, TypeOK
  <2>2. TypeOK'
    BY <1>0, <1>13, <2>1, SystemAssumption, ShardAssumption DEF Finish, shardVars,
       Terminal, CliNow, TypeOK, ShardTypeOK
  <2>3. TornDownInv'
    BY <1>0, <1>13, <2>1, SystemAssumption DEF Finish, shardVars, CliNow, TypeOK,
       ShardTypeOK, TornDownInv, NothingYet, LagIsTolerated, MarkersTornDown, TornDown,
       Terminal
  <2> QED
    BY <2>2, <2>3
<1>14. CASE CtrlC
  <2>1. CliNow("interrupt", FALSE, 0)
    BY <1>0, <1>14, CliEnded DEF CtrlC, CliPc, TypeOK
  <2>2. TypeOK'
    BY <1>0, <1>14, <2>1, SystemAssumption, ShardAssumption DEF CtrlC, shardVars,
       CliNow, TypeOK, ShardTypeOK
  <2>3. TornDownInv'
    BY <1>0, <1>14, <2>1, SystemAssumption DEF CtrlC, shardVars, CliNow, TypeOK,
       ShardTypeOK, TornDownInv, NothingYet, LagIsTolerated, MarkersTornDown, TornDown,
       Terminal
  <2> QED
    BY <2>2, <2>3
<1>15. CASE CliCrash
  <2>1. CliNow("crashed", FALSE, 0)
    BY <1>0, <1>15, CliEnded DEF CliCrash, CliPc, TypeOK
  <2>2. TypeOK'
    BY <1>0, <1>15, <2>1, SystemAssumption, ShardAssumption DEF CliCrash, shardVars,
       CliNow, TypeOK, ShardTypeOK
  <2>3. TornDownInv'
    BY <1>0, <1>15, <2>1, SystemAssumption DEF CliCrash, shardVars, CliNow, TypeOK,
       ShardTypeOK, TornDownInv, NothingYet, LagIsTolerated, MarkersTornDown, TornDown,
       Terminal
  <2> QED
    BY <2>2, <2>3
<1>16. CASE ReaperPoll
  <2>1. TypeOK'
    BY <1>0, <1>16, SystemAssumption, ShardAssumption DEF ReaperPoll, shardVars, TypeOK,
       ShardTypeOK
  <2>2. TornDownInv'
    BY <1>0, <1>16, SystemAssumption DEF ReaperPoll, shardVars, TypeOK, ShardTypeOK,
       TornDownInv, NothingYet, LagIsTolerated, MarkersTornDown, TornDown, Terminal
  <2> QED
    BY <2>1, <2>2
<1>17. CASE ReaperClean
  <2>1. group' \in {group, "deleted"} /\ (group' # "live" \/ apiFaults' > 0)
        /\ apiFaults' \in Nat /\ apiFaults' >= apiFaults
    BY <1>0, <1>17, Deletes DEF ReaperClean
  <2>2. TypeOK'
    BY <1>0, <1>17, <2>1, SystemAssumption, ShardAssumption DEF ReaperClean, agentVars,
       TypeOK, ShardTypeOK
  <2>3. TornDownInv'
    BY <1>0, <1>17, <2>1, SystemAssumption DEF ReaperClean, agentVars, TypeOK,
       ShardTypeOK, TornDownInv, NothingYet, LagIsTolerated, MarkersTornDown, TornDown,
       Terminal
  <2> QED
    BY <2>2, <2>3
<1>18. CASE ReaperMark
  <2>1. TypeOK'
    BY <1>0, <1>18, SystemAssumption, ShardAssumption DEF ReaperMark, shardVars,
       Terminal, TypeOK, ShardTypeOK
  <2>2. TornDownInv'
    BY <1>0, <1>18, SystemAssumption DEF ReaperMark, shardVars, TypeOK, ShardTypeOK,
       TornDownInv, NothingYet, LagIsTolerated, MarkersTornDown, TornDown, Terminal
  <2> QED
    BY <2>1, <2>2
<1>19. CASE ReaperDies
  <2>1. TypeOK'
    BY <1>0, <1>19, SystemAssumption, ShardAssumption DEF ReaperDies, shardVars, TypeOK,
       ShardTypeOK
  <2>2. TornDownInv'
    BY <1>0, <1>19, SystemAssumption DEF ReaperDies, shardVars, TypeOK, ShardTypeOK,
       TornDownInv, NothingYet, LagIsTolerated, MarkersTornDown, TornDown, Terminal
  <2> QED
    BY <2>1, <2>2
<1>20. CASE CancelDelete
  <2>1. TypeOK'
    BY <1>0, <1>20, SystemAssumption, ShardAssumption DEF CancelDelete, DeleteAcked,
       DeleteFails, GroupDeleted, ApiFault, agentVars, TypeOK, ShardTypeOK
  <2>2. TornDownInv'
    BY <1>0, <1>20, SystemAssumption DEF CancelDelete, DeleteAcked, DeleteFails,
       GroupDeleted, ApiFault, agentVars, TypeOK, ShardTypeOK, TornDownInv, NothingYet,
       LagIsTolerated, MarkersTornDown, TornDown, Terminal
  <2> QED
    BY <2>1, <2>2
<1>21. CASE CancelMark
  <2>1. TypeOK'
    BY <1>0, <1>21, SystemAssumption, ShardAssumption DEF CancelMark, shardVars,
       Terminal, TypeOK, ShardTypeOK
  <2>2. TornDownInv'
    BY <1>0, <1>21, SystemAssumption DEF CancelMark, shardVars, TypeOK, ShardTypeOK,
       TornDownInv, NothingYet, LagIsTolerated, MarkersTornDown, TornDown, Terminal
  <2> QED
    BY <2>1, <2>2
<1>22. CASE GcScan
  <2>1. TypeOK'
    BY <1>0, <1>22, SystemAssumption, ShardAssumption DEF GcScan, shardVars,
       GcCandidate, TypeOK, ShardTypeOK
  <2>2. TornDownInv'
    BY <1>0, <1>22, SystemAssumption DEF GcScan, shardVars, GcCandidate, TypeOK,
       ShardTypeOK, TornDownInv, NothingYet, LagIsTolerated, MarkersTornDown, TornDown,
       Terminal
  <2> QED
    BY <2>1, <2>2
<1>23. CASE GcDelete
  <2>1. TypeOK'
    BY <1>0, <1>23, SystemAssumption, ShardAssumption DEF GcDelete, DeleteAcked,
       DeleteFails, GroupDeleted, ApiFault, agentVars, TypeOK, ShardTypeOK
  <2>2. TornDownInv'
    BY <1>0, <1>23, SystemAssumption DEF GcDelete, DeleteAcked, DeleteFails,
       GroupDeleted, ApiFault, agentVars, TypeOK, ShardTypeOK, TornDownInv, NothingYet,
       LagIsTolerated, MarkersTornDown, TornDown, Terminal
  <2> QED
    BY <2>1, <2>2
<1>24. CASE GcPurge
  <2>1. TypeOK'
    BY <1>0, <1>24, SystemAssumption, ShardAssumption DEF GcPurge, TypeOK, ShardTypeOK
  <2>2. TornDownInv'
    BY <1>0, <1>24, SystemAssumption DEF GcPurge, TypeOK, ShardTypeOK, TornDownInv,
       NothingYet, LagIsTolerated, MarkersTornDown, TornDown, Terminal
  <2> QED
    BY <2>1, <2>2
<1>25. CASE GcMark
  <2>1. TypeOK'
    BY <1>0, <1>25, SystemAssumption, ShardAssumption DEF GcMark, shardVars, Terminal,
       TypeOK, ShardTypeOK
  <2>2. TornDownInv'
    BY <1>0, <1>25, SystemAssumption DEF GcMark, shardVars, TypeOK, ShardTypeOK,
       TornDownInv, NothingYet, LagIsTolerated, MarkersTornDown, TornDown, Terminal
  <2> QED
    BY <2>1, <2>2
<1>26. CASE HardCapPasses
  <2>1. TypeOK'
    BY <1>0, <1>26, SystemAssumption, ShardAssumption DEF HardCapPasses, shardVars,
       operator, TypeOK, ShardTypeOK
  <2>2. TornDownInv'
    BY <1>0, <1>26, SystemAssumption DEF HardCapPasses, shardVars, operator, TypeOK,
       ShardTypeOK, TornDownInv, NothingYet, LagIsTolerated, MarkersTornDown, TornDown,
       Terminal
  <2> QED
    BY <2>1, <2>2
<1>27. CASE WaitPastHardCap
  <2>1. CliNow(cli.pc, cli.seen, cli.polls)
    BY <1>0, <1>27 DEF WaitPastHardCap, TypeOK, Cli, CliNow
  <2>2. TypeOK'
    BY <1>0, <1>27, <2>1, SystemAssumption, ShardAssumption DEF WaitPastHardCap,
       shardVars, CliNow, TypeOK, ShardTypeOK
  <2>3. TornDownInv'
    BY <1>0, <1>27, <2>1, SystemAssumption DEF WaitPastHardCap, shardVars, CliNow,
       TypeOK, ShardTypeOK, TornDownInv, NothingYet, LagIsTolerated, MarkersTornDown,
       TornDown, Terminal
  <2> QED
    BY <2>2, <2>3
<1>28. CASE Boot /\ UNCHANGED <<operator, hidden, overdue, attaches, apiFaults>>
  <2>1. TypeOK'
    BY <1>0, <1>28, SystemAssumption, ShardAssumption DEF Boot, operator, TypeOK,
       ShardTypeOK
  <2>2. TornDownInv'
    BY <1>0, <1>28, SystemAssumption DEF Boot, operator, TypeOK, ShardTypeOK,
       TornDownInv, NothingYet, LagIsTolerated, MarkersTornDown, TornDown, Terminal
  <2> QED
    BY <2>1, <2>2
<1>29. CASE Commit /\ UNCHANGED <<operator, hidden, overdue, attaches, apiFaults>>
  <2>1. TypeOK'
    BY <1>0, <1>29, SystemAssumption, ShardAssumption DEF Commit, operator, TypeOK,
       ShardTypeOK
  <2>2. TornDownInv'
    BY <1>0, <1>29, SystemAssumption DEF Commit, operator, TypeOK, ShardTypeOK,
       TornDownInv, NothingYet, LagIsTolerated, MarkersTornDown, TornDown, Terminal
  <2> QED
    BY <2>1, <2>2
<1>30. CASE Stop /\ UNCHANGED <<operator, hidden, overdue, attaches, apiFaults>>
  <2>1. TypeOK'
    BY <1>0, <1>30, SystemAssumption, ShardAssumption DEF Stop, operator, TypeOK,
       ShardTypeOK
  <2>2. TornDownInv'
    BY <1>0, <1>30, SystemAssumption DEF Stop, operator, TypeOK, ShardTypeOK,
       TornDownInv, NothingYet, LagIsTolerated, MarkersTornDown, TornDown, Terminal
  <2> QED
    BY <2>1, <2>2
<1>31. CASE GroupFails /\ UNCHANGED <<operator, hidden, overdue, attaches, apiFaults>>
  <2>1. TypeOK'
    BY <1>0, <1>31, SystemAssumption, ShardAssumption DEF GroupFails, operator, TypeOK,
       ShardTypeOK
  <2>2. TornDownInv'
    BY <1>0, <1>31, SystemAssumption DEF GroupFails, operator, TypeOK, ShardTypeOK,
       TornDownInv, NothingYet, LagIsTolerated, MarkersTornDown, TornDown, Terminal
  <2> QED
    BY <2>1, <2>2
<1>32. CASE UNCHANGED systemVars
  <2>1. TypeOK'
    BY <1>0, <1>32, SystemAssumption, ShardAssumption DEF systemVars, shardVars,
       operator, TypeOK, ShardTypeOK
  <2>2. TornDownInv'
    BY <1>0, <1>32, SystemAssumption DEF systemVars, shardVars, operator, TypeOK,
       ShardTypeOK, TornDownInv, NothingYet, LagIsTolerated, MarkersTornDown, TornDown,
       Terminal
  <2> QED
    BY <2>1, <2>2
<1> QED
  BY <1>1, <1>2, <1>3, <1>4, <1>5, <1>6, <1>7, <1>8, <1>9, <1>10, <1>11, <1>12, <1>13,
     <1>14, <1>15, <1>16, <1>17, <1>18, <1>19, <1>20, <1>21, <1>22, <1>23, <1>24, <1>25,
     <1>26, <1>27, <1>28, <1>29, <1>30, <1>31, <1>32
     DEF Next, CliStep, ReaperStep, ShardRuns, ShardStep

\* So both always hold.
LEMMA SystemInvariant == Spec => [](TypeOK /\ TornDownInv)
<1> QED
  BY SystemInit, SystemNext, PTL DEF Spec
-----------------------------------------------------------------------------
\* Every reachable state of a run and of the processes that watch it is well typed.
THEOREM SystemTypeCorrect == Spec => []TypeOK
<1> QED
  BY SystemInvariant, PTL

\* Once the local state calls a run over, its group no longer bills or some request
\* failed for good: no order of run, attach, reaper, cancel, gc, crashes and Ctrl-C, and
\* no creation lag the tolerance covers, leaves a group billing that nothing watches.
THEOREM OverIsTornDown == Spec => []OverMeansTornDown
<1>1. TornDownInv => OverMeansTornDown
  BY DEF TornDownInv, MarkersTornDown, TornDown, OverMeansTornDown
<1> QED
  BY <1>1, SystemInvariant, PTL
-----------------------------------------------------------------------------
(***************************************************************************)
(* The operator's side implements RunContract.                             *)
(***************************************************************************)
\* Whoever still waits, or has not begun to, was told nothing yet.
Silent == {"create", "save"} \cup Waiting
ToldNothing == cli.pc \in Silent => cli.verdict = "none"

\* Nothing the contract speaks of changes, and nobody begins to wait.
Quiet ==
    /\ result' = result
    /\ cli'.verdict = cli.verdict
    /\ cli'.pc \in Silent => cli.pc \in Silent

ContractStep == [Contract!Next \/ Misread]_(Contract!vars)

\* Going on to another place tells nobody anything.
LEMMA GoingOnTellsNothing ==
    ASSUME TypeOK, NEW p, CliGo(p)
    PROVE  cli'.verdict = cli.verdict /\ cli'.pc = p
BY DEF TypeOK, Cli, CliGo

\* Neither does the end of the process: what it told stands.
LEMMA EndingTellsNothing ==
    ASSUME NEW p, CliEnds(p)
    PROVE  cli'.verdict = cli.verdict /\ cli'.pc = p
BY DEF CliEnds, NewCli

\* A quiet step is a stutter of the contract.
LEMMA QuietStep ==
    ASSUME ToldNothing, Quiet
    PROVE  ToldNothing' /\ ContractStep
<1>1. Told' = Told
  BY DEF Quiet, Told
<1> QED
  BY <1>1 DEF ToldNothing, Quiet, ContractStep, Contract!vars

\* The wait finds an envelope: its status is reported.
LEMMA FoundStep ==
    ASSUME TypeOK, ToldNothing, cli.pc \in Waiting, Found, result' = result
    PROVE  ToldNothing' /\ ContractStep
<1>1. cli'.verdict = result /\ cli'.pc = "collect"
  BY DEF Found, NewCli
<1>2. Told = "none"
  BY DEF ToldNothing, Silent, Told
<1>3. result \in JobStatus
  BY DEF TypeOK, ShardTypeOK, Found
<1>4. Told' = result
  BY <1>1, <1>3 DEF Told, JobStatus
<1>5. Contract!Report
  BY <1>2, <1>4 DEF Found, Contract!Report, Contract!None
<1> QED
  BY <1>1, <1>5 DEF ToldNothing, Silent, Waiting, ContractStep, Contract!Next

\* An API fault is counted.
LEMMA FaultCounts ==
    ASSUME TypeOK, ApiFault
    PROVE  apiFaults' > apiFaults
BY SMT DEF TypeOK, ApiFault

\* The wait finds none and goes on, or ends on that: it is true, or a GET failed.
LEMMA NotFoundStep ==
    ASSUME TypeOK, ToldNothing, cli.pc \in Waiting, result' = result,
           NEW v, NEW p, NotFound(v, p),
           \/ v = "none"
           \/ v \in {"failed group", "vanished"} /\ p \notin Silent
    PROVE  ToldNothing' /\ ContractStep
<1>1. cli'.verdict = v /\ cli'.pc = p
  BY DEF TypeOK, Cli, NotFound
<1>2. cli.verdict = "none" /\ Told = "none"
  BY DEF ToldNothing, Silent, Told
<1>3. CASE v = "none"
  BY <1>1, <1>2, <1>3, QuietStep DEF Quiet, Silent
<1>4. CASE v \in {"failed group", "vanished"} /\ p \notin Silent
  <2>1. Told' = "no result"
    BY <1>1, <1>4 DEF Told
  <2>2. CASE result = "none"
    <3>1. Contract!ReportNone
      BY <1>2, <2>1, <2>2 DEF Contract!ReportNone, Contract!None, Contract!NoResult
    <3> QED
      BY <1>1, <1>4, <3>1 DEF ToldNothing, ContractStep, Contract!Next
  <2>3. CASE result # "none"
    <3>1. ApiFault
      BY <2>3 DEF NotFound
    <3>2. Misread
      BY <2>1, <3>1, FaultCounts DEF Misread
    <3> QED
      BY <1>1, <1>4, <3>2 DEF ToldNothing, ContractStep
  <2> QED
    BY <2>2, <2>3
<1> QED
  BY <1>3, <1>4

\* Every step of the system is one of the contract, a stutter, or the misread GET.
LEMMA ContractNext ==
    TypeOK /\ ToldNothing /\ [Next]_systemVars => ToldNothing' /\ ContractStep
<1> SUFFICES ASSUME TypeOK, ToldNothing, [Next]_systemVars
             PROVE  ToldNothing' /\ ContractStep
  OBVIOUS
<1>0. TypeOK /\ ToldNothing
  OBVIOUS
<1>1. CASE CreateGroup
  BY <1>0, <1>1, GoingOnTellsNothing, QuietStep DEF CreateGroup, agentVars, Quiet, Silent, Waiting
<1>2. CASE CreateFails
  BY <1>0, <1>2, EndingTellsNothing, QuietStep DEF CreateFails, agentVars, Quiet, Silent, Waiting
<1>3. CASE SaveState
  BY <1>0, <1>3, GoingOnTellsNothing, QuietStep DEF SaveState, shardVars, Quiet, Silent, Waiting
<1>4. CASE Attach
  <2>1. cli'.verdict = "none" /\ cli'.pc = "fetch" /\ result' = result
    BY <1>4 DEF Attach, NewCli, shardVars
  <2>2. Told' = "none"
    BY <2>1 DEF Told
  <2>3. Contract!WaitAgain
    BY <2>1, <2>2 DEF Contract!WaitAgain, Contract!None
  <2> QED
    BY <2>1, <2>3 DEF ToldNothing, ContractStep, Contract!Next
<1>5. CASE FetchEnvelope
  BY <1>0, <1>5, FoundStep, NotFoundStep DEF FetchEnvelope, Waiting, shardVars
<1>6. CASE Look
  <2>1. cli'.verdict = cli.verdict /\ result' = result
    BY <1>0, <1>6 DEF Look, CliGo, TypeOK, Cli, shardVars
  <2> QED
    BY <1>6, <2>1, QuietStep DEF Look, Quiet, Silent, Waiting
<1>7. CASE MissingGrace
  BY <1>0, <1>7, FoundStep, NotFoundStep DEF MissingGrace, Silent, Waiting, shardVars
<1>8. CASE FailedGrace
  BY <1>0, <1>8, FoundStep, NotFoundStep DEF FailedGrace, Silent, Waiting, shardVars
<1>9. CASE Sleep
  <2>1. result' = result
    BY <1>9 DEF Sleep, shardVars
  <2>2. CASE cli' = [cli EXCEPT !.verdict = "timed out", !.pc = "abort"]
    <3>1. cli'.verdict = "timed out" /\ cli'.pc = "abort"
      BY <1>0, <2>2 DEF TypeOK, Cli
    <3>2. Told = "none" /\ Told' = "abandoned"
      BY <1>0, <1>9, <3>1 DEF Sleep, ToldNothing, Silent, Waiting, Told
    <3>3. Contract!Abandon
      BY <2>1, <3>2 DEF Contract!Abandon, Contract!None, Contract!Abandoned
    <3> QED
      BY <3>1, <3>3 DEF ToldNothing, Silent, Waiting, ContractStep, Contract!Next
  <2>3. CASE CliGo("fetch")
    BY <1>0, <1>9, <2>1, <2>3, GoingOnTellsNothing, QuietStep
       DEF Sleep, Quiet, Silent, Waiting
  <2> QED
    BY <1>9, <2>2, <2>3 DEF Sleep
<1>10. CASE Collect
  BY <1>0, <1>10, EndingTellsNothing, QuietStep DEF Collect, agentVars, Quiet, Silent, Waiting
<1>11. CASE Abort
  BY <1>0, <1>11, EndingTellsNothing, QuietStep DEF Abort, agentVars, Quiet, Silent, Waiting
<1>12. CASE Finish
  BY <1>0, <1>12, EndingTellsNothing, QuietStep DEF Finish, shardVars, Quiet, Silent, Waiting
<1>13. CASE CtrlC
  BY <1>0, <1>13, EndingTellsNothing, QuietStep DEF CtrlC, shardVars, Quiet, Silent, Waiting
<1>14. CASE CleanupInterrupted
  BY <1>0, <1>14, EndingTellsNothing, QuietStep DEF CleanupInterrupted, agentVars, Quiet, Silent, Waiting
<1>15. CASE CliCrash
  BY <1>0, <1>15, EndingTellsNothing, QuietStep DEF CliCrash, shardVars, Quiet, Silent, Waiting
<1>16. CASE ReaperPoll
  BY <1>0, <1>16, QuietStep DEF ReaperPoll, shardVars, Quiet
<1>17. CASE ReaperMark
  BY <1>0, <1>17, QuietStep DEF ReaperMark, shardVars, Quiet
<1>18. CASE ReaperDies
  BY <1>0, <1>18, QuietStep DEF ReaperDies, shardVars, Quiet
<1>19. CASE CancelMark
  BY <1>0, <1>19, QuietStep DEF CancelMark, shardVars, Quiet
<1>20. CASE GcScan
  BY <1>0, <1>20, QuietStep DEF GcScan, shardVars, Quiet
<1>21. CASE GcMark
  BY <1>0, <1>21, QuietStep DEF GcMark, shardVars, Quiet
<1>22. CASE HardCapPasses
  BY <1>0, <1>22, QuietStep DEF HardCapPasses, shardVars, operator, Quiet
<1>23. CASE ReaperClean
  BY <1>0, <1>23, QuietStep DEF ReaperClean, agentVars, Quiet
<1>24. CASE CancelDelete
  BY <1>0, <1>24, QuietStep DEF CancelDelete, agentVars, Quiet
<1>25. CASE GcDelete
  BY <1>0, <1>25, QuietStep DEF GcDelete, agentVars, Quiet
<1>26. CASE GcPurge
  <2>1. CASE result' = result
    BY <1>0, <1>26, <2>1, QuietStep DEF GcPurge, Quiet
  <2>2. CASE result' = "none"
    <3>1. Told' = Told
      BY <1>26 DEF GcPurge, Told
    <3>2. Contract!Purge
      BY <2>2, <3>1 DEF Contract!Purge, Contract!None
    <3> QED
      BY <1>0, <1>26, <3>2 DEF GcPurge, ToldNothing, ContractStep, Contract!Next
  <2> QED
    BY <1>26, <2>1, <2>2 DEF GcPurge
<1>27. CASE WaitPastHardCap
  <2>1. cli'.verdict = cli.verdict /\ cli'.pc = cli.pc /\ result' = result
    BY <1>0, <1>27 DEF WaitPastHardCap, TypeOK, Cli, shardVars
  <2> QED
    BY <2>1, QuietStep DEF Quiet
<1>28. CASE Commit /\ UNCHANGED operator
  <2>1. Told' = Told
    BY <1>28 DEF operator, Told
  <2>2. Contract!Commit
    BY <1>28, <2>1, ShardAssumption DEF Commit, Contract!Commit
  <2> QED
    BY <1>0, <1>28, <2>2 DEF operator, ToldNothing, ContractStep, Contract!Next
<1>29. CASE (Boot \/ Stop \/ GroupFails) /\ UNCHANGED operator
  BY <1>0, <1>29, QuietStep DEF Boot, Stop, GroupFails, operator, Quiet
<1>30. CASE UNCHANGED systemVars
  BY <1>0, <1>30, QuietStep DEF systemVars, shardVars, operator, Quiet
<1> QED
  BY <1>1, <1>2, <1>3, <1>4, <1>5, <1>6, <1>7, <1>8, <1>9, <1>10, <1>11, <1>12,
     <1>13, <1>14, <1>15, <1>16, <1>17, <1>18, <1>19, <1>20, <1>21, <1>22, <1>23,
     <1>24, <1>25, <1>26, <1>27, <1>28, <1>29, <1>30
     DEF Next, CliStep, ReaperStep, ShardRuns, ShardStep

\* The initial states are initial states of the contract.
LEMMA ContractInit == Init => ToldNothing /\ Contract!Init
<1> SUFFICES ASSUME Init
             PROVE  ToldNothing /\ Contract!Init
  OBVIOUS
<1>1. cli.verdict = "none" /\ result = "none"
  BY DEF Init, NewCli, ShardInit
<1>2. Told = "none"
  BY <1>1 DEF Told
<1> QED
  BY <1>1, <1>2 DEF ToldNothing, Contract!Init, Contract!None

\* Whatever attach, reaper, cancel, gc and crashes do, an operator who waits is told the
\* result that stands, or that there is none when there is none or a GET of it failed,
\* and a final result is replaced by nothing but its purge: the system implements
\* RunContract.
THEOREM SystemImplementsContract == Spec => ImplementsContract
<1>1. Spec => [](TypeOK /\ ToldNothing)
  BY SystemTypeCorrect, ContractInit, ContractNext, PTL DEF Spec
<1>2. TypeOK /\ ToldNothing /\ [Next]_systemVars => [Contract!Next \/ Misread]_(Contract!vars)
  BY ContractNext DEF ContractStep
<1> QED
  BY <1>1, <1>2, ContractInit, PTL DEF Spec, ImplementsContract
=============================================================================
