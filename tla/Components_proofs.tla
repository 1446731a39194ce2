-------------------------- MODULE Components_proofs ---------------------------
(***************************************************************************)
(* The components side by side. The argument: a step of MCComponents is a  *)
(* step of the component whose run it is and leaves the variables of every *)
(* other alone, and each starts in one of its initial states, so a         *)
(* behaviour of MCComponents is one of every component; what is proved of  *)
(* a component by itself holds of it there.                                *)
(***************************************************************************)
EXTENDS MCComponents, Serve_proofs, Job_proofs, Operator_proofs, Client_proofs
-----------------------------------------------------------------------------
\* A behaviour of the composition is one of an exec session by itself.
LEMMA ExecAlone == Spec => ExecSpec
<1>1. Init => ExecInit
    BY DEF Init
<1>2. [Next]_<<component, componentVars>> => [ExecNext]_execVars
    BY DEF Next, componentVars
<1> QED BY <1>1, <1>2, PTL DEF Spec, ExecSpec

\* A behaviour of the composition is one of uploads by itself.
LEMMA UploadAlone == Spec => UploadSpec
<1>1. Init => UploadInit
    BY DEF Init
<1>2. [Next]_<<component, componentVars>> => [UploadNext]_uploadVars
    BY DEF Next, componentVars
<1> QED BY <1>1, <1>2, PTL DEF Spec, UploadSpec

\* A behaviour of the composition is one of a download by itself.
LEMMA DownloadAlone == Spec => DownloadSpec
<1>1. Init => DownloadInit
    BY DEF Init
<1>2. [Next]_<<component, componentVars>> => [DownloadNext]_downloadVars
    BY DEF Next, componentVars
<1> QED BY <1>1, <1>2, PTL DEF Spec, DownloadSpec

\* A behaviour of the composition is one of serve's timers by itself.
LEMMA TimersAlone == Spec => TimersSpec
<1>1. Init => TimersInit
    BY DEF Init
<1>2. [Next]_<<component, componentVars>> => [TimersNext]_timersVars
    BY DEF Next, componentVars
<1> QED BY <1>1, <1>2, PTL DEF Spec, TimersSpec

\* A behaviour of the composition is one of a session by itself.
LEMMA SessionAlone == Spec => SessionSpec
<1>1. Init => SessionInit
    BY DEF Init
<1>2. [Next]_<<component, componentVars>> => [SessionNext]_sessionVars
    BY DEF Next, componentVars
<1> QED BY <1>1, <1>2, PTL DEF Spec, SessionSpec

\* A behaviour of the composition is one of a service by itself.
LEMMA AutostopAlone == Spec => AutostopSpec
<1>1. Init => AutostopInit
    BY DEF Init
<1>2. [Next]_<<component, componentVars>> => [AutostopNext]_serveVars
    BY DEF Next, componentVars
<1> QED BY <1>1, <1>2, PTL DEF Spec, AutostopSpec

\* A behaviour of the composition is one of the job and its watcher by itself.
LEMMA JobAlone == Spec => JobSpec
<1>1. Init => JobInit
    BY DEF Init
<1>2. [Next]_<<component, componentVars>> => [JobNext]_jobVars
    BY DEF Next, componentVars
<1> QED BY <1>1, <1>2, PTL DEF Spec, JobSpec

\* A behaviour of the composition is one of image pushes by itself.
LEMMA ImageAlone == Spec => ImageSpec
<1>1. Init => ImageInit
    BY DEF Init
<1>2. [Next]_<<component, componentVars>> => [ImageNext]_pushVars
    BY DEF Next, componentVars
<1> QED BY <1>1, <1>2, PTL DEF Spec, ImageSpec

\* A behaviour of the composition is one of the tunnel and the redirected client by itself.
LEMMA CredentialsAlone == Spec => CredentialsSpec
<1>1. Init => CredentialsInit
    BY DEF Init
<1>2. [Next]_<<component, componentVars>> => [CredentialsNext]_credentialVars
    BY DEF Next, componentVars
<1> QED BY <1>1, <1>2, PTL DEF Spec, CredentialsSpec

\* A behaviour of the composition is one of the span tracker by itself.
LEMMA BillingAlone == Spec => BillingSpec
<1>1. Init => BillingInit
    BY DEF Init
<1>2. [Next]_<<component, componentVars>> => [BillingNext]_billingVars
    BY DEF Next, componentVars
<1> QED BY <1>1, <1>2, PTL DEF Spec, BillingSpec

\* A behaviour of the composition is one of the API client by itself.
LEMMA ApiAlone == Spec => ApiSpec
<1>1. Init => ApiInit
    BY DEF Init
<1>2. [Next]_<<component, componentVars>> => [ApiNext]_apiVars
    BY DEF Next, componentVars
<1> QED BY <1>1, <1>2, PTL DEF Spec, ApiSpec

\* A behaviour of the composition is one of the log windows by itself.
LEMMA LogAlone == Spec => LogSpec
<1>1. Init => LogInit
    BY DEF Init
<1>2. [Next]_<<component, componentVars>> => [LogNext]_logVars
    BY DEF Next, componentVars
<1> QED BY <1>1, <1>2, PTL DEF Spec, LogSpec

\* A behaviour of the composition is one of the output capture by itself.
LEMMA CaptureAlone == Spec => CaptureSpec
<1>1. Init => CaptureInit
    BY DEF Init
<1>2. [Next]_<<component, componentVars>> => [CaptureNext]_captureVars
    BY DEF Next, componentVars
<1> QED BY <1>1, <1>2, PTL DEF Spec, CaptureSpec

\* A behaviour of the composition is one of a launch by itself.
LEMMA LaunchAlone == Spec => LaunchSpec
<1>1. Init => LaunchInit
    BY DEF Init
<1>2. [Next]_<<component, componentVars>> => [LaunchNext]_launchVars
    BY DEF Next, componentVars
<1> QED BY <1>1, <1>2, PTL DEF Spec, LaunchSpec

\* A behaviour of the composition is one of a shared prefix by itself.
LEMMA PrefixAlone == Spec => PrefixSpec
<1>1. Init => PrefixInit
    BY DEF Init
<1>2. [Next]_<<component, componentVars>> => [PrefixNext]_prefixVars
    BY DEF Next, componentVars
<1> QED BY <1>1, <1>2, PTL DEF Spec, PrefixSpec

\* A behaviour of the composition is one of a log follower by itself.
LEMMA FollowAlone == Spec => FollowSpec
<1>1. Init => FollowInit
    BY DEF Init
<1>2. [Next]_<<component, componentVars>> => [FollowNext]_followVars
    BY DEF Next, componentVars
<1> QED BY <1>1, <1>2, PTL DEF Spec, FollowSpec

\* A behaviour of the composition is one of the outputs of a shard by itself.
LEMMA OutputsAlone == Spec => OutputsSpec
<1>1. Init => OutputsInit
    BY DEF Init
<1>2. [Next]_<<component, componentVars>> => [OutputsNext]_outputVars
    BY DEF Next, componentVars
<1> QED BY <1>1, <1>2, PTL DEF Spec, OutputsSpec

\* Every component: no step or start of the composition leaves its types, for any constants.
THEOREM ComponentsTyped == Spec => []ComponentTypeOK
<1>1. /\ ExecTypeOK /\ UploadTypeOK /\ DownloadTypeOK /\ TimersTypeOK /\ SessionTypeOK
      /\ AutostopTypeOK /\ JobTypeOK /\ ImageTypeOK /\ CredentialsTypeOK /\ BillingTypeOK
      /\ ApiTypeOK /\ LogTypeOK /\ CaptureTypeOK /\ LaunchTypeOK /\ PrefixTypeOK
      /\ FollowTypeOK /\ OutputsTypeOK
      => ComponentTypeOK
    BY DEF ComponentTypeOK
<1>2. Spec => [](ExecTypeOK /\ UploadTypeOK /\ DownloadTypeOK /\ TimersTypeOK)
    BY ExecAlone, ExecTyped, UploadAlone, UploadTyped, DownloadAlone, DownloadTyped,
       TimersAlone, TimersTyped, PTL
<1>3. Spec => [](JobTypeOK /\ CaptureTypeOK /\ OutputsTypeOK)
    BY JobAlone, JobTyped, CaptureAlone, CaptureTyped, OutputsAlone, OutputsTyped, PTL
<1>4. Spec => [](SessionTypeOK /\ AutostopTypeOK /\ LaunchTypeOK /\ BillingTypeOK /\ PrefixTypeOK)
    BY SessionAlone, SessionTyped, AutostopAlone, AutostopTyped, LaunchAlone, LaunchTyped,
       BillingAlone, BillingTyped, PrefixAlone, PrefixTyped, PTL
<1>5. Spec => [](ImageTypeOK /\ CredentialsTypeOK /\ ApiTypeOK /\ LogTypeOK /\ FollowTypeOK)
    BY ImageAlone, ImageTyped, CredentialsAlone, CredentialsTyped, ApiAlone, ApiTyped,
       LogAlone, LogTyped, FollowAlone, FollowTyped, PTL
<1> QED BY <1>1, <1>2, <1>3, <1>4, <1>5, PTL

\* What the agent promises in a session and about what it captures and ships, what the
\* operator's commands promise and what the clients promise: the invariants of the components
\* hold where they are checked together, for any constants.
AgentIsSound ==
    /\ ExitedIsComplete /\ FollowerSeesAll /\ ChildrenAreKept
    /\ UploadIsSound /\ DownloadedIsWhole
    /\ LastWriteIsSaved /\ LogOwnsUpToGaps /\ OutputsArriveWhole
OperatorIsSound ==
    /\ SessionIsKept /\ StopsOnlyIdle /\ LaunchAccountsForGroups
    /\ SpansAreSettled /\ PrefixIsRespected
ClientIsSound == PushIsSound /\ CredentialsStayHome /\ CreatesOnce /\ LogsAreHonest

\* None of the components breaks what another one promises, and the API client cools down.
THEOREM ComponentsSound == Spec => [](AgentIsSound /\ OperatorIsSound /\ ClientIsSound) /\ CoolsDown
<1>1. Spec => []AgentIsSound
    <2>1. /\ ExitedIsComplete /\ FollowerSeesAll /\ ChildrenAreKept
          /\ UploadIsSound /\ DownloadedIsWhole
          /\ LastWriteIsSaved /\ LogOwnsUpToGaps /\ OutputsArriveWhole
          => AgentIsSound
        BY DEF AgentIsSound
    <2>2. Spec => [](ExitedIsComplete /\ FollowerSeesAll /\ ChildrenAreKept)
        BY ExecAlone, ExitedMeansComplete, FollowerIsTold, TimersAlone, ServeKeepsChildren, PTL
    <2>3. Spec => [](UploadIsSound /\ DownloadedIsWhole)
        BY UploadAlone, UploadSound, DownloadAlone, DownloadWhole, PTL
    <2>4. Spec => [](LastWriteIsSaved /\ LogOwnsUpToGaps /\ OutputsArriveWhole)
        BY JobAlone, LastWriteSaved, CaptureAlone, LogOwnsUp, OutputsAlone, OutputsArrive, PTL
    <2> QED BY <2>1, <2>2, <2>3, <2>4, PTL
<1>2. Spec => []OperatorIsSound
    <2>1. /\ SessionIsKept /\ StopsOnlyIdle /\ LaunchAccountsForGroups
          /\ SpansAreSettled /\ PrefixIsRespected
          => OperatorIsSound
        BY DEF OperatorIsSound
    <2>2. Spec => [](SessionIsKept /\ StopsOnlyIdle /\ LaunchAccountsForGroups)
        BY SessionAlone, SessionKept, AutostopAlone, IdleAloneIsStopped, LaunchAlone,
           LaunchAccounts, PTL
    <2>3. Spec => [](SpansAreSettled /\ PrefixIsRespected)
        BY BillingAlone, SpansSettled, PrefixAlone, PrefixRespected, PTL
    <2> QED BY <2>1, <2>2, <2>3, PTL
<1>3. Spec => []ClientIsSound
    <2>1. PushIsSound /\ CredentialsStayHome /\ CreatesOnce /\ LogsAreHonest => ClientIsSound
        BY DEF ClientIsSound
    <2>2. Spec => [](PushIsSound /\ CredentialsStayHome /\ CreatesOnce)
        BY ImageAlone, PushSound, CredentialsAlone, CredentialsKept, ApiAlone, CreateIsOnce, PTL
    <2>3. Spec => []LogsAreHonest
        BY LogAlone, FollowAlone, LogsHonestAlways, PTL
    <2> QED BY <2>1, <2>2, <2>3, PTL
<1>4. Spec => CoolsDown
    BY ApiAlone, CoolDownHolds
<1> QED BY <1>1, <1>2, <1>3, <1>4, PTL
=============================================================================
