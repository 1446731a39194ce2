----------------------------- MODULE MCComponents -----------------------------
(***************************************************************************)
(* The components that share no state with each other, checked together:   *)
(* `component` says whose behaviour it is, and that one alone takes steps  *)
(* from its initial states. The others stay in theirs, so that the states  *)
(* of a run are the sum, and not the product, of those of the modules.     *)
(***************************************************************************)
EXTENDS ServeExec, FileUpload, FileDownload, ServeTimers, SessionLife, Autostop, JobExec,
        ImagePush, Credentials, Billing, ApiRetry, OutputCapture, RunLaunch,
        SharedPrefix, LogFollow, RunOutputs

CONSTANT Components     \* those that a run is about

VARIABLE component

componentVars ==
    <<execVars, uploadVars, downloadVars, timersVars, sessionVars, serveVars, jobVars,
      pushVars, credentialVars, billingVars, apiVars, logVars, captureVars,
      launchVars, prefixVars, followVars, outputVars>>

\* What a run may ask for and where it may be: a file, all files, a tree, or below a tree.
MCPatterns ==
    {[segments |-> <<"*">>, tree |-> t] : t \in BOOLEAN}
    \cup {[segments |-> <<"**", "a">>, tree |-> FALSE], [segments |-> <<>>, tree |-> TRUE],
          [segments |-> <<"*", "*">>, tree |-> FALSE]}

\* Components with many initial states begin in one of them when it is not their run.
EmptyTree == [p \in TreePaths |-> IF p = <<>> THEN "dir" ELSE "none"]
AnyDeclared ==
    [k \in 1 .. OutputCount |-> [name |-> CHOOSE n \in PlainNames : TRUE,
                                pattern |-> CHOOSE p \in Patterns : TRUE]]
AnyOrder ==
    [image |-> CHOOSE i \in Images : TRUE, credential |-> CHOOSE c \in Credential : TRUE,
     detach |-> FALSE]

Init ==
    /\ component \in Components
    /\ IF component = "outputs" THEN TRUE ELSE tree = EmptyTree /\ declared = AnyDeclared
    /\ IF component = "launch" THEN TRUE ELSE order = AnyOrder
    /\ IF component = "logs" THEN TRUE ELSE log = [t \in Millis |-> CHOOSE b \in Bursts : TRUE]
    /\ ExecInit
    /\ UploadInit
    /\ DownloadInit
    /\ TimersInit
    /\ SessionInit
    /\ AutostopInit
    /\ JobInit
    /\ ImageInit
    /\ CredentialsInit
    /\ BillingInit
    /\ ApiInit
    /\ LogInit
    /\ CaptureInit
    /\ LaunchInit
    /\ PrefixInit
    /\ FollowInit
    /\ OutputsInit
    /\ component = "api" \/ ~group
    /\ component = "logs" \/ logFetch.stack = << <<0, SubMillis * (LastMilli + 1)>> >>

At(c) == component = c /\ UNCHANGED component
Next ==
    \/ /\ At("exec") /\ ExecNext
       /\ UNCHANGED <<uploadVars, downloadVars, timersVars, sessionVars,
                   serveVars, jobVars, pushVars, credentialVars, billingVars,
                   apiVars, logVars, captureVars, launchVars, prefixVars,
                   followVars, outputVars>>
    \/ /\ At("upload") /\ UploadNext
       /\ UNCHANGED <<execVars, downloadVars, timersVars, sessionVars, serveVars,
                   jobVars, pushVars, credentialVars, billingVars, apiVars,
                   logVars, captureVars, launchVars, prefixVars, followVars,
                   outputVars>>
    \/ /\ At("download") /\ DownloadNext
       /\ UNCHANGED <<execVars, uploadVars, timersVars, sessionVars, serveVars,
                   jobVars, pushVars, credentialVars, billingVars, apiVars,
                   logVars, captureVars, launchVars, prefixVars, followVars,
                   outputVars>>
    \/ /\ At("timers") /\ TimersNext
       /\ UNCHANGED <<execVars, uploadVars, downloadVars, sessionVars, serveVars,
                   jobVars, pushVars, credentialVars, billingVars, apiVars,
                   logVars, captureVars, launchVars, prefixVars, followVars,
                   outputVars>>
    \/ /\ At("session") /\ SessionNext
       /\ UNCHANGED <<execVars, uploadVars, downloadVars, timersVars, serveVars,
                   jobVars, pushVars, credentialVars, billingVars, apiVars,
                   logVars, captureVars, launchVars, prefixVars, followVars,
                   outputVars>>
    \/ /\ At("service") /\ AutostopNext
       /\ UNCHANGED <<execVars, uploadVars, downloadVars, timersVars,
                   sessionVars, jobVars, pushVars, credentialVars,
                   billingVars, apiVars, logVars, captureVars, launchVars,
                   prefixVars, followVars, outputVars>>
    \/ /\ At("job") /\ JobNext
       /\ UNCHANGED <<execVars, uploadVars, downloadVars, timersVars,
                   sessionVars, serveVars, pushVars, credentialVars,
                   billingVars, apiVars, logVars, captureVars, launchVars,
                   prefixVars, followVars, outputVars>>
    \/ /\ At("image") /\ ImageNext
       /\ UNCHANGED <<execVars, uploadVars, downloadVars, timersVars,
                   sessionVars, serveVars, jobVars, credentialVars,
                   billingVars, apiVars, logVars, captureVars, launchVars,
                   prefixVars, followVars, outputVars>>
    \/ /\ At("credentials") /\ CredentialsNext
       /\ UNCHANGED <<execVars, uploadVars, downloadVars, timersVars,
                   sessionVars, serveVars, jobVars, pushVars, billingVars,
                   apiVars, logVars, captureVars, launchVars, prefixVars,
                   followVars, outputVars>>
    \/ /\ At("billing") /\ BillingNext
       /\ UNCHANGED <<execVars, uploadVars, downloadVars, timersVars,
                   sessionVars, serveVars, jobVars, pushVars, credentialVars,
                   apiVars, logVars, captureVars, launchVars, prefixVars,
                   followVars, outputVars>>
    \/ /\ At("api") /\ ApiNext
       /\ UNCHANGED <<execVars, uploadVars, downloadVars, timersVars,
                   sessionVars, serveVars, jobVars, pushVars, credentialVars,
                   billingVars, logVars, captureVars, launchVars, prefixVars,
                   followVars, outputVars>>
    \/ /\ At("logs") /\ LogNext
       /\ UNCHANGED <<execVars, uploadVars, downloadVars, timersVars,
                   sessionVars, serveVars, jobVars, pushVars, credentialVars,
                   billingVars, apiVars, captureVars, launchVars, prefixVars,
                   followVars, outputVars>>
    \/ /\ At("capture") /\ CaptureNext
       /\ UNCHANGED <<execVars, uploadVars, downloadVars, timersVars,
                   sessionVars, serveVars, jobVars, pushVars, credentialVars,
                   billingVars, apiVars, logVars, launchVars, prefixVars,
                   followVars, outputVars>>
    \/ /\ At("launch") /\ LaunchNext
       /\ UNCHANGED <<execVars, uploadVars, downloadVars, timersVars,
                   sessionVars, serveVars, jobVars, pushVars, credentialVars,
                   billingVars, apiVars, logVars, captureVars, prefixVars,
                   followVars, outputVars>>
    \/ /\ At("prefix") /\ PrefixNext
       /\ UNCHANGED <<execVars, uploadVars, downloadVars, timersVars,
                   sessionVars, serveVars, jobVars, pushVars, credentialVars,
                   billingVars, apiVars, logVars, captureVars, launchVars,
                   followVars, outputVars>>
    \/ /\ At("follow") /\ FollowNext
       /\ UNCHANGED <<execVars, uploadVars, downloadVars, timersVars,
                   sessionVars, serveVars, jobVars, pushVars, credentialVars,
                   billingVars, apiVars, logVars, captureVars, launchVars,
                   prefixVars, outputVars>>
    \/ /\ At("outputs") /\ OutputsNext
       /\ UNCHANGED <<execVars, uploadVars, downloadVars, timersVars,
                   sessionVars, serveVars, jobVars, pushVars, credentialVars,
                   billingVars, apiVars, logVars, captureVars, launchVars,
                   prefixVars, followVars>>

Spec == Init /\ [][Next]_<<component, componentVars>>

\* The fairness of each component, for its own behaviours.
Run(c, A) == component = c /\ A
Fairness ==
    /\ WF_execVars(Run("exec", Supervise)) /\ WF_execVars(Run("exec", Handle))
    /\ WF_timersVars(Run("timers", TimersTask)) /\ WF_timersVars(Run("timers", Handler))
    /\ WF_timersVars(Run("timers", ServerTask))
    /\ WF_sessionVars(Run("session", CreateStep)) /\ WF_sessionVars(Run("session", ReaperStep))
    /\ WF_sessionVars(Run("session", CommandStep)) /\ WF_sessionVars(Run("session", CapPasses))
    /\ WF_serveVars(Run("service", WatchStep)) /\ WF_serveVars(Run("service", ProxyStep))
    /\ WF_jobVars(Run("job", ExecStep))
    /\ WF_jobVars(Run("job", Pass \/ AfterUpload \/ Pause))
    /\ SF_jobVars(Run("job", HearStop))
    /\ WF_launchVars(Run("launch", LoopStep)) /\ WF_launchVars(Run("launch", AwaitStep))

FairSpec == Spec /\ Fairness
-----------------------------------------------------------------------------
\* Every component stays within its types (all of the modules above).
ComponentTypeOK ==
    /\ ExecTypeOK
    /\ UploadTypeOK
    /\ DownloadTypeOK
    /\ TimersTypeOK
    /\ SessionTypeOK
    /\ AutostopTypeOK
    /\ JobTypeOK
    /\ ImageTypeOK
    /\ CredentialsTypeOK
    /\ BillingTypeOK
    /\ ApiTypeOK
    /\ LogTypeOK
    /\ CaptureTypeOK
    /\ LaunchTypeOK
    /\ PrefixTypeOK
    /\ FollowTypeOK
    /\ OutputsTypeOK

\* Whoever watches a session, an idle service or a run ends what it watches, and the bill
\* with it (session.rs, serve.rs autostop, runner.rs await_and_collect).
WatchersEndTheBill == SessionEnds /\ ServiceEnds /\ WaitEnds
=============================================================================
