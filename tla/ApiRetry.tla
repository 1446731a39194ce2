------------------------------ MODULE ApiRetry ------------------------------
(***************************************************************************)
(* The SaladCloud client (saladfingers-api): requests of several tasks of  *)
(* one process through one SaladClient, its token bucket and its retries,  *)
(* against a control plane that may refuse, fail, or serve a request whose *)
(* answer never arrives. A tick is the time in which a token comes back.   *)
(***************************************************************************)
EXTENDS Naturals

CONSTANTS Callers,      \* tasks that share the client
          MaxAttempts,  \* RetryPolicy.max_attempts
          Burst,        \* the bucket's capacity
          MaxFlaws      \* bound: answers that are not the served one
ASSUME ApiAssumption == MaxAttempts \in Nat \ {0} /\ Burst \in Nat \ {0} /\ MaxFlaws \in Nat

VARIABLES
    tokens,     \* whole tokens in the bucket
    group,      \* does the container group exist
    call,       \* per task: its place in run(), the request and the attempt
    servedPosts,\* per task: POSTs of this create that made the group
    cooling,    \* a 429 has been seen and no token has come back since
    flaws

apiVars == <<tokens, group, call, servedPosts, cooling, flaws>>

\* What is asked of the plane: a create (CreateOnce), and three Idempotent kinds.
Asked == {"create", "read", "switch", "delete"}
Results == {"none", "ok", "adopted", "notFound", "error"}

ApiTypeOK ==
    /\ tokens \in 0 .. Burst
    /\ group \in BOOLEAN
    /\ call \in [Callers -> [pc: {"idle", "acquire", "flying", "backoff", "done"},
                             asks: Asked, attempt: 0 .. MaxAttempts - 1,
                             adopts: BOOLEAN, result: Results]]
    /\ servedPosts \in [Callers -> 0 .. MaxAttempts]
    /\ cooling \in BOOLEAN
    /\ flaws \in 0 .. MaxFlaws

Idle == [pc |-> "idle", asks |-> "read", attempt |-> 0, adopts |-> FALSE, result |-> "none"]

ApiInit ==
    /\ tokens = Burst /\ group \in BOOLEAN
    /\ call = [c \in Callers |-> Idle]
    /\ servedPosts = [c \in Callers |-> 0]
    /\ cooling = FALSE /\ flaws = 0

Flaw == flaws < MaxFlaws /\ flaws' = flaws + 1
CallGoes(c, pc) == call' = [call EXCEPT ![c].pc = pc]
-----------------------------------------------------------------------------
(***************************************************************************)
(* client.rs: the methods. Each begins a run() at attempt 0.               *)
(***************************************************************************)
Begin(c, asks) ==
    /\ call[c].pc = "idle"
    /\ call' = [call EXCEPT ![c] = [Idle EXCEPT !.pc = "acquire", !.asks = asks]]
    /\ servedPosts' = [servedPosts EXCEPT ![c] = 0]
    /\ UNCHANGED <<tokens, group, cooling, flaws>>

CreateContainerGroup(c) == Begin(c, "create")
DeleteContainerGroup(c) == Begin(c, "delete")
UpdateContainerGroup(c) == Begin(c, "switch")
StartContainerGroup(c) == Begin(c, "switch")
StopContainerGroup(c) == Begin(c, "switch")
SwitchInstance(c) == Begin(c, "switch")         \* reallocate, recreate, restart
GetContainerGroup(c) == Begin(c, "read")
ListContainerGroups(c) == Begin(c, "read")
ReadLogs(c) == Begin(c, "read")                 \* the group's system logs
ReadInstances(c) == Begin(c, "read")
ReadOrganization(c) == Begin(c, "read")         \* GPU classes, quotas, log entries

Return(c) ==
    /\ call[c].pc = "done"
    /\ call' = [call EXCEPT ![c] = Idle]
    /\ UNCHANGED <<tokens, group, servedPosts, cooling, flaws>>
-----------------------------------------------------------------------------
(***************************************************************************)
(* retry.rs: the bucket. Every attempt takes a token of its own.           *)
(***************************************************************************)
RefillLocked ==
    /\ tokens < Burst
    /\ tokens' = tokens + 1 /\ cooling' = FALSE
    /\ UNCHANGED <<group, call, servedPosts, flaws>>

Acquire(c) ==
    /\ call[c].pc = "acquire" /\ tokens >= 1
    /\ tokens' = tokens - 1
    /\ CallGoes(c, "flying")
    /\ UNCHANGED <<group, servedPosts, cooling, flaws>>

DrainNothing == UNCHANGED tokens                     \* mutant: only the caller waits
Drain == tokens' = 0
-----------------------------------------------------------------------------
(***************************************************************************)
(* client.rs: run(). What an answer, or none, makes of the attempt.        *)
(***************************************************************************)
IsLast(c) == call[c].attempt + 1 >= MaxAttempts
CreateOnce(c) == call[c].asks = "create" /\ ~call[c].adopts

RunReturns(c, result) == call' = [call EXCEPT ![c].pc = "done", ![c].result = result]
SleepBackoff(c) == CallGoes(c, "backoff")

\* What the plane does with a request it takes.
Serve(c) ==
    /\ group' = CASE CreateOnce(c) -> TRUE
                  [] call[c].asks = "delete" -> FALSE
                  [] OTHER -> group
    /\ servedPosts' = IF CreateOnce(c) /\ ~group
                      THEN [servedPosts EXCEPT ![c] = @ + 1] ELSE servedPosts

\* A success, a 404 (which delete takes for success), or the 409 after which create adopts.
ServedRequest(c) ==
    /\ call[c].pc = "flying"
    /\ Serve(c)
    /\ IF CreateOnce(c) /\ group
       THEN call' = [call EXCEPT ![c].pc = "acquire", ![c].attempt = 0, ![c].adopts = TRUE]
       ELSE RunReturns(c, CASE call[c].adopts -> IF group THEN "adopted" ELSE "notFound"
                            [] call[c].asks \in {"create", "delete"} \/ group -> "ok"
                            [] OTHER -> "notFound")
    /\ UNCHANGED <<tokens, cooling, flaws>>

\* No connection: the request never reached the plane. Both classes retry.
NoConnection(c) ==
    /\ call[c].pc = "flying" /\ Flaw
    /\ IF IsLast(c) THEN RunReturns(c, "error") ELSE SleepBackoff(c)
    /\ UNCHANGED <<tokens, group, servedPosts, cooling>>

AlwaysRetryable(c) == TRUE                           \* mutant: a create is retried like a read
RetryableAfterReached(c) == ~CreateOnce(c)

\* The request was sent and no answer came in time, or a 5xx did: it may have been served.
LostAnswer(c) ==
    /\ call[c].pc = "flying" /\ Flaw
    /\ Serve(c) \/ UNCHANGED <<group, servedPosts>>
    /\ IF RetryableAfterReached(c) /\ ~IsLast(c) THEN SleepBackoff(c) ELSE RunReturns(c, "error")
    /\ UNCHANGED <<tokens, cooling>>

\* The answer broke off within its body, or does not decode: never retried.
BrokenAnswer(c) ==
    /\ call[c].pc = "flying" /\ Flaw
    /\ Serve(c)
    /\ RunReturns(c, "error")
    /\ UNCHANGED <<tokens, cooling>>

TooManyRequests(c) ==
    /\ call[c].pc = "flying" /\ Flaw
    /\ Drain /\ cooling' = TRUE
    /\ IF IsLast(c) THEN RunReturns(c, "error") ELSE SleepBackoff(c)
    /\ UNCHANGED <<group, servedPosts>>

NextAttempt(c) ==
    /\ call[c].pc = "backoff"
    /\ call' = [call EXCEPT ![c].pc = "acquire", ![c].attempt = @ + 1]
    /\ UNCHANGED <<tokens, group, servedPosts, cooling, flaws>>
-----------------------------------------------------------------------------
ApiNext ==
    \/ RefillLocked
    \/ \E c \in Callers :
        \/ CreateContainerGroup(c) \/ DeleteContainerGroup(c)
        \/ UpdateContainerGroup(c) \/ StartContainerGroup(c) \/ StopContainerGroup(c)
        \/ SwitchInstance(c) \/ GetContainerGroup(c) \/ ListContainerGroups(c)
        \/ ReadLogs(c) \/ ReadInstances(c) \/ ReadOrganization(c) \/ Return(c)
        \/ Acquire(c) \/ ServedRequest(c) \/ NoConnection(c) \/ LostAnswer(c)
        \/ BrokenAnswer(c) \/ TooManyRequests(c) \/ NextAttempt(c)

ApiSpec == ApiInit /\ [][ApiNext]_apiVars
-----------------------------------------------------------------------------
\* One create makes at most one group, however its attempts end and whatever others delete
\* meanwhile ("Retry only when the request never reached the server, or on 429").
CreatesOnce == \A c \in Callers : servedPosts[c] <= 1

\* After a 429 no task of the process sends another request before a token has come back,
\* not only the one that was refused ("used after a 429 to force a cool-down").
CoolsDown ==
    [][cooling => \A c \in Callers : ~(call[c].pc = "acquire" /\ call'[c].pc = "flying")]_apiVars
=============================================================================
