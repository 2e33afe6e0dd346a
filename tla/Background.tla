----------------------------- MODULE Background -----------------------------
(***************************************************************************)
(* What stands around the pipeline, together: the rate limiter as the      *)
(* worker and as the API use it, the circuit breaker, the two clocks of a  *)
(* retry, the reconciler's backlog, and the three processes from start to  *)
(* exit.  They share no state, so that in a behaviour one of them moves,   *)
(* the one in focus, and the others stay in an initial state.  Instances   *)
(* of one module have their variables in common.  The processes are        *)
(* instantiated with what is proved of one.                                *)
(***************************************************************************)
EXTENDS Integers

CONSTANTS
    Limit, Window, Second, MaxCalls, MaxLimiterFaults,            \* RateLimiter
    Workers, Channels, Registered, Answers, MaxFailures, Interval, OpenTimeout,
                                                                  \* CircuitBreaker
    BackoffBase, RateLimitBackoff, MaxRetryJitter, OverdueThreshold, MaxAttempts,
    MaxRetry, MaxWait,                                            \* RetryTiming
    Rows, BatchSize, MaxFaults,                                   \* Sweeps
    Items                                                         \* Process

VARIABLES
    focus,
    count, ttl, admitted, unmetered, wait, calls, limiterFaults,  \* RateLimiter
    state, left, requests, failures, call, probe, seen, healthy,
                                                                  \* CircuitBreaker
    rowStatus, attempts, retried, next, due, archived,            \* RetryTiming
    status, task, pass, faults,                                   \* Sweeps
    env, stage, held, item, signalled, server, waiter, expired, code
                                                                  \* Process

Outbound == INSTANCE RateLimiter WITH
    FailOpen <- FALSE, MaxFaults <- MaxLimiterFaults, faults <- limiterFaults

Inbound == INSTANCE RateLimiter WITH
    FailOpen <- TRUE, MaxFaults <- MaxLimiterFaults, faults <- limiterFaults

Breaker == INSTANCE CircuitBreaker

Retry == INSTANCE RetryTiming WITH status <- rowStatus

Backlog == INSTANCE Sweeps

Api == INSTANCE ProcessProofs WITH Binary <- "api"
Worker == INSTANCE ProcessProofs WITH Binary <- "worker"
Reconciler == INSTANCE ProcessProofs WITH Binary <- "reconciler"

ASSUME BackgroundAssumption ==
    /\ Outbound!RateLimiterAssumption /\ Inbound!RateLimiterAssumption
    /\ Breaker!BreakerAssumption /\ Retry!RetryTimingAssumption
    /\ Backlog!SweepsAssumption
    /\ Api!BinaryAssumption /\ Worker!BinaryAssumption /\ Reconciler!BinaryAssumption

\* Arithmetic of the backoff schedule, as far as its exponents go.
ASSUME PowersOfTwo ==
    \A n \in 0 .. (MaxAttempts + MaxRetry) :
        /\ 2^n \in Nat /\ 2^(n + 1) = 2 * 2^n
        /\ \A m \in 0 .. n : 2^m <= 2^n

limiterVars == <<count, ttl, admitted, unmetered, wait, calls, limiterFaults>>
breakerVars == <<state, left, requests, failures, call, probe, seen, healthy>>
retryVars == <<rowStatus, attempts, retried, next, due, archived>>
backlogVars == <<status, task, pass, faults>>
processVars == <<env, stage, held, item, signalled, server, waiter, expired, code>>
vars == <<focus, limiterVars, breakerVars, retryVars, backlogVars, processVars>>

Limiters == {"outbound", "inbound"}
Processes == {"api", "worker", "reconciler"}

-----------------------------------------------------------------------------

\* A component with several initial states has one of them out of focus.
Init ==
    /\ focus \in Limiters \cup Processes \cup {"breaker", "retry", "backlog"}
    /\ Outbound!Init /\ Breaker!Init /\ Retry!Init
    /\ Backlog!Init
    /\ focus # "backlog" => \A r \in Rows : status[r] = "settled" /\ task[r] = "none"
    /\ Api!Init
    /\ focus \notin Processes => \A k \in Api!Knobs : env[k] = "valid"

OthersStay(f) ==
    /\ focus = f
    /\ UNCHANGED focus
    /\ f \notin Limiters => UNCHANGED limiterVars
    /\ f # "breaker" => UNCHANGED breakerVars
    /\ f # "retry" => UNCHANGED retryVars
    /\ f # "backlog" => UNCHANGED backlogVars
    /\ f \notin Processes => UNCHANGED processVars

Next ==
    \/ OthersStay("outbound") /\ Outbound!Next
    \/ OthersStay("inbound") /\ Inbound!Next
    \/ OthersStay("breaker") /\ Breaker!Next
    \/ OthersStay("retry") /\ Retry!Next
    \/ OthersStay("backlog") /\ Backlog!Next
    \/ OthersStay("api") /\ Api!Next
    \/ OthersStay("worker") /\ Worker!Next
    \/ OthersStay("reconciler") /\ Reconciler!Next

\* Each component's fairness, while it is in focus.
Spec ==
    /\ Init /\ [][Next]_vars
    /\ WF_vars(OthersStay("outbound") /\ Outbound!Tick)
    /\ WF_vars(OthersStay("inbound") /\ Inbound!Tick)
    /\ WF_vars(OthersStay("breaker") /\ Breaker!Tick)
    /\ \A w \in Workers : /\ WF_vars(OthersStay("breaker") /\ Breaker!Begin(w))
                                     /\ WF_vars(OthersStay("breaker") /\ Breaker!End(w))
    /\ WF_vars(OthersStay("backlog") /\ Backlog!Pass)
    /\ \A r \in Rows : WF_vars(OthersStay("backlog") /\ Backlog!Dequeue(r))
    /\ WF_vars(OthersStay("api") /\ Api!Main)
    /\ WF_vars(OthersStay("worker") /\ Worker!Main)
    /\ WF_vars(OthersStay("reconciler") /\ Reconciler!Main)
    /\ WF_vars(OthersStay("worker") /\ Worker!RunShutsDown)
    /\ WF_vars(OthersStay("api") /\ (Api!Drained \/ Api!DrainExpires))
    /\ WF_vars(OthersStay("worker") /\ (Worker!Drained \/ Worker!DrainExpires))
    /\ \A w \in Items :
          /\ WF_vars(OthersStay("api") /\ Api!Answered(w))
          /\ WF_vars(OthersStay("worker") /\ Worker!Answered(w))
          /\ WF_vars(OthersStay("reconciler") /\ Reconciler!Work(w))

-----------------------------------------------------------------------------

\* Every component's state is well formed.
TypeOK ==
    /\ Outbound!TypeOK /\ Breaker!TypeOK /\ Retry!TypeOK /\ Backlog!TypeOK
    /\ CASE focus = "worker" -> Worker!TypeOK
         [] focus = "reconciler" -> Reconciler!TypeOK
         [] OTHER -> Api!TypeOK

\* A stretch as long as the window admits at most twice the limit.
TwiceTheLimit == IF focus = "inbound" THEN Inbound!TwiceTheLimit ELSE Outbound!TwiceTheLimit

\* Refused callers do not keep the window alive: the bucket admits again.
WindowEnds == Outbound!WindowEnds

\* A client that waits as long as Retry-After says finds a new window.
WaitOutlastsWindow == focus = "inbound" => Inbound!WaitOutlastsWindow

\* The breaker opens on MaxFailures transient results of calls that the current
\* window began, and on nothing else.
OpensOnTransientBurst == Breaker!OpensOnTransientBurst

\* Only the result of its probe ends the half-open state.
ProbeDecides == Breaker!ProbeDecides

\* Once the providers have recovered the breaker closes, and stays closed.
Recovers == Breaker!Recovers

\* The overdue sweep does not see a row whose task has a retry to spare; the
\* last retry it may see (run overdue).
SweepWaitsForTask == Retry!SweepWaitsForTask

\* Every row of the backlog is settled, unless it stands behind, or is, one whose
\* task asynq has archived.
BacklogClears == Backlog!BacklogClears

\* The API and the reconciler end their work before they close the pool, unless
\* the time for draining is over or the server failed; the worker does not (run
\* drain).
DrainedBeforeClose ==
    /\ focus = "api" => Api!DrainedBeforeClose
    /\ focus = "reconciler" => Reconciler!DrainedBeforeClose

\* A signal ends each of the three processes, hung work or not.
SignalExits == Api!SignalExits
=============================================================================
