---------------------------- MODULE RetryTiming ----------------------------
(***************************************************************************)
(* When a retry runs.  Two clocks are set each time a delivery fails: the  *)
(* row's next_retry_at, from its attempt count, and asynq's delay, from    *)
(* the number of retries of the task, with jitter.  The overdue sweep      *)
(* reads the first; the task runs by the second.  Here one row and its     *)
(* task go through every order of transient failures, denials by the rate  *)
(* limiter, and calls that fail before the claim or after the UPDATE.      *)
(* Seconds, with the constants of the code.                                *)
(***************************************************************************)
EXTENDS Integers

CONSTANTS BackoffBase,        \* backoffBase
          RateLimitBackoff,   \* rateLimitBackoff
          MaxRetryJitter,     \* maxRetryJitter
          OverdueThreshold,   \* overdueRetryingThreshold
          MaxAttempts,        \* defaultMaxAttempts
          MaxRetry,           \* maxRetryAttempts of the task
          MaxWait             \* bound on the time from a task's due to its handler's
                              \* return: asynq's poll, the queue and the calls

RetryTimingAssumption ==
    /\ {BackoffBase, RateLimitBackoff, MaxRetryJitter, OverdueThreshold, MaxAttempts,
        MaxRetry} \subseteq Nat \ {0}
    /\ RateLimitBackoff <= BackoffBase
    /\ MaxWait \in Nat

VARIABLES status,     \* of the row: "queued", "retrying", or "settled" for all others
          attempts,   \* of the row
          retried,    \* retries of the task so far
          next,       \* next_retry_at in seconds since the row was queued, 0 for none
          due,        \* when asynq runs the task again
          archived    \* asynq has given the task up

vars == <<status, attempts, retried, next, due, archived>>

TypeOK ==
    /\ status \in {"queued", "retrying", "settled"}
    /\ attempts \in 0..(MaxAttempts + MaxRetry)
    /\ retried \in 0..MaxRetry
    /\ {next, due} \subseteq Nat
    /\ archived \in BOOLEAN

Init ==
    /\ status = "queued"
    /\ attempts = 0 /\ retried = 0
    /\ next = 0 /\ due = 0
    /\ archived = FALSE

-----------------------------------------------------------------------------

BackoffFor(n) == IF n <= 0 THEN BackoffBase ELSE BackoffBase * 2^(n - 1)

\* A denial is retried soon; every other error by the exponential schedule.
RetryDelayFor(n, err) == IF err = "limited" THEN RateLimitBackoff ELSE BackoffFor(n)

\* Mutant: the jitter grows with the delay.
WithFullJitter(base) == {base, 2 * base - 1}

\* The least and the greatest delay a draw can give.
WithJitter(base) ==
    LET bound == IF base > MaxRetryJitter THEN MaxRetryJitter ELSE base
    IN  IF base <= 0 THEN {base} ELSE {base, base + bound - 1}

\* Mutant: one retry too many.
RescheduleOnceMore(at, err) ==
    IF retried > MaxRetry
    THEN archived' = TRUE /\ UNCHANGED <<retried, due>>
    ELSE /\ \E d \in WithJitter(RetryDelayFor(retried, err)) : due' = at + d
         /\ retried' = retried + 1
         /\ UNCHANGED archived

\* asynq passes the number of retries the task has had; past MaxRetry it
\* archives the task instead.
Reschedule(at, err) ==
    IF retried = MaxRetry
    THEN archived' = TRUE /\ UNCHANGED <<retried, due>>
    ELSE /\ \E d \in WithJitter(RetryDelayFor(retried, err)) : due' = at + d
         /\ retried' = retried + 1
         /\ UNCHANGED archived

Runs == ~archived /\ status # "settled"

\* The earliest and the latest a run can write its UPDATE and return.
RunTimes == {t \in [written : {due, due + MaxWait}, returned : {due, due + MaxWait}] :
                t.written <= t.returned}

\* markRetrying, or markFailed on the last attempt.  If the event cannot be
\* recorded after the UPDATE, the error is another one and the delay the same.
TransientFailure ==
    /\ Runs
    /\ attempts' = attempts + 1
    /\ IF attempts + 1 >= MaxAttempts
       THEN status' = "settled" /\ UNCHANGED <<next, due, retried, archived>>
       ELSE /\ status' = "retrying"
            /\ \E t \in RunTimes : /\ next' = t.written + BackoffFor(attempts + 1)
                                  /\ Reschedule(t.returned, "transient")

\* rescheduleForRateLimit: the attempt is spent, whichever it is.  The error it
\* returns is the denial, unless recording the event fails after the UPDATE.
RateLimited ==
    /\ Runs
    /\ attempts' = attempts + 1
    /\ status' = "retrying"
    /\ \E t \in RunTimes, err \in {"limited", "error"} :
          /\ next' = t.written + RateLimitBackoff
          /\ Reschedule(t.returned, err)

\* The claim fails: the row is untouched, the task is retried.
ClaimFails ==
    /\ Runs
    /\ \E t \in RunTimes : Reschedule(t.returned, "error")
    /\ UNCHANGED <<status, attempts, next>>

\* Delivered, permanently failed, withdrawn, or left processing by a call that
\* fails between the claim and the UPDATE: no row of the overdue sweep.
Settle ==
    /\ Runs
    /\ status' = "settled"
    /\ UNCHANGED <<attempts, retried, next, due, archived>>

Next == TransientFailure \/ RateLimited \/ ClaimFails \/ Settle

Spec == Init /\ [][Next]_vars

-----------------------------------------------------------------------------

\* The overdue sweep does not compete with a task that has a retry to spare:
\* whatever the jitter, the waits and the order of failures, its run is over
\* before next_retry_at is overdueRetryingThreshold behind.
SweepWaitsForTask ==
    (Runs /\ status = "retrying" /\ retried < MaxRetry)
        => due + MaxWait <= next + OverdueThreshold

\* docs/adr/0015: the threshold "is far past any realistic asynq retry latency",
\* and "a row whose asynq retry is still pending stays invisible to the
\* reconciler".  A denial whose event could not be recorded sets next_retry_at
\* one second ahead and the task half a minute or more; four claims that fail
\* after it put the last retry behind the threshold.
PendingIsInvisible ==
    (Runs /\ status = "retrying") => due <= next + OverdueThreshold

=============================================================================
