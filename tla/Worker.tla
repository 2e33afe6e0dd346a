------------------------------- MODULE Worker -------------------------------
(***************************************************************************)
(* The worker pool: asynq hands a task to a worker, which runs             *)
(* ProcessNotification.Execute, one step per call to Postgres, Redis or    *)
(* the provider. A worker can fail at any call, die at any point, or lose  *)
(* the lease of its task and keep running.                                 *)
(***************************************************************************)
EXTENDS TaskQueue

CONSTANTS Workers,       \* handler goroutines, over all worker processes
          MaxAttempts,   \* defaultMaxAttempts
          MaxDenials     \* bound on outbound rate-limit denials

ASSUME WorkerAssumption == MaxAttempts \in Nat \ {0} /\ MaxDenials \in Nat

VARIABLES wpc,           \* [Workers -> WorkerSteps]
          wtask,         \* the task the worker was handed
          wattempts,     \* the attempt count the claim returned
          wresult,       \* what the limiter or the provider answered
          lease,         \* the workers whose lease on wtask still stands
          feed,          \* the last status published for a row
          denials,       \* rate-limit denials so far
          acks,          \* history: provider successes reported, per row
          sends          \* history: provider calls made, per row

workerVars == <<wpc, wtask, wattempts, wresult, lease, feed, denials, acks,
                sends>>

WorkerSteps == {"idle", "claim", "record", "limit", "send", "apply", "outcome"}

Results == {"none", "denied", "success", "permanent", "transient"}

NoTask == <<"-", "-">>

WorkerTypeOK ==
    /\ wpc \in [Workers -> WorkerSteps]
    /\ wtask \in [Workers -> Tasks \cup {NoTask}]
    /\ wattempts \in [Workers -> Nat]
    /\ wresult \in [Workers -> Results]
    /\ lease \subseteq Workers
    /\ feed \in [Notifs -> RowStates]
    /\ denials \in 0..MaxDenials
    /\ acks \in [Notifs -> Nat]
    /\ sends \in [Notifs -> Nat]

WorkerInit ==
    /\ wpc = [w \in Workers |-> "idle"]
    /\ wtask = [w \in Workers |-> NoTask]
    /\ wattempts = [w \in Workers |-> 0]
    /\ wresult = [w \in Workers |-> "none"]
    /\ lease = {}
    /\ feed = [n \in Notifs |-> "absent"]
    /\ denials = 0
    /\ acks = [n \in Notifs |-> 0]
    /\ sends = [n \in Notifs |-> 0]

\* The row a busy worker is processing.
Row(w) == wtask[w][1]

-----------------------------------------------------------------------------

\* The worker is free again; its local state is gone.
Free(w) ==
    /\ wpc' = [wpc EXCEPT ![w] = "idle"]
    /\ wtask' = [wtask EXCEPT ![w] = NoTask]
    /\ wattempts' = [wattempts EXCEPT ![w] = 0]
    /\ wresult' = [wresult EXCEPT ![w] = "none"]
    /\ lease' = lease \ {w}

\* The handler returns: nil completes the task, an error fails it; asynq
\* ignores the verdict of a worker whose lease has run out.
Return(w, isNil) ==
    /\ Free(w)
    /\ IF w \notin lease THEN UNCHANGED queueVars
       ELSE IF isNil THEN Done(wtask[w]) ELSE Failed(wtask[w])
    /\ UNCHANGED <<denials, acks, sends>>

Step(w, from, to) ==
    /\ wpc[w] = from
    /\ wpc' = [wpc EXCEPT ![w] = to]
    /\ UNCHANGED <<wtask, lease, queueVars>>

-----------------------------------------------------------------------------

Dequeue(w, t) ==
    /\ wpc[w] = "idle"
    /\ Take(t)
    /\ wpc' = [wpc EXCEPT ![w] = "claim"]
    /\ wtask' = [wtask EXCEPT ![w] = t]
    /\ lease' = lease \cup {w}
    /\ UNCHANGED <<wattempts, wresult, feed, denials, acks, sends, storeVars>>

Claim(w) ==
    /\ Step(w, "claim", "record")
    /\ ClaimForProcessing(Row(w))
    /\ wattempts' = [wattempts EXCEPT ![w] = attempts[Row(w)] + 1]
    /\ UNCHANGED <<wresult, feed, denials, acks, sends>>

\* Mutants: ErrAlreadyClaimed is ignored and the row processed all the same;
\* it is returned to asynq; it puts the task back into its queue.
ProcessAnyway(w) ==
    /\ Step(w, "claim", "record")
    /\ status[Row(w)] \notin Claimable
    /\ UNCHANGED <<wattempts, wresult, feed, denials, acks, sends, storeVars>>

AlreadyClaimedFails(w) ==
    /\ wpc[w] = "claim"
    /\ status[Row(w)] \notin Claimable
    /\ Return(w, FALSE)
    /\ UNCHANGED <<feed, storeVars>>

AlreadyClaimedRequeues(w) ==
    /\ wpc[w] = "claim"
    /\ status[Row(w)] \notin Claimable
    /\ Free(w)
    /\ Requeue(wtask[w])
    /\ UNCHANGED <<feed, denials, acks, sends, storeVars>>

\* ErrAlreadyClaimed is swallowed: asynq sees success and drops the task.
AlreadyClaimed(w) ==
    /\ wpc[w] = "claim"
    /\ status[Row(w)] \notin Claimable
    /\ Return(w, TRUE)
    /\ UNCHANGED <<feed, storeVars>>

\* recordEvent: append the log row, publish the status.
RecordEvent(n, event) ==
    /\ AppendLog(n, event)
    /\ feed' = [feed EXCEPT ![n] = event]

RecordProcessing(w) ==
    /\ Step(w, "record", "limit")
    /\ RecordEvent(Row(w), "processing")
    /\ UNCHANGED <<wattempts, wresult, denials, acks, sends>>

Allowed(w) ==
    /\ Step(w, "limit", "send")
    /\ UNCHANGED <<wattempts, wresult, feed, denials, acks, sends, storeVars>>

Denied(w) ==
    /\ Step(w, "limit", "apply")
    /\ denials < MaxDenials
    /\ denials' = denials + 1
    /\ wresult' = [wresult EXCEPT ![w] = "denied"]
    /\ UNCHANGED <<wattempts, feed, acks, sends, storeVars>>

\* The provider answers. A timeout or a refused connection is transient.
Send(w, r) ==
    /\ Step(w, "send", "apply")
    /\ wresult' = [wresult EXCEPT ![w] = r]
    /\ sends' = [sends EXCEPT ![Row(w)] = @ + 1]
    /\ acks' = IF r = "success" THEN [acks EXCEPT ![Row(w)] = @ + 1] ELSE acks
    /\ UNCHANGED <<wattempts, feed, denials, storeVars>>

\* Mutant: an open breaker reports success.
ShortCircuitSucceeds(w) ==
    /\ Step(w, "send", "apply")
    /\ wresult' = [wresult EXCEPT ![w] = "success"]
    /\ UNCHANGED <<wattempts, feed, denials, acks, sends, storeVars>>

\* The circuit breaker is open: a transient result without a provider call.
ShortCircuit(w) ==
    /\ Step(w, "send", "apply")
    /\ wresult' = [wresult EXCEPT ![w] = "transient"]
    /\ UNCHANGED <<wattempts, feed, denials, acks, sends, storeVars>>

\* Mutants: the attempt metric's label becomes the status; one attempt too many.
OutcomeLabel(result, att) == IF result = "denied" THEN "retrying" ELSE result

OutcomeLate(result, att) ==
    CASE result = "success" -> "delivered"
      [] \/ result = "permanent"
         \/ result = "transient" /\ att > MaxAttempts -> "failed"
      [] OTHER -> "retrying"

\* applyResult and rescheduleForRateLimit: the status a result leads to. A
\* denied attempt is never the last one, however many there were.
Outcome(result, att) ==
    CASE result = "success" -> "delivered"
      [] \/ result = "permanent"
         \/ result = "transient" /\ att >= MaxAttempts -> "failed"
      [] OTHER -> "retrying"

ApplyResult(w) ==
    /\ Step(w, "apply", "outcome")
    /\ UpdateStatus(Row(w), Outcome(wresult[w], wattempts[w]), wattempts[w],
                    "processing")
    /\ UNCHANGED <<wattempts, wresult, feed, denials, acks, sends>>

\* Mutant: ErrConcurrentUpdate is ignored, the outcome recorded.
ApplyConflictIgnored(w) ==
    /\ Step(w, "apply", "outcome")
    /\ ConcurrentUpdate(Row(w), "processing")
    /\ UNCHANGED <<wattempts, wresult, feed, denials, acks, sends>>

ApplyConflict(w) ==
    /\ wpc[w] = "apply"
    /\ ConcurrentUpdate(Row(w), "processing")
    /\ Return(w, FALSE)
    /\ UNCHANGED feed

\* A retrying outcome returns ErrProviderTransient or ErrOutboundRateLimited,
\* so that asynq runs the task again.
RecordOutcome(w) ==
    LET out == Outcome(wresult[w], wattempts[w])
    IN  /\ wpc[w] = "outcome"
        /\ RecordEvent(Row(w), out)
        /\ Return(w, out # "retrying")

-----------------------------------------------------------------------------

\* The event recordEvent is writing at the worker's current step, if any.
EventAt(w) ==
    CASE wpc[w] = "record"  -> {"processing"}
      [] wpc[w] = "outcome" -> {Outcome(wresult[w], wattempts[w])}
      [] OTHER              -> {}

\* A call fails and its error reaches asynq. recordEvent may have appended
\* the log row before Publish failed. Provider.Send returns no error.
HandlerFault(w) ==
    /\ wpc[w] \in {"claim", "record", "limit", "apply", "outcome"}
    /\ Fault
    /\ \E E \in {{}, EventAt(w)} : log' = [log EXCEPT ![Row(w)] = @ \cup E]
    /\ Return(w, FALSE)
    /\ UNCHANGED feed

\* The process dies: the task stays active with nobody extending its lease.
Crash(w) ==
    /\ wpc[w] # "idle"
    /\ Fault
    /\ Free(w)
    /\ UNCHANGED <<log, feed, denials, acks, sends, queueVars>>

\* SIGTERM and the shutdown timeout: asynq pushes the task back to pending.
Shutdown(w) ==
    /\ wpc[w] # "idle"
    /\ w \in lease
    /\ Fault
    /\ Free(w)
    /\ Requeue(wtask[w])
    /\ UNCHANGED <<log, feed, denials, acks, sends>>

\* The heartbeat misses (a pause, a partition): the handler runs on.
LoseLease(w) ==
    /\ w \in lease
    /\ Fault
    /\ lease' = lease \ {w}
    /\ UNCHANGED <<wpc, wtask, wattempts, wresult, feed, denials, acks, sends,
                   log, queueVars>>

\* asynq's recoverer finds an active task whose lease nobody holds.
RecoverLease(t) ==
    /\ task[t] = "active"
    /\ \A w \in lease : wtask[w] # t
    /\ Failed(t)
    /\ UNCHANGED <<workerVars, storeVars>>

WorkerStep(w) ==
    \/ Claim(w) \/ AlreadyClaimed(w) \/ RecordProcessing(w)
    \/ Allowed(w) \/ Denied(w)
    \/ \E r \in {"success", "permanent", "transient"} : Send(w, r)
    \/ ShortCircuit(w)
    \/ ApplyResult(w) \/ ApplyConflict(w) \/ RecordOutcome(w)

WorkerFault(w) == HandlerFault(w) \/ Crash(w) \/ Shutdown(w) \/ LoseLease(w)
=============================================================================
