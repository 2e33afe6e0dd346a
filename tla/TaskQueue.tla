----------------------------- MODULE TaskQueue ------------------------------
(***************************************************************************)
(* The asynq task table in Redis, as internal/adapters/asynq uses it. A    *)
(* notification can own two tasks: one under the deterministic id          *)
(* "notif:<id>", one under its Idempotency-Key. asynq itself is external:  *)
(* an id that exists in any state refuses a second enqueue, a handler's    *)
(* nil deletes the task, its error sends the task to the retry set until   *)
(* MaxRetry is spent and then to the archive, a task whose lease ran out   *)
(* is recovered as if its handler had failed.                              *)
(***************************************************************************)
EXTENDS Store

CONSTANT MaxRetry      \* the MaxRetry option every task is enqueued with

ASSUME TaskQueueAssumption == MaxRetry \in Nat

VARIABLES task,        \* [Tasks -> TaskStates]
          retried      \* [Tasks -> 0..MaxRetry], asynq's own counter

queueVars == <<task, retried>>

Tasks == Notifs \X {"notif", "key"}

TaskStates == {"none", "scheduled", "pending", "active", "retry", "archived"}

QueueTypeOK ==
    /\ task \in [Tasks -> TaskStates]
    /\ retried \in [Tasks -> 0..MaxRetry]

QueueInit ==
    /\ task = [t \in Tasks |-> "none"]
    /\ retried = [t \in Tasks |-> 0]

TaskIDFor(n, withKey) == <<n, IF withKey THEN "key" ELSE "notif">>

-----------------------------------------------------------------------------

\* Enqueue and EnqueueScheduled: the task is new under its id.
EnqueueAs(t, state) ==
    /\ task[t] = "none"
    /\ task' = [task EXCEPT ![t] = state]
    /\ UNCHANGED retried

\* ErrTaskIDConflict: the id is taken, whatever state its task is in.
EnqueueRefused(t) ==
    /\ task[t] # "none"
    /\ UNCHANGED queueVars

\* Queue.Cancel deletes the task under "notif:<id>" and no other; a task that
\* is not there is success.
DeleteTask(n) ==
    /\ task[TaskIDFor(n, FALSE)] # "active"
    /\ task' = [task EXCEPT ![TaskIDFor(n, FALSE)] = "none"]
    /\ retried' = [retried EXCEPT ![TaskIDFor(n, FALSE)] = 0]

\* asynq refuses to delete an active task, with an error Cancel passes on.
DeleteRefused(n) ==
    /\ task[TaskIDFor(n, FALSE)] = "active"
    /\ UNCHANGED queueVars

\* The forwarder moves a task whose time has come to its priority queue: the
\* retry delay always elapses, a scheduled task waits for scheduled_at.
Forward(t) ==
    /\ \/ task[t] = "retry"
       \/ task[t] = "scheduled" /\ schedule[t[1]] # "future"
    /\ task' = [task EXCEPT ![t] = "pending"]
    /\ UNCHANGED retried

Take(t) ==
    /\ task[t] = "pending"
    /\ task' = [task EXCEPT ![t] = "active"]
    /\ UNCHANGED retried

\* The handler returned nil.
Done(t) ==
    /\ task' = [task EXCEPT ![t] = "none"]
    /\ retried' = [retried EXCEPT ![t] = 0]

\* The handler returned an error, or its lease expired.
Failed(t) ==
    \/ /\ retried[t] < MaxRetry
       /\ task' = [task EXCEPT ![t] = "retry"]
       /\ retried' = [retried EXCEPT ![t] = @ + 1]
    \/ /\ retried[t] = MaxRetry
       /\ task' = [task EXCEPT ![t] = "archived"]
       /\ UNCHANGED retried

\* A graceful shutdown hands the task back without charging a retry.
Requeue(t) ==
    /\ task' = [task EXCEPT ![t] = "pending"]
    /\ UNCHANGED retried
=============================================================================
