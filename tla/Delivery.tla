------------------------------ MODULE Delivery ------------------------------
(***************************************************************************)
(* The delivery pipeline: API requests, cancellations, workers, asynq and  *)
(* reconcilers running concurrently over the same rows and tasks. Each     *)
(* component's module says what its steps do to the store, the queue and   *)
(* its own state; here the others stand still meanwhile.                   *)
(***************************************************************************)
EXTENDS Intake, Cancellation, Worker, Reconciler

vars == <<storeVars, queueVars, intakeVars, cancelVars, workerVars,
          reconcilerVars>>

Init == /\ StoreInit /\ QueueInit /\ IntakeInit
        /\ CancelInit /\ WorkerInit /\ ReconcilerInit

IntakeNext ==
    /\ \/ IntakeArrival
       \/ \E n \in Notifs : IntakeStep(n) \/ IntakeFault(n)
    /\ UNCHANGED <<cancelVars, workerVars, reconcilerVars>>

CancelNext ==
    /\ \E c \in Cancels : CancelArrival(c) \/ CancelStep(c) \/ CancelFault(c)
    /\ UNCHANGED <<intakeVars, workerVars, reconcilerVars>>

WorkerNext ==
    /\ \E w \in Workers : \/ \E t \in Tasks : Dequeue(w, t)
                          \/ WorkerStep(w) \/ WorkerFault(w)
    /\ UNCHANGED <<intakeVars, cancelVars, reconcilerVars>>

ReconcilerNext ==
    /\ \E r \in Reconcilers : ReconcilerStep(r) \/ ReconcilerFault(r)
    /\ UNCHANGED <<intakeVars, cancelVars, workerVars>>

\* asynq's forwarder and recoverer.
QueueNext ==
    /\ \E t \in Tasks : \/ Forward(t) /\ UNCHANGED <<storeVars, workerVars>>
                        \/ RecoverLease(t)
    /\ UNCHANGED <<intakeVars, cancelVars, reconcilerVars>>

Time(n) ==
    /\ GrowStale(n) \/ ReachSchedule(n)
    /\ UNCHANGED <<queueVars, intakeVars, cancelVars, workerVars,
                   reconcilerVars>>

ClockNext == \E n \in Notifs : Time(n)

Next == IntakeNext \/ CancelNext \/ WorkerNext \/ ReconcilerNext
        \/ QueueNext \/ ClockNext

Spec == Init /\ [][Next]_vars

(***************************************************************************)
(* Fairness: a live process goes on with the handler it is in, a free      *)
(* worker takes a pending task, asynq forwards and recovers, the           *)
(* reconciler's ticker fires, the clock advances. Nothing is assumed of    *)
(* requests, of failures, or of what the limiter and the provider answer.  *)
(***************************************************************************)
Others(A, otherVars) == A /\ UNCHANGED otherVars

Fairness ==
    /\ \A n \in Notifs :
        /\ WF_vars(Others(IntakeStep(n),
                          <<cancelVars, workerVars, reconcilerVars>>))
        /\ WF_vars(Time(n))
    /\ \A c \in Cancels :
        WF_vars(Others(CancelStep(c), <<intakeVars, workerVars, reconcilerVars>>))
    /\ \A w \in Workers :
        WF_vars(Others(WorkerStep(w) \/ \E t \in Tasks : Dequeue(w, t),
                       <<intakeVars, cancelVars, reconcilerVars>>))
    /\ \A r \in Reconcilers :
        WF_vars(Others(ReconcilerStep(r), <<intakeVars, cancelVars, workerVars>>))
    /\ WF_vars(QueueNext)

FairSpec == Spec /\ Fairness

-----------------------------------------------------------------------------
(***************************************************************************)
(* Properties                                                              *)
(***************************************************************************)

\* Every variable has its type, over all components of the pipeline.
TypeOK == /\ StoreTypeOK /\ QueueTypeOK /\ IntakeTypeOK
          /\ CancelTypeOK /\ WorkerTypeOK /\ ReconcilerTypeOK

\* The worker has claimed its row and not yet written what became of it.
InFlight(w) == wpc[w] \in {"record", "limit", "send", "apply"}

\* Two workers are never in flight with the same row, whatever asynq
\* redelivers, the reconciler re-enqueues or a lost lease leaves running: the
\* conditional UPDATE of ClaimForProcessing is the only lock there is.
ExclusiveProcessing ==
    \A v, w \in Workers :
        InFlight(v) /\ InFlight(w) /\ Row(v) = Row(w) => v = w

\* Once the provider has reported success for a row, no worker, sweep or
\* request sends it again or puts it where it could be sent or cancelled: one
\* acknowledgement at most, and then only delivered or failed can follow.
NeverSentTwice ==
    \A n \in Notifs :
        /\ acks[n] <= 1
        /\ acks[n] = 1 => status[n] \in {"processing", "delivered", "failed"}

\* A row says delivered only if the provider said so (markDelivered).
DeliveredIsAcknowledged ==
    \A n \in Notifs : status[n] = "delivered" => acks[n] = 1

\* The provider is called at most MaxAttempts times for a row, however many
\* claims the rate limiter, redeliveries and sweeps add (applyResult).
ProviderCallsBounded == \A n \in Notifs : sends[n] <= MaxAttempts

\* A terminal event in notification_logs, or a terminal status published to
\* the WebSocket feed, is the row's status for good: no actor logs or
\* publishes an outcome that another one has pre-empted.
OutcomesTruthful ==
    \A n \in Notifs, s \in {"delivered", "failed", "cancelled"} :
        s \in log[n] \/ feed[n] = s => status[n] = s

\* A row that a sweep would have to put back into the queue is not locked out
\* of it by an archived task under the id the sweep uses: as long as the
\* failures of a behaviour stay within asynq's retry budget, no redelivery
\* that finds the row claimed or not yet queued spends that budget.
NeverLockedOut ==
    \A n \in Notifs :
        status[n] \in {"pending", "queued", "retrying"}
            => task[TaskIDFor(n, n \in keyed)] # "archived"

\* A request is answered with success only when the row has left pending and
\* its trail holds both of its events, whatever sweeps and workers did to the
\* row while the request was running (markQueued, enqueueMember).
AcceptedIsQueued ==
    \A n \in Notifs : ipc[n] = "accepted" =>
        status[n] # "pending" /\ {"created", "queued"} \subseteq log[n]

\* A row that its own request moved to queued is out of every worker's reach
\* before scheduled_at: none of its tasks, under the client's key or under its
\* own id, is ready to be dequeued and no worker holds one; neither the
\* stuck-queued sweep nor the worker that lost the dual-write race brings it
\* forward (EnqueueScheduled, FindStuckQueued's scheduled_at clause).
NotBeforeSchedule ==
    \A n \in Notifs : schedule[n] = "future" /\ ipc[n] \in {"marked", "accepted"} =>
        /\ \A t \in Tasks : t[1] = n => task[t] \in {"none", "scheduled"}
        /\ \A w \in Workers : wpc[w] # "idle" => Row(w) # n

\* Once a cancellation has been written, no provider call is made for the row:
\* not by a task the cancellation failed to delete, nor by a worker that was
\* already holding one (CancelNotification against ProcessNotification).
CancelledIsNeverSent ==
    [][\A n \in Notifs : status[n] = "cancelled" => sends'[n] = sends[n]]_vars

\* No step takes a row out of a terminal status (status.go: "once a
\* notification reaches a terminal state it never moves again").
TerminalIsFinal ==
    [][\A n \in Notifs : IsTerminal(status[n]) => status'[n] = status[n]]_vars

\* The pipeline implements the abstract life cycle of its rows.
Abstract == INSTANCE Lifecycle
ImplementsLifecycle == Abstract!LifecycleSpec

\* Every row the API has stored is eventually delivered, failed or cancelled.
EventuallySettled ==
    \A n \in Notifs : status[n] # "absent" ~> IsTerminal(status[n])

\* Once a row is settled its tasks leave the queue: each is executed as a
\* no-op claim, deleted, or archived.
QueueDrains ==
    \A t \in Tasks : IsTerminal(status[t[1]])
                        ~> task[t] \in {"none", "archived"}
=============================================================================
