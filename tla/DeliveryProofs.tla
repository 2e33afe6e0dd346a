--------------------------- MODULE DeliveryProofs ---------------------------
(***************************************************************************)
(* Proofs about the delivery pipeline: its types, and its safety.          *)
(* DeliveryInv is inductive, and the properties the runs check on small    *)
(* instances follow from it for any number of notifications, workers,      *)
(* cancellations and reconcilers, any attempt and retry budget, and any    *)
(* number of failures.  The refinement of the abstract life cycle comes    *)
(* last.                                                                   *)
(***************************************************************************)
EXTENDS DeliveryInvariant, TLAPS

-----------------------------------------------------------------------------
(***************************************************************************)
(* Type correctness                                                        *)
(***************************************************************************)

\* The first component of a task is a notification.
LEMMA TaskRow == \A t \in Tasks : t[1] \in Notifs
  BY DEF Tasks

\* Adding events to the trail of a row keeps the trail's type.
LEMMA LogType ==
    ASSUME log \in [Notifs -> SUBSET LogEvents],
           NEW n, NEW E \in SUBSET LogEvents
    PROVE  [log EXCEPT ![n] = @ \cup E] \in [Notifs -> SUBSET LogEvents]
  <1> DEFINE f == [log EXCEPT ![n] = @ \cup E]
  <1>1. \A m \in Notifs : f[m] \in SUBSET LogEvents
    OBVIOUS
  <1> QED BY <1>1

LEMMA TypeInvInit == Init => TypeInv
  BY StoreAssumption, TaskQueueAssumption, WorkerAssumption
  DEF Init, StoreInit, QueueInit, IntakeInit, CancelInit, WorkerInit,
      ReconcilerInit, TypeInv, TypeOK, StoreTypeOK, QueueTypeOK, IntakeTypeOK,
      CancelTypeOK, WorkerTypeOK, ReconcilerTypeOK, BusyHasTask, RowStates,
      Schedules, TaskStates, IntakeSteps, CancelSteps, WorkerSteps, Results,
      Sweeps

\* A request leaves every variable in its type.
LEMMA TypeIntake == TypeInv /\ IntakeNext => TypeInv'
  <1> SUFFICES ASSUME TypeInv, IntakeNext PROVE TypeInv'
    OBVIOUS
  <1> USE DEF TypeInv, TypeOK, BusyHasTask, IntakeNext, cancelVars, workerVars,
              reconcilerVars, CancelTypeOK, WorkerTypeOK, ReconcilerTypeOK,
              StoreTypeOK, QueueTypeOK, IntakeTypeOK
  <1>1. CASE \E n \in Notifs, withKey \in KeyChoices, at \in ScheduleChoices :
                CreateNotification(n, withKey, at)
    BY <1>1, IntakeAssumption
    DEF CreateNotification, Insert, Begin, queueVars, RowStates, Statuses,
        Schedules, IntakeSteps
  <1>2. CASE \E S \in (SUBSET Notifs) \ {{}} : CreateBatch(S)
    BY <1>2
    DEF CreateBatch, Insert, Begin, queueVars, RowStates, Statuses, Schedules,
        IntakeSteps
  <1>3. ASSUME NEW n \in Notifs, IntakeStep(n) \/ IntakeFault(n)
        PROVE  TypeInv'
    <2>1. CASE RecordCreated(n) \/ RecordQueued(n)
      <3>1. PICK E \in SUBSET LogEvents : log' = [log EXCEPT ![n] = @ \cup E]
        BY <2>1 DEF RecordCreated, RecordQueued, AppendLog, LogEvents
      <3>2. log' \in [Notifs -> SUBSET LogEvents]
        BY <3>1, LogType
      <3> QED
        BY <2>1, <3>2 DEF RecordCreated, RecordQueued, Advance, AppendLog,
                          queueVars, IntakeSteps
    <2>2. CASE Enqueue(n)
      BY <2>2 DEF Enqueue, Advance, EnqueueAs, storeVars, IntakeSteps, TaskStates
    <2>3. CASE MarkQueued(n)
      BY <2>3 DEF MarkQueued, Advance, UpdateStatus, queueVars, IntakeSteps,
                  RowStates, Statuses
    <2>4. CASE EnqueueConflict(n) \/ MarkQueuedConflict(n)
      BY <2>4 DEF EnqueueConflict, MarkQueuedConflict, Abort, EnqueueRefused,
                  ConcurrentUpdate, storeVars, queueVars, IntakeSteps
    <2>5. CASE IntakeFault(n)
      BY <2>5, StoreAssumption DEF IntakeFault, Abort, Fault, queueVars, IntakeSteps
    <2> QED BY <1>3, <2>1, <2>2, <2>3, <2>4, <2>5 DEF IntakeStep
  <1> QED BY <1>1, <1>2, <1>3 DEF IntakeArrival

\* A task can be new.
LEMMA ZeroRetries == 0 \in 0..MaxRetry
  BY TaskQueueAssumption

\* A cancellation leaves every variable in its type.
LEMMA TypeCancel == TypeInv /\ CancelNext => TypeInv'
  <1> SUFFICES ASSUME TypeInv,
                      NEW c \in Cancels,
                      CancelArrival(c) \/ CancelStep(c) \/ CancelFault(c),
                      UNCHANGED <<intakeVars, workerVars, reconcilerVars>>
               PROVE  TypeInv'
    BY DEF CancelNext
  <1> USE DEF TypeInv, TypeOK, BusyHasTask, intakeVars, workerVars,
              reconcilerVars, CancelTypeOK, WorkerTypeOK, ReconcilerTypeOK,
              StoreTypeOK, QueueTypeOK, IntakeTypeOK
  <1>1. CASE CancelArrival(c)
    <2> PICK n \in Notifs : CancelGet(c, n) \/ CancelTooLate(c, n)
      BY <1>1 DEF CancelArrival
    <2>1. CASE CancelGet(c, n)
      BY <2>1 DEF CancelGet, storeVars, queueVars, CancelSteps
    <2>2. CASE CancelTooLate(c, n)
      BY <2>2 DEF CancelTooLate, Answer, storeVars, queueVars, CancelSteps,
                  RowStates
    <2> QED BY <2>1, <2>2
  <1>2. CASE CancelUpdate(c)
    BY <1>2 DEF CancelUpdate, Goto, UpdateStatus, queueVars, CancelSteps,
                RowStates, Statuses
  <1>3. CASE CancelConflict(c)
    BY <1>3 DEF CancelConflict, Answer, ConcurrentUpdate, storeVars, queueVars,
                CancelSteps, RowStates
  <1>4. CASE CancelLog(c)
    <2>1. PICK E \in SUBSET LogEvents : log' = [log EXCEPT ![cnotif[c]] = @ \cup E]
      BY <1>4 DEF CancelLog, AppendLog, LogEvents
    <2>2. log' \in [Notifs -> SUBSET LogEvents]
      BY <2>1, LogType
    <2> QED BY <1>4, <2>2 DEF CancelLog, Goto, AppendLog, queueVars, CancelSteps
  <1>5. CASE CancelDequeue(c)
    BY <1>5, ZeroRetries
    DEF CancelDequeue, Answer, DeleteTask, TaskIDFor, storeVars, CancelSteps,
        RowStates, TaskStates
  <1>7. CASE CancelDequeueRefused(c)
    BY <1>7
    DEF CancelDequeueRefused, Answer, DeleteRefused, storeVars, queueVars,
        CancelSteps, RowStates
  <1>6. CASE CancelFault(c)
    BY <1>6, StoreAssumption
    DEF CancelFault, Answer, Fault, queueVars, CancelSteps, RowStates
  <1> QED BY <1>1, <1>2, <1>3, <1>4, <1>5, <1>7, <1>6 DEF CancelStep

\* A task that fails is retried or archived, within its type.
LEMMA FailedType ==
    ASSUME QueueTypeOK, NEW t, Failed(t)
    PROVE  QueueTypeOK'
  <1>1. CASE retried[t] < MaxRetry /\ t \in Tasks
    BY <1>1, TaskQueueAssumption DEF QueueTypeOK, Failed, TaskStates
  <1>2. CASE t \notin Tasks
    BY <1>2, TaskQueueAssumption DEF QueueTypeOK, Failed, TaskStates
  <1>3. CASE ~(retried[t] < MaxRetry)
    BY <1>3, TaskQueueAssumption DEF QueueTypeOK, Failed, TaskStates
  <1> QED BY <1>1, <1>2, <1>3

\* So is one that is completed.
LEMMA DoneType ==
    ASSUME QueueTypeOK, NEW t, Done(t)
    PROVE  QueueTypeOK'
  <1>1. task' \in [Tasks -> TaskStates]
    BY DEF QueueTypeOK, Done, TaskStates
  <1>2. retried' \in [Tasks -> 0..MaxRetry]
    BY ZeroRetries DEF QueueTypeOK, Done
  <1> QED BY <1>1, <1>2 DEF QueueTypeOK

\* A handler that returns leaves the worker and the queue in their types.
LEMMA ReturnType ==
    ASSUME TypeInv, NEW w \in Workers, NEW b \in BOOLEAN, Return(w, b),
           feed' \in [Notifs -> RowStates]
    PROVE  WorkerTypeOK' /\ QueueTypeOK' /\ BusyHasTask'
  <1>1. WorkerTypeOK' /\ BusyHasTask'
    BY DEF Return, Free, TypeInv, TypeOK, WorkerTypeOK, BusyHasTask,
           WorkerSteps, Results
  <1>2. QueueTypeOK'
    BY FailedType, DoneType DEF Return, queueVars, TypeInv, TypeOK, QueueTypeOK
  <1> QED BY <1>1, <1>2

\* What a result leads to is a status.
LEMMA OutcomeType ==
    ASSUME NEW r, NEW a
    PROVE  Outcome(r, a) \in {"delivered", "failed", "retrying"}
  BY DEF Outcome

\* Recording an event of the worker keeps the trail and the feed in type.
LEMMA RecordType ==
    ASSUME TypeInv, NEW n, NEW e \in LogEvents \cap Statuses, RecordEvent(n, e)
    PROVE  /\ StoreTypeOK'
           /\ feed' \in [Notifs -> RowStates]
  <1>1. {e} \in SUBSET LogEvents
    OBVIOUS
  <1>2. log' \in [Notifs -> SUBSET LogEvents]
    BY <1>1, LogType DEF RecordEvent, AppendLog, TypeInv, TypeOK, StoreTypeOK
  <1> QED
    BY <1>2 DEF RecordEvent, AppendLog, TypeInv, TypeOK, StoreTypeOK,
                WorkerTypeOK, RowStates

\* A worker leaves every variable in its type.
LEMMA TypeWorker == TypeInv /\ WorkerNext => TypeInv'
  <1> SUFFICES ASSUME TypeInv,
                      NEW w \in Workers,
                      \/ \E t \in Tasks : Dequeue(w, t)
                      \/ WorkerStep(w) \/ WorkerFault(w),
                      UNCHANGED <<intakeVars, cancelVars, reconcilerVars>>
               PROVE  TypeInv'
    BY DEF WorkerNext
  <1>0. /\ IntakeTypeOK' /\ CancelTypeOK' /\ ReconcilerTypeOK'
    BY DEF TypeInv, TypeOK, IntakeTypeOK, CancelTypeOK, ReconcilerTypeOK,
           intakeVars, cancelVars, reconcilerVars
  <1> SUFFICES StoreTypeOK' /\ QueueTypeOK' /\ WorkerTypeOK' /\ BusyHasTask'
    BY <1>0 DEF TypeInv, TypeOK
  <1> USE DEF TypeInv, TypeOK
  <1>1. CASE \E t \in Tasks : Dequeue(w, t)
    BY <1>1 DEF Dequeue, Take, storeVars, StoreTypeOK, QueueTypeOK, WorkerTypeOK,
                BusyHasTask, TaskStates, WorkerSteps
  <1>2. CASE Claim(w)
    <2>1. Row(w) \in Notifs
      BY <1>2, TaskRow DEF Claim, Step, Row, BusyHasTask
    <2> QED
      BY <1>2, <2>1 DEF Claim, Step, ClaimForProcessing, queueVars, StoreTypeOK,
                        QueueTypeOK, WorkerTypeOK, BusyHasTask, RowStates,
                        Statuses, WorkerSteps
  <1>3. CASE AlreadyClaimed(w)
    BY <1>3, ReturnType DEF AlreadyClaimed, storeVars, StoreTypeOK, WorkerTypeOK
  <1>4. CASE RecordProcessing(w)
    BY <1>4, RecordType
    DEF RecordProcessing, Step, queueVars, QueueTypeOK, WorkerTypeOK,
        BusyHasTask, WorkerSteps, LogEvents, Statuses
  <1>5. CASE Allowed(w) \/ Denied(w) \/ ShortCircuit(w)
    BY <1>5, WorkerAssumption
    DEF Allowed, Denied, ShortCircuit, Step, queueVars, storeVars, StoreTypeOK,
        QueueTypeOK, WorkerTypeOK, BusyHasTask, WorkerSteps, Results
  <1>6. CASE \E r \in {"success", "permanent", "transient"} : Send(w, r)
    <2> PICK r \in {"success", "permanent", "transient"} : Send(w, r)
      BY <1>6
    <2>1. Row(w) \in Notifs
      BY TaskRow DEF Send, Step, Row, BusyHasTask
    <2>2. acks' \in [Notifs -> Nat] /\ sends' \in [Notifs -> Nat]
      BY <2>1 DEF Send, WorkerTypeOK
    <2> QED
      BY <2>2 DEF Send, Step, queueVars, storeVars, StoreTypeOK, QueueTypeOK,
                  WorkerTypeOK, BusyHasTask, WorkerSteps, Results
  <1>7. CASE ApplyResult(w)
    BY <1>7, OutcomeType
    DEF ApplyResult, Step, UpdateStatus, queueVars, StoreTypeOK, QueueTypeOK,
        WorkerTypeOK, BusyHasTask, WorkerSteps, RowStates, Statuses
  <1>8. CASE ApplyConflict(w)
    BY <1>8, ReturnType
    DEF ApplyConflict, ConcurrentUpdate, storeVars, StoreTypeOK, WorkerTypeOK
  <1>9. CASE RecordOutcome(w)
    <2> DEFINE out == Outcome(wresult[w], wattempts[w])
    <2>1. out \in LogEvents \cap Statuses
      BY OutcomeType DEF LogEvents, Statuses
    <2>2. RecordEvent(Row(w), out) /\ Return(w, out # "retrying")
      BY <1>9 DEF RecordOutcome
    <2> HIDE DEF out
    <2> QED BY <2>1, <2>2, RecordType, ReturnType
  <1>10. CASE HandlerFault(w)
    <2>1. EventAt(w) \in SUBSET LogEvents
      BY OutcomeType DEF EventAt, LogEvents
    <2>2. log' \in [Notifs -> SUBSET LogEvents]
      BY <1>10, <2>1, LogType DEF HandlerFault, StoreTypeOK
    <2>3. StoreTypeOK'
      BY <1>10, <2>2, StoreAssumption DEF HandlerFault, Fault, StoreTypeOK
    <2> QED BY <1>10, <2>3, ReturnType DEF HandlerFault, WorkerTypeOK
  <1>11. CASE Crash(w)
    BY <1>11, StoreAssumption
    DEF Crash, Fault, Free, queueVars, StoreTypeOK, QueueTypeOK, WorkerTypeOK,
        BusyHasTask, WorkerSteps, Results
  <1>12. CASE Shutdown(w)
    BY <1>12, StoreAssumption
    DEF Shutdown, Fault, Free, Requeue, StoreTypeOK, QueueTypeOK, WorkerTypeOK,
        BusyHasTask, WorkerSteps, Results, TaskStates
  <1>13. CASE LoseLease(w)
    BY <1>13, StoreAssumption
    DEF LoseLease, Fault, queueVars, StoreTypeOK, QueueTypeOK, WorkerTypeOK,
        BusyHasTask
  <1> QED
    BY <1>1, <1>2, <1>3, <1>4, <1>5, <1>6, <1>7, <1>8, <1>9, <1>10, <1>11, <1>12,
       <1>13
    DEF WorkerStep, WorkerFault

\* A sweep returns rows of the table.
LEMMA FindType ==
    ASSUME StoreTypeOK, NEW s
    PROVE  Find(s) \in SUBSET Notifs
  BY DEF Find, FindOrphanedPending, FindStuckProcessing, FindOverdueRetrying,
         FindStuckQueued, StoreTypeOK

\* Ending a pass, or the handling of one row, keeps the reconciler in type.
LEMMA PassType ==
    ASSUME ReconcilerTypeOK, NEW r \in Reconcilers,
           NEW n, AbortPass(r) \/ Finish(r, n)
    PROVE  ReconcilerTypeOK'
  <1>1. CASE AbortPass(r)
    BY <1>1 DEF AbortPass, ReconcilerTypeOK, Sweeps
  <1>2. CASE Finish(r, n)
    <2>1. rattempts' \in [Reconcilers -> [Notifs -> Nat]]
      BY <1>2 DEF Finish, ReconcilerTypeOK
    <2> QED BY <1>2, <2>1 DEF Finish, ReconcilerTypeOK
  <1> QED BY <1>1, <1>2

\* A reconciler leaves every variable in its type.
LEMMA TypeReconciler == TypeInv /\ ReconcilerNext => TypeInv'
  <1> SUFFICES ASSUME TypeInv,
                      NEW r \in Reconcilers,
                      ReconcilerStep(r) \/ ReconcilerFault(r),
                      UNCHANGED <<intakeVars, cancelVars, workerVars>>
               PROVE  TypeInv'
    BY DEF ReconcilerNext
  <1>0. IntakeTypeOK' /\ CancelTypeOK' /\ WorkerTypeOK' /\ BusyHasTask'
    BY DEF TypeInv, TypeOK, IntakeTypeOK, CancelTypeOK, WorkerTypeOK,
           BusyHasTask, intakeVars, cancelVars, workerVars
  <1> SUFFICES StoreTypeOK' /\ QueueTypeOK' /\ ReconcilerTypeOK'
    BY <1>0 DEF TypeInv, TypeOK
  <1> USE DEF TypeInv, TypeOK
  <1>1. CASE Sweep(r)
    <2>1. StoreTypeOK' /\ QueueTypeOK'
      BY <1>1 DEF Sweep, storeVars, queueVars, StoreTypeOK, QueueTypeOK
    <2>2. rsweep' \in [Reconcilers -> Sweeps]
      BY <1>1 DEF Sweep, NextSweep, Sweeps, ReconcilerTypeOK
    <2>3. rwork' \in [Reconcilers -> SUBSET Notifs]
      BY <1>1, FindType DEF Sweep, ReconcilerTypeOK
    <2>4. rattempts' \in [Reconcilers -> [Notifs -> Nat]]
      BY <1>1 DEF Sweep, ReconcilerTypeOK, StoreTypeOK
    <2> QED BY <1>1, <2>1, <2>2, <2>3, <2>4 DEF Sweep, ReconcilerTypeOK
  <1>2. CASE HandleLog(r)
    <2>1. {Target(rsweep[r])} \in SUBSET LogEvents
      BY DEF Target, LogEvents
    <2>2. log' \in [Notifs -> SUBSET LogEvents]
      BY <1>2, <2>1, LogType DEF HandleLog, AppendLog, StoreTypeOK
    <2>3. StoreTypeOK' /\ QueueTypeOK'
      BY <1>2, <2>2 DEF HandleLog, AppendLog, queueVars, StoreTypeOK, QueueTypeOK
    <2>4. CASE Finish(r, rcurrent[r])
      BY <2>3, <2>4, PassType
    <2>5. CASE Continue(r, rcurrent[r], "enqueue")
      BY <2>3, <2>5 DEF Continue, ReconcilerTypeOK
    <2> QED BY <1>2, <2>4, <2>5 DEF HandleLog
  <1>3. ASSUME NEW n \in Notifs, HandleRow(r, n)
        PROVE  StoreTypeOK' /\ QueueTypeOK' /\ ReconcilerTypeOK'
    <2>1. Target(rsweep[r]) \in RowStates
      BY DEF Target, RowStates, Statuses
    <2>2. StoreTypeOK'
      BY <1>3, <2>1 DEF HandleRow, UpdateStatus, StoreTypeOK, ReconcilerTypeOK
    <2> QED
      BY <1>3, <2>2 DEF HandleRow, Continue, queueVars, QueueTypeOK,
                        ReconcilerTypeOK
  <1>4. ASSUME NEW n \in Notifs, HandleRowConflict(r, n)
        PROVE  StoreTypeOK' /\ QueueTypeOK' /\ ReconcilerTypeOK'
    BY <1>4, PassType DEF HandleRowConflict, ConcurrentUpdate, storeVars,
                          queueVars, StoreTypeOK, QueueTypeOK
  <1>5. ASSUME NEW n \in Notifs, ReEnqueue(r, n)
        PROVE  StoreTypeOK' /\ QueueTypeOK' /\ ReconcilerTypeOK'
    BY <1>5, PassType DEF ReEnqueue, EnqueueAs, storeVars, StoreTypeOK,
                          QueueTypeOK, TaskStates
  <1>6. ASSUME NEW n \in Notifs, ReEnqueueConflict(r, n)
        PROVE  StoreTypeOK' /\ QueueTypeOK' /\ ReconcilerTypeOK'
    BY <1>6, PassType DEF ReEnqueueConflict, EnqueueRefused, storeVars,
                          queueVars, StoreTypeOK, QueueTypeOK
  <1>7. CASE ReconcilerFault(r)
    BY <1>7, PassType, StoreAssumption
    DEF ReconcilerFault, Fault, queueVars, StoreTypeOK, QueueTypeOK
  <1> QED BY <1>1, <1>2, <1>3, <1>4, <1>5, <1>6, <1>7 DEF ReconcilerStep

\* asynq's background work and the clock leave every variable in its type.
LEMMA TypeBackground == TypeInv /\ (QueueNext \/ ClockNext) => TypeInv'
  <1> SUFFICES ASSUME TypeInv, QueueNext \/ ClockNext PROVE TypeInv'
    OBVIOUS
  <1> USE DEF TypeInv, TypeOK
  <1>1. CASE QueueNext
    <2>1. QueueTypeOK'
      BY <1>1, FailedType
      DEF QueueNext, Forward, RecoverLease, QueueTypeOK, TaskStates
    <2>2. UNCHANGED <<storeVars, intakeVars, cancelVars, workerVars,
                      reconcilerVars>>
      BY <1>1 DEF QueueNext, RecoverLease
    <2> QED
      BY <2>1, <2>2
      DEF storeVars, intakeVars, cancelVars, workerVars, reconcilerVars,
          StoreTypeOK, IntakeTypeOK, CancelTypeOK, WorkerTypeOK,
          ReconcilerTypeOK, BusyHasTask
  <1>2. CASE ClockNext
    <2>1. StoreTypeOK'
      BY <1>2 DEF ClockNext, Time, GrowStale, ReachSchedule, StoreTypeOK,
                  Schedules
    <2>2. UNCHANGED <<queueVars, intakeVars, cancelVars, workerVars,
                      reconcilerVars>>
      BY <1>2 DEF ClockNext, Time
    <2> QED
      BY <2>1, <2>2
      DEF queueVars, intakeVars, cancelVars, workerVars, reconcilerVars,
          QueueTypeOK, IntakeTypeOK, CancelTypeOK, WorkerTypeOK,
          ReconcilerTypeOK, BusyHasTask
  <1> QED BY <1>1, <1>2

\* Every step of the pipeline preserves the types, a stuttering one included.
LEMMA TypeInvNext == TypeInv /\ [Next]_vars => TypeInv'
  <1> SUFFICES ASSUME TypeInv, [Next]_vars PROVE TypeInv'
    OBVIOUS
  <1>1. CASE Next
    BY <1>1, TypeIntake, TypeCancel, TypeWorker, TypeReconciler, TypeBackground
    DEF Next
  <1>2. CASE UNCHANGED vars
    BY <1>2
    DEF vars, storeVars, queueVars, intakeVars, cancelVars, workerVars,
        reconcilerVars, TypeInv, TypeOK, StoreTypeOK, QueueTypeOK, IntakeTypeOK,
        CancelTypeOK, WorkerTypeOK, ReconcilerTypeOK, BusyHasTask
  <1> QED BY <1>1, <1>2

\* The invariant itself, for the proofs below.
LEMMA TypeInvariant == Spec => []TypeInv
  BY TypeInvInit, TypeInvNext, PTL DEF Spec

\* Every variable of the pipeline keeps its type in every behaviour: no claim,
\* snapshot, retry counter or log ever holds a value outside its column.
THEOREM TypeCorrect == Spec => []TypeOK
  <1>1. TypeInv => TypeOK
    BY DEF TypeInv
  <1> QED BY <1>1, TypeInvariant, PTL

-----------------------------------------------------------------------------
\* What relates the rows and the workers.
CoreInv == /\ ExclusiveProcessing /\ ClaimHolds
           /\ AcksAgree /\ SendsAgree /\ FreshRows

\* What every step does to a row: a terminal status stays, and the attempts
\* of a row that stays open do not go down.
StatusStep ==
    \A n \in Notifs :
        /\ IsTerminal(status[n]) => status'[n] = status[n]
        /\ IsTerminal(status'[n]) \/ attempts'[n] >= attempts[n]

-----------------------------------------------------------------------------
(***************************************************************************)
(* Rows and workers                                                        *)
(***************************************************************************)

\* A worker that is not idle works on a row of the table.
LEMMA BusyRow ==
    ASSUME TypeInv, NEW w \in Workers, wpc[w] # "idle"
    PROVE  Row(w) \in Notifs
  BY TaskRow DEF TypeInv, BusyHasTask, Row

\* A step that touches neither rows nor workers.
LEMMA CoreFrame ==
    ASSUME CoreInv,
           UNCHANGED <<status, attempts, acks, sends, wpc, wtask, wattempts,
                       wresult>>
    PROVE  CoreInv'
  BY DEF CoreInv, ExclusiveProcessing, ClaimHolds, AcksAgree, SendsAgree,
         FreshRows, InFlight, BeforeSend, Row

\* INSERT: the new rows are nobody's.
LEMMA CoreInsert ==
    ASSUME TypeInv, CoreInv, UNCHANGED workerVars,
           NEW S \in SUBSET Notifs, NEW K, NEW at, Insert(S, K, at)
    PROVE  CoreInv'
  <1> USE DEF workerVars, Insert, InFlight, BeforeSend, Row
  <1>1. ExclusiveProcessing'
    BY DEF CoreInv, ExclusiveProcessing
  <1>2. \A w \in Workers : wpc[w] # "idle" => Row(w) \in Notifs
    BY BusyRow
  <1>3. ClaimHolds'
    BY <1>2 DEF CoreInv, ClaimHolds, TypeInv, TypeOK, StoreTypeOK
  <1>4. AcksAgree'
    BY DEF CoreInv, AcksAgree, TypeInv, TypeOK, StoreTypeOK
  <1>5. SendsAgree'
    BY DEF CoreInv, SendsAgree, TypeInv, TypeOK, StoreTypeOK
  <1>6. FreshRows'
    BY DEF CoreInv, FreshRows, TypeInv, TypeOK, StoreTypeOK
  <1> QED BY <1>1, <1>3, <1>4, <1>5, <1>6 DEF CoreInv

\* An UPDATE by anyone but a worker: a request queues a fresh row, an open row
\* that is not being processed is cancelled, or a sweep fails a stuck one.
LEMMA CoreUpdate ==
    ASSUME TypeInv, CoreInv, UNCHANGED workerVars,
           NEW n \in Notifs, NEW new, NEW att \in Nat, NEW expected,
           UpdateStatus(n, new, att, expected),
           \/ expected = "pending" /\ new = "queued" /\ att = 0
           \/ expected \in {"pending", "queued", "retrying"} /\ new = "cancelled"
           \/ expected = "processing" /\ new = "failed"
    PROVE  CoreInv'
  <1> USE DEF workerVars, UpdateStatus, InFlight, BeforeSend, Row
  <1>1. ExclusiveProcessing'
    BY DEF CoreInv, ExclusiveProcessing
  <1>2. \A w \in Workers : wpc[w] # "idle" => Row(w) \in Notifs
    BY BusyRow
  <1>3. ClaimHolds'
    BY <1>2 DEF CoreInv, ClaimHolds, TypeInv, TypeOK, StoreTypeOK
  <1>4. AcksAgree'
    BY DEF CoreInv, AcksAgree, TypeInv, TypeOK, StoreTypeOK
  <1>5. SendsAgree'
    BY DEF CoreInv, SendsAgree, TypeInv, TypeOK, StoreTypeOK
  <1>6. FreshRows'
    BY DEF CoreInv, FreshRows, TypeInv, TypeOK, StoreTypeOK
  <1> QED BY <1>1, <1>3, <1>4, <1>5, <1>6 DEF CoreInv

\* A worker that is done, dead or has not claimed yet: it holds no row.
LEMMA CoreIdle ==
    ASSUME CoreInv, NEW w \in Workers, TypeInv,
           UNCHANGED <<status, attempts, acks, sends>>,
           wpc'[w] \in {"idle", "claim"},
           \A v \in Workers \ {w} : /\ wpc'[v] = wpc[v]
                                    /\ wtask'[v] = wtask[v]
                                    /\ wattempts'[v] = wattempts[v]
                                    /\ wresult'[v] = wresult[v]
    PROVE  CoreInv'
  BY DEF CoreInv, ExclusiveProcessing, ClaimHolds, AcksAgree, SendsAgree,
         FreshRows, InFlight, BeforeSend, Row

\* The claim: the row was queued or retrying, so no other worker holds it, the
\* provider has not acknowledged it, and it has a call left.
LEMMA CoreClaim ==
    ASSUME TypeInv, CoreInv, NEW w \in Workers, Claim(w)
    PROVE  CoreInv'
  <1> USE DEF Claim, Step, ClaimForProcessing, Claimable, InFlight, BeforeSend,
              Row, CoreInv
  <1>1. \A v \in Workers : wpc[v] # "idle" => Row(v) \in Notifs
    BY BusyRow
  <1>2. ExclusiveProcessing'
    BY DEF ExclusiveProcessing, ClaimHolds, TypeInv, TypeOK, WorkerTypeOK
  <1>3. ClaimHolds'
    BY <1>1 DEF ClaimHolds, TypeInv, TypeOK, StoreTypeOK, WorkerTypeOK
  <1>4. AcksAgree'
    BY <1>1 DEF AcksAgree, TypeInv, TypeOK, StoreTypeOK, WorkerTypeOK
  <1>5. SendsAgree'
    BY <1>1, WorkerAssumption
    DEF SendsAgree, TypeInv, TypeOK, StoreTypeOK, WorkerTypeOK
  <1>6. FreshRows'
    BY DEF FreshRows, TypeInv, TypeOK, StoreTypeOK
  <1> QED BY <1>2, <1>3, <1>4, <1>5, <1>6

\* The steps up to the provider call, and a result without one.
LEMMA CoreProceed ==
    ASSUME TypeInv, CoreInv, NEW w \in Workers,
           RecordProcessing(w) \/ Allowed(w) \/ Denied(w) \/ ShortCircuit(w)
    PROVE  CoreInv'
  <1> USE DEF RecordProcessing, Allowed, Denied, ShortCircuit, Step, RecordEvent,
              AppendLog, storeVars, InFlight, BeforeSend, Row, CoreInv
  <1>1. ExclusiveProcessing'
    BY DEF ExclusiveProcessing, TypeInv, TypeOK, WorkerTypeOK
  <1>2. ClaimHolds'
    BY DEF ClaimHolds, TypeInv, TypeOK, WorkerTypeOK
  <1>3. AcksAgree'
    BY BusyRow DEF AcksAgree, TypeInv, TypeOK, WorkerTypeOK
  <1>4. SendsAgree'
    BY BusyRow DEF SendsAgree, TypeInv, TypeOK, WorkerTypeOK
  <1>5. FreshRows'
    BY DEF FreshRows
  <1> QED BY <1>1, <1>2, <1>3, <1>4, <1>5

\* The provider call: the worker is the only one holding the row, which is
\* processing or failed, not acknowledged, and has a call left.
LEMMA CoreSend ==
    ASSUME TypeInv, CoreInv, NEW w \in Workers,
           NEW r \in {"success", "permanent", "transient"}, Send(w, r)
    PROVE  CoreInv'
  <1> USE DEF Send, Step, storeVars, InFlight, BeforeSend, Row, CoreInv
  <1>1. \A v \in Workers : wpc[v] # "idle" => Row(v) \in Notifs
    BY BusyRow
  <1>2. ExclusiveProcessing'
    BY DEF ExclusiveProcessing, TypeInv, TypeOK, WorkerTypeOK
  <1>3. ClaimHolds'
    BY DEF ClaimHolds, TypeInv, TypeOK, WorkerTypeOK
  <1>4. AcksAgree'
    BY <1>1 DEF AcksAgree, ExclusiveProcessing, ClaimHolds, TypeInv, TypeOK,
                WorkerTypeOK
  <1>5. SendsAgree'
    BY <1>1, WorkerAssumption
    DEF SendsAgree, ExclusiveProcessing, ClaimHolds, TypeInv, TypeOK,
        WorkerTypeOK, StoreTypeOK
  <1>6. FreshRows'
    BY DEF FreshRows
  <1> QED BY <1>2, <1>3, <1>4, <1>5, <1>6

\* The outcome is written: it is delivered only when acknowledged, and retrying
\* only when not acknowledged and a call is left.
LEMMA CoreApply ==
    ASSUME TypeInv, CoreInv, NEW w \in Workers, ApplyResult(w)
    PROVE  CoreInv'
  <1> USE DEF ApplyResult, Step, UpdateStatus, InFlight, BeforeSend, Row, CoreInv
  <1>1. \A v \in Workers : wpc[v] # "idle" => Row(v) \in Notifs
    BY BusyRow
  <1>2. ExclusiveProcessing'
    BY DEF ExclusiveProcessing, TypeInv, TypeOK, WorkerTypeOK
  <1>3. ClaimHolds'
    BY <1>1 DEF ClaimHolds, ExclusiveProcessing, TypeInv, TypeOK, StoreTypeOK,
                WorkerTypeOK
  <1>4. AcksAgree'
    BY <1>1 DEF AcksAgree, Outcome, TypeInv, TypeOK, StoreTypeOK, WorkerTypeOK
  <1>5. SendsAgree'
    <2>1. Outcome(wresult[w], wattempts[w]) = "retrying"
            => sends[Row(w)] <= wattempts[w] /\ sends[Row(w)] < MaxAttempts
      BY <1>1, WorkerAssumption
      DEF SendsAgree, Outcome, Results, TypeInv, TypeOK, WorkerTypeOK
    <2> QED
      BY <1>1, <2>1, OutcomeType
      DEF SendsAgree, TypeInv, TypeOK, StoreTypeOK, WorkerTypeOK
  <1>6. FreshRows'
    BY OutcomeType DEF FreshRows, TypeInv, TypeOK, StoreTypeOK
  <1> QED BY <1>2, <1>3, <1>4, <1>5, <1>6

\* Rows and workers agree after every step of a request.
LEMMA CoreIntake == DeliveryInv /\ IntakeNext => CoreInv'
  <1> SUFFICES ASSUME DeliveryInv, IntakeNext PROVE CoreInv'
    OBVIOUS
  <1>0. TypeInv /\ CoreInv /\ UNCHANGED workerVars
    BY DEF DeliveryInv, CoreInv, IntakeNext
  <1>1. CASE IntakeArrival
    <2>1. PICK S \in SUBSET Notifs : \E K, at : Insert(S, K, at)
      BY <1>1 DEF IntakeArrival, CreateNotification, CreateBatch
    <2>2. PICK K, at : Insert(S, K, at)
      BY <2>1
    <2> QED BY <1>0, <2>2, CoreInsert
  <1>2. ASSUME NEW n \in Notifs, MarkQueued(n)
        PROVE  CoreInv'
    BY <1>0, <1>2, CoreUpdate DEF MarkQueued
  <1>3. ASSUME NEW n \in Notifs, IntakeStep(n) \/ IntakeFault(n), ~MarkQueued(n)
        PROVE  CoreInv'
    <2>1. UNCHANGED <<status, attempts>>
      BY <1>3 DEF IntakeStep, IntakeFault, RecordCreated, Enqueue,
                  EnqueueConflict, MarkQueuedConflict, RecordQueued, AppendLog,
                  ConcurrentUpdate, Fault, storeVars
    <2> QED BY <1>0, <2>1, CoreFrame DEF workerVars
  <1> QED BY <1>1, <1>2, <1>3 DEF IntakeNext

\* Rows and workers agree after every step of a cancellation.
LEMMA CoreCancel == DeliveryInv /\ CancelNext => CoreInv'
  <1> SUFFICES ASSUME DeliveryInv, NEW c \in Cancels,
                      CancelArrival(c) \/ CancelStep(c) \/ CancelFault(c),
                      UNCHANGED workerVars
               PROVE  CoreInv'
    BY DEF CancelNext
  <1>0. TypeInv /\ CoreInv
    BY DEF DeliveryInv, CoreInv
  <1>1. CASE CancelUpdate(c)
    <2>1. /\ cnotif[c] \in Notifs /\ cattempts[c] \in Nat
          /\ cstatus[c] \in {"pending", "queued", "retrying"}
      BY <1>1 DEF CancelUpdate, Goto, DeliveryInv, CancelCopies, CancelCopy,
                  TypeInv, TypeOK, CancelTypeOK
    <2> QED BY <1>0, <1>1, <2>1, CoreUpdate DEF CancelUpdate
  <1>2. CASE ~CancelUpdate(c)
    <2>1. UNCHANGED <<status, attempts>>
      BY <1>2 DEF CancelArrival, CancelStep, CancelFault, CancelGet,
                  CancelTooLate, CancelConflict, CancelLog, CancelDequeue,
                  CancelDequeueRefused, AppendLog, ConcurrentUpdate, Fault,
                  storeVars
    <2> QED BY <1>0, <2>1, CoreFrame DEF workerVars
  <1> QED BY <1>1, <1>2

\* Rows and workers agree after every step of a worker.
LEMMA CoreWorker == DeliveryInv /\ WorkerNext => CoreInv'
  <1> SUFFICES ASSUME DeliveryInv, NEW w \in Workers,
                      \/ \E t \in Tasks : Dequeue(w, t)
                      \/ WorkerStep(w) \/ WorkerFault(w)
               PROVE  CoreInv'
    BY DEF WorkerNext
  <1>0. TypeInv /\ CoreInv
    BY DEF DeliveryInv, CoreInv
  <1>1. CASE \E t \in Tasks : Dequeue(w, t)
    BY <1>0, <1>1, CoreIdle
    DEF Dequeue, storeVars, TypeInv, TypeOK, WorkerTypeOK
  <1>2. CASE Claim(w)
    BY <1>0, <1>2, CoreClaim
  <1>3. CASE RecordProcessing(w) \/ Allowed(w) \/ Denied(w) \/ ShortCircuit(w)
    BY <1>0, <1>3, CoreProceed
  <1>4. CASE \E r \in {"success", "permanent", "transient"} : Send(w, r)
    BY <1>0, <1>4, CoreSend
  <1>5. CASE ApplyResult(w)
    BY <1>0, <1>5, CoreApply
  <1>6. CASE \/ AlreadyClaimed(w) \/ ApplyConflict(w) \/ RecordOutcome(w)
             \/ HandlerFault(w) \/ Crash(w) \/ Shutdown(w)
    <2>1. Free(w) /\ UNCHANGED <<status, attempts, acks, sends>>
      BY <1>6 DEF AlreadyClaimed, ApplyConflict, RecordOutcome, HandlerFault,
                  Crash, Shutdown, Return, RecordEvent, AppendLog,
                  ConcurrentUpdate, Fault, storeVars
    <2> QED BY <1>0, <2>1, CoreIdle DEF Free, TypeInv, TypeOK, WorkerTypeOK
  <1>7. CASE LoseLease(w)
    BY <1>0, <1>7, CoreFrame DEF LoseLease, Fault
  <1> QED
    BY <1>1, <1>2, <1>3, <1>4, <1>5, <1>6, <1>7 DEF WorkerStep, WorkerFault

\* Rows and workers agree after every step of a reconciler.
LEMMA CoreReconciler == DeliveryInv /\ ReconcilerNext => CoreInv'
  <1> SUFFICES ASSUME DeliveryInv, NEW r \in Reconcilers,
                      ReconcilerStep(r) \/ ReconcilerFault(r),
                      UNCHANGED workerVars
               PROVE  CoreInv'
    BY DEF ReconcilerNext
  <1>0. TypeInv /\ CoreInv
    BY DEF DeliveryInv, CoreInv
  <1>1. ASSUME NEW n \in Notifs, HandleRow(r, n)
        PROVE  CoreInv'
    <2>1. /\ rattempts[r][n] \in Nat
          /\ rsweep[r] = "orphaned" => rattempts[r][n] = 0
      BY <1>1 DEF HandleRow, DeliveryInv, SweepCopies, SweepCopy, TypeInv,
                  TypeOK, ReconcilerTypeOK
    <2> QED BY <1>0, <1>1, <2>1, CoreUpdate DEF HandleRow, Source, Target
  <1>2. CASE ~(\E n \in Notifs : HandleRow(r, n))
    <2>1. UNCHANGED <<status, attempts>>
      BY <1>2 DEF ReconcilerStep, ReconcilerFault, Sweep, HandleRowConflict,
                  HandleLog, ReEnqueue, ReEnqueueConflict, AppendLog,
                  ConcurrentUpdate, Fault, storeVars
    <2> QED BY <1>0, <2>1, CoreFrame DEF workerVars
  <1> QED BY <1>1, <1>2

\* Rows and workers agree after every step of the pipeline.
LEMMA CoreNext == DeliveryInv /\ [Next]_vars => CoreInv'
  <1> SUFFICES ASSUME DeliveryInv, [Next]_vars PROVE CoreInv'
    OBVIOUS
  <1>0. CoreInv
    BY DEF DeliveryInv, CoreInv
  <1>1. CASE QueueNext \/ ClockNext \/ UNCHANGED vars
    <2>1. UNCHANGED <<status, attempts, workerVars>>
      BY <1>1 DEF QueueNext, RecoverLease, ClockNext, Time, GrowStale,
                  ReachSchedule, vars, storeVars
    <2> QED BY <1>0, <2>1, CoreFrame DEF workerVars
  <1> QED
    BY <1>1, CoreIntake, CoreCancel, CoreWorker, CoreReconciler DEF Next

-----------------------------------------------------------------------------
(***************************************************************************)
(* Copies of rows, and what is said about them                             *)
(***************************************************************************)

\* A conditional UPDATE whose guard is an open status.
LEMMA StatusUpdate ==
    ASSUME TypeInv, NEW n \in Notifs, NEW new, NEW att \in Nat, NEW expected,
           UpdateStatus(n, new, att, expected),
           ~IsTerminal(expected),
           IsTerminal(new) \/ att >= attempts[n]
    PROVE  StatusStep
  BY DEF UpdateStatus, StatusStep, TypeInv, TypeOK, StoreTypeOK

\* No step takes a row out of a terminal status or an attempt from an open row.
LEMMA StatusStepHolds == DeliveryInv /\ [Next]_vars => StatusStep
  <1> SUFFICES ASSUME DeliveryInv, [Next]_vars PROVE StatusStep
    OBVIOUS
  <1>0. TypeInv
    BY DEF DeliveryInv
  <1>1. ASSUME UNCHANGED <<status, attempts>> PROVE StatusStep
    BY <1>0, <1>1 DEF StatusStep, TypeInv, TypeOK, StoreTypeOK
  <1>2. CASE IntakeNext
    <2>1. ASSUME NEW S \in SUBSET Notifs, NEW K, NEW at, Insert(S, K, at)
          PROVE  StatusStep
      BY <1>0, <2>1 DEF Insert, StatusStep, IsTerminal, TypeInv, TypeOK,
                        StoreTypeOK
    <2>2. CASE IntakeArrival
      BY <2>1, <2>2 DEF IntakeArrival, CreateNotification, CreateBatch
    <2>3. ASSUME NEW n \in Notifs, MarkQueued(n)
          PROVE  StatusStep
      <3>1. attempts[n] = 0
        BY <2>3 DEF MarkQueued, UpdateStatus, DeliveryInv, FreshRows
      <3> QED BY <1>0, <2>3, <3>1, StatusUpdate DEF MarkQueued, IsTerminal
    <2>4. ASSUME NEW n \in Notifs, IntakeStep(n) \/ IntakeFault(n), ~MarkQueued(n)
          PROVE  StatusStep
      BY <1>1, <2>4 DEF IntakeStep, IntakeFault, RecordCreated, Enqueue,
                        EnqueueConflict, MarkQueuedConflict, RecordQueued,
                        AppendLog, ConcurrentUpdate, Fault, storeVars
    <2> QED BY <1>2, <2>2, <2>3, <2>4 DEF IntakeNext
  <1>3. CASE CancelNext
    <2> PICK c \in Cancels : CancelArrival(c) \/ CancelStep(c) \/ CancelFault(c)
      BY <1>3 DEF CancelNext
    <2>1. CASE CancelUpdate(c)
      <3>1. /\ cnotif[c] \in Notifs /\ cattempts[c] \in Nat
            /\ cstatus[c] \in {"pending", "queued", "retrying"}
        BY <2>1 DEF CancelUpdate, Goto, DeliveryInv, CancelCopies, CancelCopy,
                    TypeInv, TypeOK, CancelTypeOK
      <3> QED BY <1>0, <2>1, <3>1, StatusUpdate DEF CancelUpdate, IsTerminal
    <2>2. CASE ~CancelUpdate(c)
      BY <1>1, <2>2 DEF CancelArrival, CancelStep, CancelFault, CancelGet,
                        CancelTooLate, CancelConflict, CancelLog, CancelDequeue,
                        CancelDequeueRefused, AppendLog, ConcurrentUpdate,
                        Fault, storeVars
    <2> QED BY <2>1, <2>2
  <1>4. CASE WorkerNext
    <2> PICK w \in Workers : \/ \E t \in Tasks : Dequeue(w, t)
                             \/ WorkerStep(w) \/ WorkerFault(w)
      BY <1>4 DEF WorkerNext
    <2>1. CASE Claim(w)
      BY <1>0, <2>1 DEF Claim, ClaimForProcessing, Claimable, StatusStep,
                        IsTerminal, TypeInv, TypeOK, StoreTypeOK
    <2>2. CASE ApplyResult(w)
      <3>1. Row(w) \in Notifs /\ wattempts[w] \in Nat
        BY <1>0, <2>2, BusyRow DEF ApplyResult, Step, TypeInv, TypeOK, WorkerTypeOK
      <3>2. attempts[Row(w)] = wattempts[w]
        BY <2>2 DEF ApplyResult, Step, UpdateStatus, DeliveryInv, ClaimHolds,
                    InFlight
      <3> QED
        BY <1>0, <2>2, <3>1, <3>2, StatusUpdate DEF ApplyResult, IsTerminal
    <2>3. CASE ~Claim(w) /\ ~ApplyResult(w)
      BY <1>1, <2>3 DEF Dequeue, WorkerStep, WorkerFault, AlreadyClaimed,
                        RecordProcessing, RecordEvent, AppendLog, Allowed,
                        Denied, Send, ShortCircuit, ApplyConflict,
                        ConcurrentUpdate, RecordOutcome, HandlerFault, Crash,
                        Shutdown, LoseLease, Fault, storeVars
    <2> QED BY <2>1, <2>2, <2>3
  <1>5. CASE ReconcilerNext
    <2> PICK r \in Reconcilers : ReconcilerStep(r) \/ ReconcilerFault(r)
      BY <1>5 DEF ReconcilerNext
    <2>1. ASSUME NEW n \in Notifs, HandleRow(r, n)
          PROVE  StatusStep
      <3>1. rattempts[r][n] \in Nat
        BY DEF DeliveryInv, TypeInv, TypeOK, ReconcilerTypeOK
      <3>2. CASE rsweep[r] = "orphaned"
        <4>1. attempts[n] = 0
          BY <2>1, <3>2 DEF HandleRow, UpdateStatus, Source, DeliveryInv, FreshRows
        <4> QED
          BY <1>0, <2>1, <3>1, <3>2, <4>1, StatusUpdate
          DEF HandleRow, Source, IsTerminal
      <3>3. CASE rsweep[r] = "stuck"
        BY <1>0, <2>1, <3>1, <3>3, StatusUpdate
        DEF HandleRow, Source, Target, IsTerminal
      <3> QED BY <2>1, <3>2, <3>3 DEF HandleRow
    <2>2. CASE ~(\E n \in Notifs : HandleRow(r, n))
      BY <1>1, <2>2 DEF ReconcilerStep, ReconcilerFault, Sweep,
                        HandleRowConflict, HandleLog, ReEnqueue,
                        ReEnqueueConflict, AppendLog, ConcurrentUpdate, Fault,
                        storeVars
    <2> QED BY <2>1, <2>2
  <1>6. CASE QueueNext \/ ClockNext \/ UNCHANGED vars
    BY <1>1, <1>6 DEF QueueNext, RecoverLease, ClockNext, Time, GrowStale,
                      ReachSchedule, vars, storeVars
  <1> QED BY <1>2, <1>3, <1>4, <1>5, <1>6 DEF Next

\* What can be cancelled.
LEMMA Cancellable ==
    ASSUME NEW s, CanTransitionTo(s, "cancelled")
    PROVE  s \in {"pending", "queued", "retrying"}
  BY DEF CanTransitionTo, ValidTransitions, Statuses

\* Cancellations keep what they rely on, whoever moves.
LEMMA CopiesCancel == DeliveryInv /\ [Next]_vars => CancelCopies'
  <1> SUFFICES ASSUME DeliveryInv, [Next]_vars PROVE CancelCopies'
    OBVIOUS
  <1>0. TypeInv /\ TypeInv' /\ StatusStep /\ CancelCopies
    BY TypeInvNext, StatusStepHolds DEF DeliveryInv
  <1>1. ASSUME NEW c \in Cancels,
               cpc'[c] = cpc[c], cnotif'[c] = cnotif[c], cstatus'[c] = cstatus[c],
               cattempts'[c] = cattempts[c]
        PROVE  CancelCopy(c)'
    <2>1. cattempts[c] \in Nat
      BY <1>0 DEF TypeInv, TypeOK, CancelTypeOK
    <2>2. \A n \in Notifs : attempts[n] \in Nat /\ attempts'[n] \in Nat
      BY <1>0 DEF TypeInv, TypeOK, StoreTypeOK
    <2> QED BY <1>0, <1>1, <2>1, <2>2 DEF CancelCopies, CancelCopy, StatusStep, IsTerminal
  <1>2. CASE UNCHANGED cancelVars
    BY <1>1, <1>2 DEF CancelCopies, cancelVars
  <1>3. CASE CancelNext
    <2> PICK c \in Cancels : CancelArrival(c) \/ CancelStep(c) \/ CancelFault(c)
      BY <1>3 DEF CancelNext
    <2>1. \A d \in Cancels \ {c} :
             /\ cpc'[d] = cpc[d] /\ cnotif'[d] = cnotif[d]
             /\ cstatus'[d] = cstatus[d] /\ cattempts'[d] = cattempts[d]
      BY <1>0 DEF CancelArrival, CancelStep, CancelFault, CancelGet,
                  CancelTooLate, CancelUpdate, CancelConflict, CancelLog,
                  CancelDequeue, CancelDequeueRefused, Goto, Answer, TypeInv,
                  TypeOK, CancelTypeOK
    <2>2. CancelCopy(c)'
      <3>1. ASSUME NEW n \in Notifs, CancelGet(c, n)
            PROVE  /\ cpc'[c] = "update" /\ cnotif'[c] = n
                   /\ cstatus'[c] \in {"pending", "queued", "retrying"}
                   /\ cattempts'[c] <= attempts'[n]
        BY <1>0, <3>1, Cancellable
        DEF CancelGet, storeVars, TypeInv, TypeOK, CancelTypeOK, StoreTypeOK
      <3>2. CASE CancelUpdate(c)
        BY <1>0, <3>2 DEF CancelUpdate, Goto, UpdateStatus, CancelCopies,
                          CancelCopy, IsTerminal, TypeInv, TypeOK, CancelTypeOK, StoreTypeOK
      <3>3. CASE CancelLog(c)
        BY <1>0, <3>3 DEF CancelLog, Goto, AppendLog, CancelCopies, CancelCopy,
                          TypeInv, TypeOK, CancelTypeOK
      <3>4. CASE \/ \E n \in Notifs : CancelTooLate(c, n)
                 \/ CancelConflict(c) \/ CancelDequeue(c)
                 \/ CancelDequeueRefused(c) \/ CancelFault(c)
        BY <1>0, <3>4 DEF CancelTooLate, CancelConflict, CancelDequeue,
                          CancelDequeueRefused, CancelFault, Answer, CancelCopy,
                          TypeInv, TypeOK, CancelTypeOK
      <3>5. CASE \E n \in Notifs : CancelGet(c, n)
        BY <3>1, <3>5 DEF CancelCopy
      <3> QED BY <3>2, <3>3, <3>4, <3>5 DEF CancelArrival, CancelStep
    <2> QED BY <1>1, <2>1, <2>2 DEF CancelCopies
  <1>4. CASE ~CancelNext
    BY <1>2, <1>4
    DEF Next, IntakeNext, WorkerNext, ReconcilerNext, QueueNext, ClockNext, Time,
        vars
  <1> QED BY <1>3, <1>4

\* Reconcilers keep what they rely on, whoever moves.
LEMMA CopiesSweep == DeliveryInv /\ [Next]_vars => SweepCopies'
  <1> SUFFICES ASSUME DeliveryInv, [Next]_vars PROVE SweepCopies'
    OBVIOUS
  <1>0. TypeInv /\ TypeInv' /\ StatusStep /\ SweepCopies /\ FreshRows
    BY TypeInvNext, StatusStepHolds DEF DeliveryInv
  <1>1. \A n \in Notifs : attempts[n] \in Nat /\ attempts'[n] \in Nat
    BY <1>0 DEF TypeInv, TypeOK, StoreTypeOK
  <1>2. \A r \in Reconcilers : /\ rwork[r] \subseteq Notifs
                               /\ \A n \in Notifs : rattempts[r][n] \in Nat
    BY <1>0 DEF TypeInv, TypeOK, ReconcilerTypeOK
  <1>3. ASSUME NEW r \in Reconcilers,
               rsweep'[r] = rsweep[r], rwork'[r] = rwork[r],
               rattempts'[r] = rattempts[r], rcurrent'[r] = rcurrent[r],
               rstep'[r] = rstep[r]
        PROVE  SweepCopy(r)'
    BY <1>0, <1>1, <1>2, <1>3 DEF SweepCopies, SweepCopy, StatusStep, IsTerminal
  <1>4. CASE UNCHANGED reconcilerVars
    BY <1>3, <1>4 DEF SweepCopies, reconcilerVars
  <1>5. CASE ReconcilerNext
    <2> PICK r \in Reconcilers : ReconcilerStep(r) \/ ReconcilerFault(r)
      BY <1>5 DEF ReconcilerNext
    <2> USE DEF TypeInv, TypeOK, ReconcilerTypeOK
    <2>1. \A q \in Reconcilers \ {r} :
             /\ rsweep'[q] = rsweep[q] /\ rwork'[q] = rwork[q]
             /\ rattempts'[q] = rattempts[q] /\ rcurrent'[q] = rcurrent[q]
             /\ rstep'[q] = rstep[q]
      BY <1>0 DEF ReconcilerStep, ReconcilerFault, Sweep, HandleLog, HandleRow,
                  HandleRowConflict, ReEnqueue, ReEnqueueConflict, Continue,
                  Finish, AbortPass
    <2>2. ASSUME Sweep(r) PROVE SweepCopy(r)'
      <3>1. rstep'[r] = "next" /\ UNCHANGED <<status, attempts>>
        BY <1>0, <2>2 DEF Sweep, storeVars
      <3>2. /\ rwork'[r] = Find(rsweep'[r])
            /\ \A n \in rwork'[r] : rattempts'[r][n] = attempts[n]
        BY <1>0, <2>2, FindType DEF Sweep
      <3>3. rsweep'[r] = "orphaned" => \A n \in rwork'[r] : attempts[n] = 0
        BY <1>0, <3>2 DEF Find, FindOrphanedPending, FreshRows, StoreTypeOK
      <3>4. rwork'[r] \subseteq Notifs
        BY <1>0
      <3> QED BY <1>1, <3>1, <3>2, <3>3, <3>4 DEF SweepCopy
    <2>3. ASSUME NEW n, AbortPass(r) \/ Finish(r, n), UNCHANGED <<status, attempts>>
          PROVE  SweepCopy(r)'
      <3>1. CASE AbortPass(r)
        BY <1>0, <3>1 DEF AbortPass, SweepCopy
      <3>2. CASE Finish(r, n)
        <4>1. /\ rwork'[r] = rwork[r] \ {n} /\ rstep'[r] = "next"
              /\ rsweep'[r] = rsweep[r]
              /\ \A m \in rwork[r] \ {n} : rattempts'[r][m] = rattempts[r][m]
          BY <1>0, <1>2, <3>2 DEF Finish
        <4> QED BY <1>0, <2>3, <4>1 DEF SweepCopies, SweepCopy
      <3> QED BY <2>3, <3>1, <3>2
    <2>4. ASSUME NEW n \in Notifs, HandleRow(r, n)
          PROVE  SweepCopy(r)'
      <3>1. /\ rsweep'[r] = rsweep[r] /\ rwork'[r] = rwork[r]
            /\ rattempts'[r] = rattempts[r] /\ rcurrent'[r] = n
            /\ rsweep[r] \in {"orphaned", "stuck"}
            /\ rsweep[r] = "stuck" => status'[n] = "failed"
        BY <1>0, <2>4 DEF HandleRow, Continue, UpdateStatus, Target, StoreTypeOK
      <3>2. \A m \in rwork[r] : /\ IsTerminal(status'[m])
                                    \/ rattempts[r][m] <= attempts'[m]
                                /\ rsweep[r] = "orphaned" => rattempts[r][m] = 0
        <4> TAKE m \in rwork[r]
        <4>1. /\ m \in Notifs
              /\ IsTerminal(status[m]) \/ rattempts[r][m] <= attempts[m]
              /\ rsweep[r] = "orphaned" => rattempts[r][m] = 0
          BY <1>0, <1>2 DEF SweepCopies, SweepCopy
        <4> QED BY <1>0, <1>1, <1>2, <4>1 DEF StatusStep
      <3> QED BY <3>1, <3>2 DEF SweepCopy
    <2>5. ASSUME HandleLog(r) PROVE SweepCopy(r)'
      <3>1. UNCHANGED <<status, attempts>>
        BY <2>5 DEF HandleLog, AppendLog
      <3>2. CASE Finish(r, rcurrent[r])
        BY <2>3, <3>1, <3>2
      <3>3. CASE Continue(r, rcurrent[r], "enqueue")
        BY <1>0, <3>1, <3>3 DEF Continue, SweepCopies, SweepCopy
      <3> QED BY <2>5, <3>2, <3>3 DEF HandleLog
    <2>6. ASSUME \/ \E n \in Notifs : \/ HandleRowConflict(r, n)
                                      \/ ReEnqueue(r, n)
                                      \/ ReEnqueueConflict(r, n)
                 \/ ReconcilerFault(r)
          PROVE  SweepCopy(r)'
      BY <2>3, <2>6 DEF HandleRowConflict, ConcurrentUpdate, ReEnqueue,
                        ReEnqueueConflict, ReconcilerFault, Fault, storeVars
    <2>7. SweepCopy(r)'
      BY <2>2, <2>4, <2>5, <2>6 DEF ReconcilerStep
    <2> QED BY <1>3, <2>1, <2>7 DEF SweepCopies
  <1>6. CASE ~ReconcilerNext
    BY <1>4, <1>6
    DEF Next, IntakeNext, CancelNext, WorkerNext, QueueNext, ClockNext, Time, vars
  <1> QED BY <1>5, <1>6

\* A terminal outcome stays written while its worker is about to record it.
LEMMA OutcomeStays == DeliveryInv /\ [Next]_vars => OutcomeWritten'
  <1> SUFFICES ASSUME DeliveryInv, [Next]_vars, NEW w \in Workers,
                      wpc'[w] = "outcome",
                      Outcome(wresult'[w], wattempts'[w]) # "retrying"
               PROVE  status'[wtask'[w][1]] = Outcome(wresult'[w], wattempts'[w])
    BY DEF OutcomeWritten, Row, Outcome
  <1>0. TypeInv /\ StatusStep /\ OutcomeWritten
    BY StatusStepHolds DEF DeliveryInv
  <1>1. CASE ApplyResult(w)
    <2>1. Row(w) \in Notifs
      BY <1>0, <1>1, BusyRow DEF ApplyResult, Step
    <2> QED BY <1>0, <1>1, <2>1 DEF ApplyResult, Step, UpdateStatus, Row, TypeInv,
                                    TypeOK, StoreTypeOK
  <1>2. CASE ~ApplyResult(w)
    <2>1. /\ wpc[w] = "outcome" /\ wtask'[w] = wtask[w]
          /\ wresult'[w] = wresult[w] /\ wattempts'[w] = wattempts[w]
      <3> USE DEF TypeInv, TypeOK, WorkerTypeOK
      <3>1. CASE WorkerNext
        <4> PICK v \in Workers : \/ \E t \in Tasks : Dequeue(v, t)
                                 \/ WorkerStep(v) \/ WorkerFault(v)
          BY <3>1 DEF WorkerNext
        <4> QED
          BY <1>0, <1>2 DEF Dequeue, WorkerStep, WorkerFault, Claim, AlreadyClaimed,
             RecordProcessing, Allowed, Denied, Send, ShortCircuit, ApplyResult,
             ApplyConflict, RecordOutcome, HandlerFault, Crash, Shutdown,
             LoseLease, Return, Free, Step
      <3>2. CASE UNCHANGED workerVars
        BY <3>2 DEF workerVars
      <3> QED
        BY <3>1, <3>2 DEF Next, IntakeNext, CancelNext, ReconcilerNext, QueueNext,
                          RecoverLease, ClockNext, Time, vars
    <2>2. Row(w) \in Notifs
      BY <1>0, <2>1, BusyRow
    <2>3. status[Row(w)] = Outcome(wresult[w], wattempts[w])
      BY <1>0, <2>1 DEF OutcomeWritten
    <2>4. IsTerminal(status[Row(w)])
      BY <2>1, <2>3, OutcomeType DEF IsTerminal
    <2> QED BY <1>0, <2>1, <2>2, <2>3, <2>4 DEF StatusStep, Row
  <1> QED BY <1>1, <1>2

\* What is said of a row stays true when what is added to it is true.
LEMMA TruthKept ==
    ASSUME OutcomesTruthful, StatusStep,
           \A n \in Notifs, s \in {"delivered", "failed", "cancelled"} :
               s \in log'[n] \/ feed'[n] = s =>
                   s \in log[n] \/ feed[n] = s \/ status'[n] = s
    PROVE  OutcomesTruthful'
  BY DEF OutcomesTruthful, StatusStep, IsTerminal

\* Nobody records or publishes an outcome that is not the row's.
LEMMA TruthNext == DeliveryInv /\ [Next]_vars => OutcomesTruthful'
  <1> SUFFICES ASSUME DeliveryInv, [Next]_vars,
                      NEW n \in Notifs,
                      NEW s \in {"delivered", "failed", "cancelled"},
                      s \in log'[n] \/ feed'[n] = s,
                      s \notin log[n], feed[n] # s
               PROVE  status'[n] = s
    BY StatusStepHolds, TruthKept DEF DeliveryInv
  <1>0. TypeInv /\ CancelCopies /\ SweepCopies /\ OutcomeWritten
    BY DEF DeliveryInv
  <1> USE DEF TypeInv, TypeOK, StoreTypeOK, AppendLog
  <1>1. CASE UNCHANGED <<log, feed>>
    BY <1>1
  <1>2. CASE IntakeNext
    <2>1. feed' = feed
      BY <1>2 DEF IntakeNext, workerVars
    <2>2. s \notin log'[n]
      BY <1>0, <1>2 DEF IntakeNext, IntakeArrival, CreateNotification, CreateBatch,
         Insert, IntakeStep, IntakeFault, RecordCreated, Enqueue, EnqueueConflict,
         MarkQueued, UpdateStatus, MarkQueuedConflict, ConcurrentUpdate,
         RecordQueued, storeVars
    <2> QED BY <2>1, <2>2
  <1>3. CASE CancelNext
    <2> PICK c \in Cancels : CancelArrival(c) \/ CancelStep(c) \/ CancelFault(c)
      BY <1>3 DEF CancelNext
    <2>1. CASE CancelLog(c)
      BY <1>0, <1>3, <2>1 DEF CancelNext, CancelLog, Goto, CancelCopies, CancelCopy,
                              workerVars
    <2>2. CASE ~CancelLog(c)
      BY <1>1, <1>3, <2>2 DEF CancelNext, workerVars, CancelArrival, CancelStep,
         CancelFault, CancelGet, CancelTooLate, CancelUpdate, UpdateStatus,
         CancelConflict, ConcurrentUpdate, CancelDequeue, CancelDequeueRefused,
         storeVars
    <2> QED BY <2>1, <2>2
  <1>4. CASE WorkerNext
    <2> PICK w \in Workers : \/ \E t \in Tasks : Dequeue(w, t)
                             \/ WorkerStep(w) \/ WorkerFault(w)
      BY <1>4 DEF WorkerNext
    <2>1. feed \in [Notifs -> RowStates]
      BY <1>0 DEF WorkerTypeOK
    <2>2. CASE RecordProcessing(w)
      BY <1>0, <2>1, <2>2 DEF RecordProcessing, RecordEvent
    <2>3. CASE RecordOutcome(w)
      <3>1. Row(w) = n /\ s = Outcome(wresult[w], wattempts[w])
        BY <1>0, <2>1, <2>3 DEF RecordOutcome, RecordEvent
      <3> QED
        BY <1>0, <2>3, <3>1 DEF RecordOutcome, RecordEvent, OutcomeWritten
    <2>4. CASE HandlerFault(w)
      <3>1. s \in log'[n] /\ Row(w) = n /\ s \in EventAt(w)
        BY <1>0, <2>4 DEF HandlerFault
      <3>2. wpc[w] = "outcome" /\ s = Outcome(wresult[w], wattempts[w])
        BY <3>1 DEF EventAt
      <3> QED
        BY <1>0, <2>4, <3>1, <3>2 DEF HandlerFault, Fault, OutcomeWritten
    <2>5. CASE ~RecordProcessing(w) /\ ~RecordOutcome(w) /\ ~HandlerFault(w)
      BY <1>1, <2>5 DEF Dequeue, WorkerStep, WorkerFault, Claim,
         ClaimForProcessing, AlreadyClaimed, Allowed, Denied, Send, ShortCircuit,
         ApplyResult, UpdateStatus, ApplyConflict, ConcurrentUpdate, Crash,
         Shutdown, LoseLease, storeVars
    <2> QED BY <2>2, <2>3, <2>4, <2>5
  <1>5. CASE ReconcilerNext
    <2> PICK r \in Reconcilers : ReconcilerStep(r) \/ ReconcilerFault(r)
      BY <1>5 DEF ReconcilerNext
    <2>1. CASE HandleLog(r)
      <3>1. rcurrent[r] = n /\ s = Target(rsweep[r]) /\ status' = status
        BY <1>0, <1>5, <2>1 DEF HandleLog, ReconcilerNext, workerVars
      <3>2. rsweep[r] = "stuck" /\ s = "failed"
        BY <1>0, <2>1, <3>1 DEF HandleLog, Target, SweepCopies, SweepCopy
      <3> QED BY <1>0, <2>1, <3>1, <3>2 DEF HandleLog, SweepCopies, SweepCopy
    <2>2. CASE ~HandleLog(r)
      BY <1>1, <1>5, <2>2 DEF ReconcilerNext, workerVars, ReconcilerStep,
         ReconcilerFault, Sweep, HandleRow, UpdateStatus, HandleRowConflict,
         ConcurrentUpdate, ReEnqueue, ReEnqueueConflict, storeVars
    <2> QED BY <2>1, <2>2
  <1>6. CASE QueueNext \/ ClockNext \/ UNCHANGED vars
    BY <1>1, <1>6 DEF QueueNext, RecoverLease, ClockNext, Time, GrowStale,
                      ReachSchedule, vars, storeVars, workerVars
  <1> QED BY <1>2, <1>3, <1>4, <1>5, <1>6 DEF Next

-----------------------------------------------------------------------------
(***************************************************************************)
(* Requests and their rows                                                 *)
(***************************************************************************)

\* What a step does to a row: an INSERT, one of the two ways into the queue, an
\* end, a claim, or the result of an attempt.
RowStep(n) ==
    \/ status'[n] = status[n] /\ attempts'[n] = attempts[n]
    \/ /\ status[n] = "absent" /\ status'[n] = "pending" /\ attempts'[n] = attempts[n]
       /\ IntakeArrival
    \/ /\ status[n] = "pending" /\ status'[n] = "queued" /\ attempts'[n] = attempts[n]
       /\ ipc' = ipc \/ MarkQueued(n)
    \/ /\ status[n] \in {"pending", "queued", "retrying"} /\ status'[n] = "cancelled"
       /\ ipc' = ipc
    \/ status[n] = "processing" /\ status'[n] = "failed" /\ ipc' = ipc
    \/ \E w \in Workers : wpc[w] # "idle" /\ Row(w) = n /\ Claim(w) /\ ipc' = ipc
    \/ \E w \in Workers : wpc[w] # "idle" /\ Row(w) = n /\ ApplyResult(w) /\ ipc' = ipc

\* A row that an action does not write.
LEMMA RowSame ==
    ASSUME UNCHANGED <<status, attempts>>
    PROVE  \A n \in Notifs : RowStep(n)
  BY DEF RowStep

\* A conditional UPDATE writes its row and no other.
LEMMA RowUpdate ==
    ASSUME TypeInv, NEW n \in Notifs, NEW new, NEW att, NEW expected,
           UpdateStatus(n, new, att, expected)
    PROVE  /\ status[n] = expected /\ status'[n] = new /\ attempts'[n] = att
           /\ \A m \in Notifs : m # n => RowStep(m)
  BY DEF UpdateStatus, RowStep, TypeInv, TypeOK, StoreTypeOK

\* Every step does one of these to each row.
LEMMA RowStepHolds ==
    ASSUME DeliveryInv, [Next]_vars
    PROVE  \A n \in Notifs : RowStep(n)
  <1>0. TypeInv
    BY DEF DeliveryInv
  <1>1. CASE IntakeNext
    <2>1. ASSUME NEW S \in SUBSET Notifs, NEW K, NEW at, Insert(S, K, at), IntakeArrival
          PROVE  \A n \in Notifs : RowStep(n)
      BY <1>0, <2>1 DEF Insert, RowStep, TypeInv, TypeOK, StoreTypeOK
    <2>2. CASE IntakeArrival
      BY <2>1, <2>2 DEF IntakeArrival, CreateNotification, CreateBatch
    <2>3. ASSUME NEW n \in Notifs, MarkQueued(n) PROVE \A m \in Notifs : RowStep(m)
      <3>1. UpdateStatus(n, "queued", 0, "pending")
        BY <2>3 DEF MarkQueued
      <3>2. attempts[n] = 0
        BY <3>1 DEF UpdateStatus, DeliveryInv, FreshRows
      <3>3. RowStep(n)
        BY <1>0, <2>3, <3>1, <3>2, RowUpdate DEF RowStep
      <3> QED BY <1>0, <3>1, <3>3, RowUpdate
    <2>4. ASSUME NEW n \in Notifs, IntakeStep(n) \/ IntakeFault(n), ~MarkQueued(n)
          PROVE  UNCHANGED <<status, attempts>>
      BY <2>4 DEF IntakeStep, IntakeFault, RecordCreated, Enqueue,
                  EnqueueConflict, MarkQueuedConflict, RecordQueued,
                  AppendLog, ConcurrentUpdate, Fault, storeVars
    <2> QED BY <1>1, <2>2, <2>3, <2>4, RowSame DEF IntakeNext
  <1>2. CASE CancelNext
    <2> PICK c \in Cancels : CancelArrival(c) \/ CancelStep(c) \/ CancelFault(c)
      BY <1>2 DEF CancelNext
    <2>1. CASE CancelUpdate(c)
      <3>1. /\ cnotif[c] \in Notifs
            /\ cstatus[c] \in {"pending", "queued", "retrying"}
            /\ UpdateStatus(cnotif[c], "cancelled", cattempts[c], cstatus[c])
            /\ ipc' = ipc
        BY <1>2, <2>1 DEF CancelUpdate, Goto, DeliveryInv, CancelCopies, CancelCopy,
                          CancelNext, intakeVars
      <3>2. RowStep(cnotif[c])
        BY <1>0, <3>1, RowUpdate DEF RowStep
      <3> QED BY <1>0, <3>1, <3>2, RowUpdate
    <2>2. CASE ~CancelUpdate(c)
      BY <2>2, RowSame DEF CancelArrival, CancelStep, CancelFault, CancelGet,
                  CancelTooLate, CancelConflict, CancelLog, CancelDequeue,
                  CancelDequeueRefused, AppendLog, ConcurrentUpdate,
                  Fault, storeVars
    <2> QED BY <2>1, <2>2
  <1>3. CASE WorkerNext
    <2> PICK w \in Workers : \/ \E t \in Tasks : Dequeue(w, t)
                             \/ WorkerStep(w) \/ WorkerFault(w)
      BY <1>3 DEF WorkerNext
    <2>0. ipc' = ipc
      BY <1>3 DEF WorkerNext, intakeVars
    <2>1. CASE Claim(w)
      <3>1. wpc[w] # "idle" /\ RowStep(Row(w))
        BY <2>0, <2>1 DEF Claim, Step, RowStep
      <3>2. \A m \in Notifs : m # Row(w) => RowStep(m)
        BY <1>0, <2>1 DEF Claim, ClaimForProcessing, RowStep, TypeInv, TypeOK, StoreTypeOK
      <3> QED BY <3>1, <3>2
    <2>2. CASE ApplyResult(w)
      <3>1. wpc[w] # "idle" /\ RowStep(Row(w))
        BY <2>0, <2>2 DEF ApplyResult, Step, RowStep
      <3>2. Row(w) \in Notifs
        BY <1>0, <3>1, BusyRow
      <3> QED BY <1>0, <2>2, <3>1, <3>2, RowUpdate DEF ApplyResult
    <2>3. CASE ~Claim(w) /\ ~ApplyResult(w)
      BY <2>3, RowSame DEF Dequeue, WorkerStep, WorkerFault, AlreadyClaimed,
                  RecordProcessing, RecordEvent, AppendLog, Allowed,
                  Denied, Send, ShortCircuit, ApplyConflict,
                  ConcurrentUpdate, RecordOutcome, HandlerFault, Crash,
                  Shutdown, LoseLease, Fault, storeVars
    <2> QED BY <2>1, <2>2, <2>3
  <1>4. CASE ReconcilerNext
    <2> PICK r \in Reconcilers : ReconcilerStep(r) \/ ReconcilerFault(r)
      BY <1>4 DEF ReconcilerNext
    <2>0. ipc' = ipc
      BY <1>4 DEF ReconcilerNext, intakeVars
    <2>1. ASSUME NEW n \in Notifs, HandleRow(r, n) PROVE \A m \in Notifs : RowStep(m)
      <3>1. CASE rsweep[r] = "orphaned"
        <4>1. UpdateStatus(n, "queued", rattempts[r][n], "pending")
          BY <2>1, <3>1 DEF HandleRow, Source, Target
        <4>2. attempts[n] = 0 /\ rattempts[r][n] = 0
          BY <2>1, <3>1, <4>1 DEF HandleRow, UpdateStatus, DeliveryInv, FreshRows,
                                  SweepCopies, SweepCopy
        <4>3. RowStep(n)
          BY <1>0, <2>0, <4>1, <4>2, RowUpdate DEF RowStep
        <4> QED BY <1>0, <4>1, <4>3, RowUpdate
      <3>2. CASE rsweep[r] = "stuck"
        <4>1. UpdateStatus(n, "failed", rattempts[r][n], "processing")
          BY <2>1, <3>2 DEF HandleRow, Source, Target
        <4>2. RowStep(n)
          BY <1>0, <2>0, <4>1, RowUpdate DEF RowStep
        <4> QED BY <1>0, <4>1, <4>2, RowUpdate
      <3> QED BY <2>1, <3>1, <3>2 DEF HandleRow
    <2>2. CASE ~(\E n \in Notifs : HandleRow(r, n))
      BY <2>2, RowSame DEF ReconcilerStep, ReconcilerFault, Sweep,
                  HandleRowConflict, HandleLog, ReEnqueue,
                  ReEnqueueConflict, AppendLog, ConcurrentUpdate, Fault,
                  storeVars
    <2> QED BY <2>1, <2>2
  <1>5. CASE QueueNext \/ ClockNext \/ UNCHANGED vars
    BY <1>5, RowSame DEF QueueNext, RecoverLease, ClockNext, Time, GrowStale,
                ReachSchedule, vars, storeVars
  <1> QED BY <1>1, <1>2, <1>3, <1>4, <1>5 DEF Next

\* The statuses that a step of anybody but a request leaves a row in.
LEMMA RowStepFacts ==
    ASSUME TypeInv, NEW n \in Notifs, RowStep(n), ipc' = ipc, ~IntakeArrival
    PROVE  /\ status'[n] = "absent" <=> status[n] = "absent"
           /\ status'[n] = "pending" => status[n] = "pending"
  <1>1. ASSUME NEW w \in Workers, Row(w) = n, Claim(w)
        PROVE  status[n] \in Claimable /\ status'[n] = "processing"
    BY <1>1 DEF Claim, ClaimForProcessing, TypeInv, TypeOK, StoreTypeOK
  <1>2. ASSUME NEW w \in Workers, Row(w) = n, ApplyResult(w)
        PROVE  status[n] = "processing" /\ status'[n] \in {"delivered", "failed", "retrying"}
    BY <1>2, OutcomeType DEF ApplyResult, UpdateStatus, TypeInv, TypeOK, StoreTypeOK
  <1>3. CASE MarkQueued(n)
    BY <1>3 DEF MarkQueued, UpdateStatus, TypeInv, TypeOK, StoreTypeOK
  <1> QED BY <1>1, <1>2, <1>3 DEF RowStep, Claimable

\* Nobody takes an entry out of notification_logs.
LEMMA LogGrows ==
    ASSUME TypeInv, [Next]_vars
    PROVE  \A n \in Notifs : log[n] \subseteq log'[n]
  <1>1. ASSUME log' = log PROVE \A n \in Notifs : log[n] \subseteq log'[n]
    BY <1>1
  <1>2. ASSUME NEW n, NEW e, AppendLog(n, e)
        PROVE  \A m \in Notifs : log[m] \subseteq log'[m]
    BY <1>2 DEF AppendLog, TypeInv, TypeOK, StoreTypeOK
  <1>3. CASE IntakeNext
    BY <1>1, <1>2, <1>3 DEF IntakeNext, IntakeArrival, CreateNotification, CreateBatch,
       Insert, IntakeStep, IntakeFault, RecordCreated, Enqueue, EnqueueConflict,
       MarkQueued, UpdateStatus, MarkQueuedConflict, ConcurrentUpdate, RecordQueued,
       storeVars
  <1>4. CASE CancelNext
    BY <1>1, <1>2, <1>4 DEF CancelNext, CancelArrival, CancelStep, CancelFault,
       CancelGet, CancelTooLate, CancelUpdate, UpdateStatus, CancelConflict,
       ConcurrentUpdate, CancelLog, CancelDequeue, CancelDequeueRefused, storeVars
  <1>5. CASE WorkerNext
    <2>1. ASSUME NEW w \in Workers, HandlerFault(w)
          PROVE  \A m \in Notifs : log[m] \subseteq log'[m]
      BY <2>1 DEF HandlerFault, TypeInv, TypeOK, StoreTypeOK
    <2> QED
      BY <1>1, <1>2, <1>5, <2>1 DEF WorkerNext, Dequeue, WorkerStep, WorkerFault, Claim,
         ClaimForProcessing, AlreadyClaimed, RecordProcessing, RecordEvent, Allowed,
         Denied, Send, ShortCircuit, ApplyResult, UpdateStatus, ApplyConflict,
         ConcurrentUpdate, RecordOutcome, Crash, Shutdown, LoseLease, storeVars
  <1>6. CASE ReconcilerNext
    BY <1>1, <1>2, <1>6 DEF ReconcilerNext, ReconcilerStep, ReconcilerFault, Sweep,
       HandleRow, UpdateStatus, HandleRowConflict, ConcurrentUpdate, HandleLog,
       ReEnqueue, ReEnqueueConflict, storeVars
  <1>7. CASE QueueNext \/ ClockNext \/ UNCHANGED vars
    BY <1>1, <1>7 DEF QueueNext, RecoverLease, ClockNext, Time, GrowStale,
                      ReachSchedule, vars, storeVars
  <1> QED BY <1>3, <1>4, <1>5, <1>6, <1>7 DEF Next

\* The error return leaves every request that has inserted its row unfinished.
LEMMA AbortKeepsTrail ==
    ASSUME DeliveryInv, NEW n \in Notifs, Abort(n), ipc[n] # "new",
           status' = status, \A m \in Notifs : log[m] \subseteq log'[m]
    PROVE  TrailKept'
  BY DEF Abort, DeliveryInv, TrailKept, TypeInv, TypeOK, IntakeTypeOK

\* A request that goes on by one step.
LEMMA AdvanceKeepsTrail ==
    ASSUME DeliveryInv, NEW n \in Notifs, NEW from, NEW to \in IntakeSteps \ {"new"},
           Advance(n, from, to), from # "new",
           \A m \in Notifs : log[m] \subseteq log'[m],
           \A m \in Notifs : m # n => status'[m] = status[m],
           status'[n] # "absent" \/ status'[n] = status[n],
           to \in {"logged", "enqueued", "marked", "accepted"} => "created" \in log'[n],
           to \in {"marked", "accepted"} => status'[n] # "pending",
           to = "accepted" => "queued" \in log'[n]
    PROVE  TrailKept'
  <1>1. ipc[n] # "new" /\ ipc'[n] = to /\ to # "new" /\ batch' = batch
        /\ \A m \in Notifs : m # n => ipc'[m] = ipc[m]
    BY DEF Advance, DeliveryInv, TypeInv, TypeOK, IntakeTypeOK
  <1>2. \A m \in Notifs : \A k \in batch[m] : k \in Notifs
    BY DEF DeliveryInv, TypeInv, TypeOK, IntakeTypeOK
  <1> QED BY <1>1, <1>2 DEF DeliveryInv, TrailKept

\* Whatever is done to its row meanwhile, a request's trail is complete when it
\* answers.
LEMMA TrailNext == DeliveryInv /\ [Next]_vars => TrailKept'
  <1> SUFFICES ASSUME DeliveryInv, [Next]_vars PROVE TrailKept'
    OBVIOUS
  <1>0. TypeInv /\ TrailKept /\ (\A n \in Notifs : log[n] \subseteq log'[n])
        /\ \A n \in Notifs : RowStep(n)
    BY LogGrows, RowStepHolds DEF DeliveryInv
  <1>1. CASE IntakeNext
    <2>1. ASSUME NEW S \in SUBSET Notifs, NEW K, NEW at, Insert(S, K, at), Begin(S),
                 \A n \in S : ipc[n] = "new"
          PROVE  TrailKept'
      <3>1. /\ \A n \in Notifs : ipc'[n] = IF n \in S THEN "created" ELSE ipc[n]
            /\ \A n \in Notifs : batch'[n] = IF n \in S THEN S ELSE batch[n]
            /\ \A n \in Notifs : status'[n] = IF n \in S THEN "pending" ELSE status[n]
        BY <2>1 DEF Insert, Begin
      <3>2. \A m \in Notifs : \A k \in batch[m] : k \in Notifs
        BY <1>0 DEF TypeInv, TypeOK, IntakeTypeOK
      <3> QED BY <1>0, <3>1, <3>2 DEF TrailKept
    <2>2. CASE IntakeArrival
      BY <2>1, <2>2 DEF IntakeArrival, CreateNotification, CreateBatch
    <2>3. ASSUME NEW n \in Notifs, RecordCreated(n) PROVE TrailKept'
      BY <1>0, <2>3, AdvanceKeepsTrail DEF RecordCreated, AppendLog, TypeInv, TypeOK,
         StoreTypeOK, IntakeSteps
    <2>4. ASSUME NEW n \in Notifs, Enqueue(n) PROVE TrailKept'
      BY <1>0, <2>4, AdvanceKeepsTrail DEF Enqueue, storeVars, Advance, TrailKept, IntakeSteps
    <2>5. ASSUME NEW n \in Notifs, MarkQueued(n) PROVE TrailKept'
      <3>1. status'[n] = "queued" /\ log' = log /\ Advance(n, "enqueued", "marked")
            /\ \A m \in Notifs : m # n => status'[m] = status[m]
        BY <1>0, <2>5 DEF MarkQueued, UpdateStatus, TypeInv, TypeOK, StoreTypeOK
      <3>2. "created" \in log'[n]
        BY <1>0, <3>1 DEF Advance, TrailKept
      <3> QED BY <1>0, <3>1, <3>2, AdvanceKeepsTrail DEF IntakeSteps
    <2>6. ASSUME NEW n \in Notifs, RecordQueued(n) PROVE TrailKept'
      <3>1. /\ "queued" \in log'[n] /\ status' = status /\ Advance(n, "marked", "accepted")
        BY <1>0, <2>6 DEF RecordQueued, AppendLog, TypeInv, TypeOK, StoreTypeOK
      <3>2. "created" \in log'[n] /\ status[n] # "pending"
        BY <1>0, <3>1 DEF Advance, TrailKept
      <3> QED BY <1>0, <3>1, <3>2, AdvanceKeepsTrail DEF IntakeSteps
    <2>7. ASSUME NEW n \in Notifs,
                 EnqueueConflict(n) \/ MarkQueuedConflict(n) \/ IntakeFault(n)
          PROVE  TrailKept'
      BY <1>0, <2>7, AbortKeepsTrail DEF EnqueueConflict, MarkQueuedConflict, IntakeFault,
         ConcurrentUpdate, Fault, storeVars
    <2> QED
      BY <1>1, <2>2, <2>3, <2>4, <2>5, <2>6, <2>7 DEF IntakeNext, IntakeStep
  <1>2. CASE ~IntakeNext
    <2>1. UNCHANGED intakeVars
      BY <1>2 DEF Next, CancelNext, WorkerNext, ReconcilerNext, QueueNext, ClockNext,
                  Time, vars
    <2>2. ipc' = ipc /\ batch' = batch
      BY <2>1 DEF intakeVars
    <2>3. ~IntakeArrival
      <3>1. ASSUME NEW S \in (SUBSET Notifs) \ {{}}, CreateBatch(S) PROVE FALSE
        <4>1. PICK n \in S : ipc[n] = "new" /\ ipc'[n] = "created"
          BY <3>1 DEF CreateBatch, Begin
        <4> QED BY <2>2, <4>1
      <3>2. ASSUME NEW n \in Notifs, NEW k, NEW at, CreateNotification(n, k, at) PROVE FALSE
        BY <2>2, <3>2 DEF CreateNotification, Begin
      <3> QED BY <3>1, <3>2 DEF IntakeArrival
    <2>4. \A n \in Notifs : /\ status'[n] = "absent" <=> status[n] = "absent"
                            /\ status'[n] = "pending" => status[n] = "pending"
      BY <1>0, <2>2, <2>3, RowStepFacts
    <2> QED BY <1>0, <2>2, <2>4 DEF TrailKept
  <1> QED BY <1>1, <1>2

-----------------------------------------------------------------------------
(***************************************************************************)
(* Rows scheduled ahead                                                    *)
(***************************************************************************)

\* Once a row is there, its scheduled_at only comes closer.
LEMMA ScheduleStep ==
    ASSUME TypeInv, [Next]_vars, NEW n \in Notifs, status[n] # "absent",
           schedule'[n] = "future"
    PROVE  schedule[n] = "future"
  <1>1. CASE schedule' = schedule
    BY <1>1
  <1>2. CASE IntakeNext
    BY <1>1, <1>2 DEF IntakeNext, IntakeArrival, CreateNotification, CreateBatch, Insert,
       IntakeStep, IntakeFault, RecordCreated, AppendLog, Enqueue, EnqueueConflict,
       MarkQueued, UpdateStatus, MarkQueuedConflict, ConcurrentUpdate, RecordQueued,
       Fault, storeVars
  <1>3. CASE CancelNext
    BY <1>1, <1>3 DEF CancelNext, CancelArrival, CancelStep, CancelFault, CancelGet,
       CancelTooLate, CancelUpdate, UpdateStatus, CancelConflict, ConcurrentUpdate,
       CancelLog, AppendLog, CancelDequeue, CancelDequeueRefused, Fault, storeVars
  <1>4. CASE WorkerNext
    BY <1>1, <1>4 DEF WorkerNext, Dequeue, WorkerStep, WorkerFault, Claim,
       ClaimForProcessing, AlreadyClaimed, RecordProcessing, RecordEvent, AppendLog,
       Allowed, Denied, Send, ShortCircuit, ApplyResult, UpdateStatus, ApplyConflict,
       ConcurrentUpdate, RecordOutcome, HandlerFault, Crash, Shutdown, LoseLease,
       Fault, storeVars
  <1>5. CASE ReconcilerNext
    BY <1>1, <1>5 DEF ReconcilerNext, ReconcilerStep, ReconcilerFault, Sweep, HandleRow,
       UpdateStatus, HandleRowConflict, ConcurrentUpdate, HandleLog, AppendLog,
       ReEnqueue, ReEnqueueConflict, Fault, storeVars
  <1>6. CASE QueueNext \/ UNCHANGED vars
    BY <1>1, <1>6 DEF QueueNext, RecoverLease, vars, storeVars
  <1>7. CASE ClockNext
    BY <1>1, <1>7 DEF ClockNext, Time, GrowStale, ReachSchedule, TypeInv, TypeOK, StoreTypeOK
  <1> QED BY <1>2, <1>3, <1>4, <1>5, <1>6, <1>7 DEF Next

\* Only its own UPDATE takes a request past "enqueued".
LEMMA MarkedStep ==
    ASSUME TypeInv, [Next]_vars, NEW n \in Notifs, ipc'[n] \in {"marked", "accepted"}
    PROVE  ipc[n] \in {"marked", "accepted"} \/ MarkQueued(n)
  <1> USE DEF TypeInv, TypeOK, IntakeTypeOK
  <1>1. CASE IntakeNext
    <2>1. ASSUME NEW m \in Notifs, MarkQueued(m), m # n PROVE ipc'[n] = ipc[n]
      BY <2>1 DEF MarkQueued, Advance
    <2>2. ASSUME NEW m \in Notifs, IntakeStep(m) \/ IntakeFault(m), ~MarkQueued(m)
          PROVE  ipc[n] \in {"marked", "accepted"}
      BY <2>2 DEF IntakeStep, IntakeFault, RecordCreated, Enqueue, EnqueueConflict,
         MarkQueuedConflict, RecordQueued, Advance, Abort
    <2>3. CASE IntakeArrival
      BY <2>3 DEF IntakeArrival, CreateNotification, CreateBatch, Begin
    <2> QED BY <1>1, <2>1, <2>2, <2>3 DEF IntakeNext
  <1>2. CASE UNCHANGED intakeVars
    BY <1>2 DEF intakeVars
  <1> QED
    BY <1>1, <1>2 DEF Next, CancelNext, WorkerNext, ReconcilerNext, QueueNext, ClockNext,
                      Time, vars

\* A row that is withheld after a step was withheld before it, and nothing but
\* its own request or a cancellation has moved it.
LEMMA WithheldStep ==
    ASSUME DeliveryInv, [Next]_vars, NEW n \in Notifs, Withheld(n)'
    PROVE  /\ Withheld(n) /\ OutOfReach(n)
           /\ status'[n] \in {"absent", "pending", "queued", "cancelled"}
           /\ status'[n] = "absent" => status[n] = "absent"
           /\ status[n] # "absent" => schedule[n] = "future"
           /\ status[n] = "pending" /\ status'[n] = "queued" => MarkQueued(n)
  <1>0. TypeInv /\ TrailKept /\ ScheduleHolds /\ RowStep(n)
    BY RowStepHolds DEF DeliveryInv
  <1>1. ASSUME NEW w \in Workers, Row(w) = n, Claim(w)
        PROVE  status[n] \in Claimable /\ status'[n] = "processing"
    BY <1>0, <1>1 DEF Claim, ClaimForProcessing, TypeInv, TypeOK, StoreTypeOK
  <1>2. ASSUME NEW w \in Workers, Row(w) = n, ApplyResult(w)
        PROVE  status[n] = "processing" /\ status'[n] \in {"delivered", "failed", "retrying"}
    BY <1>0, <1>2, OutcomeType DEF ApplyResult, UpdateStatus, TypeInv, TypeOK, StoreTypeOK
  <1>3. /\ status'[n] = "absent" => status[n] = "absent"
        /\ status'[n] = "pending" => status[n] \in {"absent", "pending"}
    BY <1>0, <1>1, <1>2 DEF RowStep, Claimable
  <1>4. ASSUME MarkQueued(n) PROVE status[n] = "pending"
    BY <1>4 DEF MarkQueued, UpdateStatus
  <1>5. Withheld(n)
    BY <1>0, <1>3, <1>4, ScheduleStep, MarkedStep DEF Withheld
  <1>6. OutOfReach(n)
    BY <1>0, <1>5 DEF ScheduleHolds
  <1>7. status'[n] \in {"absent", "pending", "queued", "cancelled"}
    BY <1>0, <1>6 DEF RowStep, OutOfReach
  <1>8. status[n] # "absent" => schedule[n] = "future"
    BY <1>5 DEF Withheld
  <1>9. ASSUME status[n] = "pending", status'[n] = "queued" PROVE MarkQueued(n)
    <2>1. ipc'[n] \in {"marked", "accepted"}
      BY <1>9 DEF Withheld
    <2>2. ipc[n] \notin {"marked", "accepted"}
      BY <1>0, <1>9 DEF TrailKept
    <2> QED BY <1>0, <2>1, <2>2, MarkedStep
  <1> QED BY <1>3, <1>5, <1>6, <1>7, <1>8, <1>9

\* A write to a task of another row.
LEMMA TaskElsewhere ==
    ASSUME TypeInv, NEW n \in Notifs, NEW t \in Tasks, t[1] # n, NEW s,
           task' = [task EXCEPT ![t] = s], NEW b \in BOOLEAN
    PROVE  task'[TaskIDFor(n, b)] = task[TaskIDFor(n, b)]
  <1>1. TaskIDFor(n, b) \in Tasks /\ TaskIDFor(n, b)[1] = n
    BY DEF TaskIDFor, Tasks
  <1>2. TaskIDFor(n, b) # t
    BY <1>1
  <1> QED BY <1>1, <1>2 DEF TypeInv, TypeOK, QueueTypeOK

\* The states of the tasks of a row that is out of reach.
LEMMA ReachTasks ==
    ASSUME TypeInv, NEW n \in Notifs, OutOfReach(n), NEW t \in Tasks, t[1] = n
    PROVE  task[t] \in {"none", "scheduled"}
  <1>1. t = TaskIDFor(n, TRUE) \/ t = TaskIDFor(n, FALSE)
    BY DEF Tasks, TaskIDFor
  <1> QED BY <1>1 DEF OutOfReach

\* No step makes a task of a withheld row ready.
LEMMA TasksWithheld ==
    ASSUME DeliveryInv, [Next]_vars, NEW n \in Notifs, Withheld(n)'
    PROVE  /\ task'[TaskIDFor(n, TRUE)] = "none"
           /\ task'[TaskIDFor(n, FALSE)] \in {"none", "scheduled"}
           /\ status'[n] = "absent" => task'[TaskIDFor(n, FALSE)] = "none"
  <1> DEFINE Goal == /\ task'[TaskIDFor(n, TRUE)] = "none"
                     /\ task'[TaskIDFor(n, FALSE)] \in {"none", "scheduled"}
                     /\ status'[n] = "absent" => task'[TaskIDFor(n, FALSE)] = "none"
  <1>0. /\ TypeInv /\ TrailKept /\ CancelCopies
        /\ Withheld(n) /\ OutOfReach(n)
        /\ status'[n] = "absent" => status[n] = "absent"
        /\ status[n] # "absent" => schedule[n] = "future"
    BY WithheldStep DEF DeliveryInv
  <1>1. ASSUME task' = task PROVE Goal
    BY <1>0, <1>1 DEF OutOfReach
  <1>2. ASSUME NEW t \in Tasks, t[1] # n, NEW s, task' = [task EXCEPT ![t] = s] PROVE Goal
    BY <1>0, <1>2, TaskElsewhere DEF OutOfReach
  <1>3. ASSUME NEW t \in Tasks, task[t] \notin {"none", "scheduled"} PROVE t[1] # n
    BY <1>0, <1>3, ReachTasks
  <1>4. CASE IntakeNext
    <2>1. ASSUME NEW m \in Notifs, Enqueue(m) PROVE Goal
      <3>1. CASE m = n
        <4>1. status[n] # "absent" /\ status'[n] # "absent"
          BY <1>0, <2>1, <3>1 DEF Enqueue, Advance, TrailKept
        <4>2. schedule[n] = "future"
          BY <1>0, <4>1
        <4>3. task' = [task EXCEPT ![TaskIDFor(n, FALSE)] = "scheduled"]
          BY <2>1, <3>1, <4>2 DEF Enqueue, EnqueueAs, RequestTask
        <4>4. /\ TaskIDFor(n, FALSE) \in Tasks /\ TaskIDFor(n, TRUE) \in Tasks
              /\ TaskIDFor(n, FALSE) # TaskIDFor(n, TRUE)
          BY DEF Tasks, TaskIDFor
        <4>5. /\ task'[TaskIDFor(n, FALSE)] = "scheduled"
              /\ task'[TaskIDFor(n, TRUE)] = task[TaskIDFor(n, TRUE)]
          BY <1>0, <4>3, <4>4 DEF TypeInv, TypeOK, QueueTypeOK
        <4> QED BY <1>0, <4>1, <4>5 DEF OutOfReach
      <3>2. CASE m # n
        <4>1. RequestTask(m) \in Tasks /\ RequestTask(m)[1] = m
          BY DEF RequestTask, TaskIDFor, Tasks
        <4>2. \E s : task' = [task EXCEPT ![RequestTask(m)] = s]
          BY <2>1 DEF Enqueue, EnqueueAs
        <4> QED BY <1>2, <3>2, <4>1, <4>2
      <3> QED BY <3>1, <3>2
    <2>2. ASSUME ~\E m \in Notifs : Enqueue(m) PROVE task' = task
      BY <1>4, <2>2 DEF IntakeNext, IntakeArrival, CreateNotification, CreateBatch, Begin,
         IntakeStep, IntakeFault, RecordCreated, EnqueueConflict, EnqueueRefused,
         MarkQueued, MarkQueuedConflict, RecordQueued, queueVars
    <2> QED BY <1>1, <2>1, <2>2
  <1>5. CASE CancelNext
    <2>1. ASSUME NEW c \in Cancels, CancelDequeue(c) PROVE Goal
      <3>1. /\ cnotif[c] \in Notifs
            /\ task' = [task EXCEPT ![TaskIDFor(cnotif[c], FALSE)] = "none"]
        BY <1>0, <2>1 DEF CancelDequeue, Answer, DeleteTask, CancelCopies, CancelCopy
      <3>2. CASE cnotif[c] # n
        <4>1. TaskIDFor(cnotif[c], FALSE) \in Tasks /\ TaskIDFor(cnotif[c], FALSE)[1] = cnotif[c]
          BY <3>1 DEF TaskIDFor, Tasks
        <4> QED BY <1>2, <3>1, <3>2, <4>1
      <3>3. CASE cnotif[c] = n
        <4>1. /\ TaskIDFor(n, FALSE) \in Tasks /\ TaskIDFor(n, TRUE) \in Tasks
              /\ TaskIDFor(n, FALSE) # TaskIDFor(n, TRUE)
          BY DEF Tasks, TaskIDFor
        <4>2. /\ task'[TaskIDFor(n, FALSE)] = "none"
              /\ task'[TaskIDFor(n, TRUE)] = task[TaskIDFor(n, TRUE)]
          BY <1>0, <3>1, <3>3, <4>1 DEF TypeInv, TypeOK, QueueTypeOK
        <4> QED BY <1>0, <4>2 DEF OutOfReach
      <3> QED BY <3>2, <3>3
    <2>2. ASSUME ~\E c \in Cancels : CancelDequeue(c) PROVE task' = task
      BY <1>5, <2>2 DEF CancelNext, CancelArrival, CancelStep, CancelFault, CancelGet,
         CancelTooLate, CancelUpdate, CancelConflict, CancelLog, CancelDequeueRefused,
         DeleteRefused, queueVars
    <2> QED BY <1>1, <2>1, <2>2
  <1>6. CASE WorkerNext
    <2> PICK w \in Workers : \/ \E t \in Tasks : Dequeue(w, t)
                             \/ WorkerStep(w) \/ WorkerFault(w)
      BY <1>6 DEF WorkerNext
    <2>1. ASSUME NEW t \in Tasks, Dequeue(w, t) PROVE Goal
      BY <1>2, <1>3, <2>1 DEF Dequeue, Take
    <2>2. CASE WorkerStep(w) \/ WorkerFault(w)
      <3>1. ASSUME NEW b, Return(w, b)
            PROVE  task' = task \/ \E s : task' = [task EXCEPT ![wtask[w]] = s]
        BY <3>1 DEF Return, Done, Failed, queueVars
      <3>2. ASSUME task' # task
            PROVE  wpc[w] # "idle" /\ \E s : task' = [task EXCEPT ![wtask[w]] = s]
        BY <2>2, <3>1, <3>2 DEF WorkerStep, WorkerFault, Claim, AlreadyClaimed,
           RecordProcessing, Allowed, Denied, Send, ShortCircuit, ApplyResult,
           ApplyConflict, RecordOutcome, HandlerFault, Crash, Shutdown, LoseLease, Step,
           Requeue, queueVars
      <3>3. wpc[w] # "idle" => wtask[w] \in Tasks /\ wtask[w][1] # n
        BY <1>0 DEF TypeInv, BusyHasTask, OutOfReach, Row
      <3> QED BY <1>1, <1>2, <3>2, <3>3
    <2> QED BY <2>1, <2>2
  <1>7. CASE ReconcilerNext
    <2> PICK r \in Reconcilers : ReconcilerStep(r) \/ ReconcilerFault(r)
      BY <1>7 DEF ReconcilerNext
    <2>1. ASSUME NEW m \in Notifs, ReEnqueue(r, m) PROVE Goal
      <3>1. m # n
        BY <1>0, <2>1 DEF ReEnqueue, ToEnqueue, OutOfReach
      <3>2. TaskIDFor(m, m \in keyed) \in Tasks /\ TaskIDFor(m, m \in keyed)[1] = m
        BY DEF TaskIDFor, Tasks
      <3>3. task' = [task EXCEPT ![TaskIDFor(m, m \in keyed)] = "pending"]
        BY <2>1 DEF ReEnqueue, EnqueueAs
      <3> QED BY <1>2, <3>1, <3>2, <3>3
    <2>2. ASSUME ~\E m \in Notifs : ReEnqueue(r, m) PROVE task' = task
      BY <2>2 DEF ReconcilerStep, ReconcilerFault, Sweep, HandleRow, HandleRowConflict,
         HandleLog, ReEnqueueConflict, EnqueueRefused, queueVars
    <2> QED BY <1>1, <2>1, <2>2
  <1>8. CASE QueueNext
    <2> PICK t \in Tasks : Forward(t) \/ RecoverLease(t)
      BY <1>8 DEF QueueNext
    <2>1. \E s : task' = [task EXCEPT ![t] = s]
      BY DEF Forward, RecoverLease, Failed
    <2>2. t[1] # n
      <3>1. CASE task[t] = "scheduled" /\ schedule[t[1]] # "future"
        <4>1. ASSUME t[1] = n, status[n] = "absent" PROVE task[t] = "none"
          BY <1>0, <4>1 DEF OutOfReach, Tasks, TaskIDFor
        <4> QED BY <1>0, <3>1, <4>1
      <3> QED BY <1>3, <3>1 DEF Forward, RecoverLease
    <2> QED BY <1>2, <2>1, <2>2
  <1>9. CASE ClockNext \/ UNCHANGED vars
    BY <1>1, <1>9 DEF ClockNext, Time, vars, queueVars
  <1> QED BY <1>4, <1>5, <1>6, <1>7, <1>8, <1>9 DEF Next

\* No step gives a worker a withheld row.
LEMMA WorkersWithheld ==
    ASSUME DeliveryInv, [Next]_vars, NEW n \in Notifs, Withheld(n)',
           NEW w \in Workers, wpc'[w] # "idle"
    PROVE  wtask'[w][1] # n
  <1>0. TypeInv /\ OutOfReach(n)
    BY WithheldStep DEF DeliveryInv
  <1> USE DEF TypeInv, TypeOK, WorkerTypeOK
  <1>1. ASSUME NEW t \in Tasks, Dequeue(w, t) PROVE wtask'[w][1] # n
    <2>1. t[1] # n
      BY <1>0, <1>1, ReachTasks DEF Dequeue, Take
    <2> QED BY <1>0, <1>1, <2>1 DEF Dequeue
  <1>2. ASSUME ~\E t \in Tasks : Dequeue(w, t)
        PROVE  wpc[w] # "idle" /\ wtask'[w] = wtask[w]
    <2>1. CASE WorkerNext
      <3> PICK v \in Workers : \/ \E t \in Tasks : Dequeue(v, t)
                               \/ WorkerStep(v) \/ WorkerFault(v)
        BY <2>1 DEF WorkerNext
      <3> QED
        BY <1>0, <1>2 DEF Dequeue, WorkerStep, WorkerFault, Claim, AlreadyClaimed,
           RecordProcessing, Allowed, Denied, Send, ShortCircuit, ApplyResult,
           ApplyConflict, RecordOutcome, HandlerFault, Crash, Shutdown, LoseLease,
           Return, Free, Step
    <2>2. CASE UNCHANGED workerVars
      BY <2>2 DEF workerVars
    <2> QED
      BY <2>1, <2>2 DEF Next, IntakeNext, CancelNext, ReconcilerNext, QueueNext,
                        RecoverLease, ClockNext, Time, vars
  <1> QED BY <1>0, <1>1, <1>2 DEF OutOfReach, Row

\* No sweep but the one for orphans reads a withheld row, and that one does not
\* get past its UPDATE.
LEMMA SweepsWithheld ==
    ASSUME DeliveryInv, [Next]_vars, NEW n \in Notifs, Withheld(n)',
           NEW r \in Reconcilers
    PROVE  /\ n \in rwork'[r] => rsweep'[r] = "orphaned"
           /\ rstep'[r] # "next" => rcurrent'[r] # n
  <1>0. /\ TypeInv /\ OutOfReach(n)
        /\ status[n] # "absent" => schedule[n] = "future"
        /\ status[n] = "pending" /\ status'[n] = "queued" => MarkQueued(n)
    BY WithheldStep DEF DeliveryInv
  <1> USE DEF TypeInv, TypeOK, ReconcilerTypeOK
  <1>1. CASE Sweep(r)
    <2>1. n \in Find(NextSweep(rsweep[r])) => NextSweep(rsweep[r]) = "orphaned"
      BY <1>0 DEF OutOfReach, Find, NextSweep, FindOrphanedPending, FindStuckProcessing,
                  FindOverdueRetrying, FindStuckQueued
    <2> QED BY <1>0, <1>1, <2>1 DEF Sweep
  <1>2. ASSUME NEW m \in Notifs, HandleRow(r, m), ReconcilerNext
        PROVE  /\ n \in rwork'[r] => rsweep'[r] = "orphaned"
               /\ rstep'[r] # "next" => rcurrent'[r] # n
    <2>1. ASSUME m = n PROVE FALSE
      <3>1. rsweep[r] = "orphaned"
        BY <1>0, <1>2, <2>1 DEF HandleRow, OutOfReach
      <3>2. status[n] = "pending" /\ status'[n] = "queued"
        BY <1>0, <1>2, <2>1, <3>1 DEF HandleRow, Source, Target, UpdateStatus, StoreTypeOK
      <3>3. ipc' = ipc
        BY <1>2 DEF ReconcilerNext, intakeVars
      <3>4. ipc[n] = "enqueued" /\ ipc'[n] = "marked"
        BY <1>0, <3>2 DEF MarkQueued, Advance, IntakeTypeOK
      <3> QED BY <3>3, <3>4
    <2> QED BY <1>0, <1>2, <2>1 DEF HandleRow, Continue, OutOfReach
  <1>3. ASSUME ~Sweep(r), ~\E m \in Notifs : HandleRow(r, m)
        PROVE  /\ n \in rwork'[r] => rsweep'[r] = "orphaned"
               /\ rstep'[r] # "next" => rcurrent'[r] # n
    <2>1. CASE ReconcilerNext
      <3> PICK q \in Reconcilers : ReconcilerStep(q) \/ ReconcilerFault(q)
        BY <2>1 DEF ReconcilerNext
      <3>1. CASE q = r
        BY <1>0, <1>3, <3>1 DEF ReconcilerStep, ReconcilerFault, HandleLog,
           HandleRowConflict, ReEnqueue, ReEnqueueConflict, Finish, Continue, AbortPass,
           OutOfReach
      <3>2. CASE q # r
        BY <1>0, <3>2 DEF ReconcilerStep, ReconcilerFault, Sweep, HandleLog, HandleRow,
           HandleRowConflict, ReEnqueue, ReEnqueueConflict, Finish, Continue, AbortPass,
           OutOfReach
      <3> QED BY <3>1, <3>2
    <2>2. CASE UNCHANGED reconcilerVars
      BY <1>0, <2>2 DEF reconcilerVars, OutOfReach
    <2> QED
      BY <2>1, <2>2 DEF Next, IntakeNext, CancelNext, WorkerNext, QueueNext, ClockNext,
                        Time, vars
  <1>4. ASSUME ~ReconcilerNext
        PROVE  /\ n \in rwork'[r] => rsweep'[r] = "orphaned"
               /\ rstep'[r] # "next" => rcurrent'[r] # n
    BY <1>0, <1>4 DEF Next, IntakeNext, CancelNext, WorkerNext, QueueNext, ClockNext,
                      Time, vars, reconcilerVars, OutOfReach
  <1> QED BY <1>1, <1>2, <1>3, <1>4

\* A row whose time has not come stays out of everybody's reach.
LEMMA ScheduleNext == DeliveryInv /\ [Next]_vars => ScheduleHolds'
  <1> SUFFICES ASSUME DeliveryInv, [Next]_vars, NEW n \in Notifs, Withheld(n)'
               PROVE  OutOfReach(n)'
    BY DEF ScheduleHolds
  <1>1. status'[n] \in {"absent", "pending", "queued", "cancelled"}
    BY WithheldStep
  <1>2. \A w \in Workers : wpc'[w] # "idle" => wtask'[w][1] # n
    BY WorkersWithheld
  <1>3. \A r \in Reconcilers : /\ n \in rwork'[r] => rsweep'[r] = "orphaned"
                               /\ rstep'[r] # "next" => rcurrent'[r] # n
    BY SweepsWithheld
  <1> QED BY <1>1, <1>2, <1>3, TasksWithheld DEF OutOfReach, Row, TaskIDFor

-----------------------------------------------------------------------------
(***************************************************************************)
(* The retry budget                                                        *)
(***************************************************************************)

\* A row that is open has an attempt left, denials granting one each.
LEMMA SpentBound ==
    ASSUME DeliveryInv, NEW n \in Notifs, ~IsTerminal(status[n])
    PROVE  Spent(n) \in Nat /\ Spent(n) < MaxAttempts + denials
  <1>1. attempts[n] \in Nat /\ denials \in Nat /\ MaxAttempts \in Nat \ {0}
    BY WorkerAssumption DEF DeliveryInv, TypeInv, TypeOK, StoreTypeOK, WorkerTypeOK
  <1>2. status[n] \in {"absent", "pending", "queued", "processing", "retrying"}
    BY DEF DeliveryInv, TypeInv, TypeOK, StoreTypeOK, RowStates, Statuses, IsTerminal
  <1>3. status[n] \in {"absent", "pending", "queued"} => attempts[n] = 0
    BY DEF DeliveryInv, FreshRows
  <1> QED BY <1>1, <1>2, <1>3 DEF DeliveryInv, AttemptsWithin, Spent

\* What ApplyResult does to its row: the attempt is over.
LEMMA ApplySpends ==
    ASSUME DeliveryInv, NEW w \in Workers, ApplyResult(w)
    PROVE  /\ Row(w) \in Notifs /\ status[Row(w)] = "processing"
           /\ attempts'[Row(w)] = attempts[Row(w)]
           /\ attempts[Row(w)] = wattempts[w]
           /\ status'[Row(w)] = Outcome(wresult[w], wattempts[w])
           /\ Spent(Row(w)) = wattempts[w] - 1
           /\ (IF status'[Row(w)] = "processing" THEN attempts'[Row(w)] - 1
                                                 ELSE attempts'[Row(w)]) = wattempts[w]
  <1>1. /\ wpc[w] = "apply"
        /\ UpdateStatus(Row(w), Outcome(wresult[w], wattempts[w]), wattempts[w], "processing")
    BY DEF ApplyResult, Step
  <1>2. TypeInv /\ ClaimHolds /\ wattempts[w] \in Nat
    BY DEF DeliveryInv, TypeInv, TypeOK, WorkerTypeOK
  <1>3. Row(w) \in Notifs
    BY <1>1, <1>2, BusyRow
  <1>4. /\ status[Row(w)] = "processing" /\ attempts'[Row(w)] = wattempts[w]
        /\ status'[Row(w)] = Outcome(wresult[w], wattempts[w])
    BY <1>1, <1>2, <1>3, RowUpdate
  <1>5. attempts[Row(w)] = wattempts[w]
    BY <1>1, <1>2, <1>4 DEF ClaimHolds, InFlight
  <1>6. Outcome(wresult[w], wattempts[w]) # "processing"
    BY OutcomeType
  <1> QED BY <1>3, <1>4, <1>5, <1>6 DEF Spent

\* What Claim does to its row: an attempt begins, none is over.
LEMMA ClaimSpends ==
    ASSUME DeliveryInv, NEW w \in Workers, Claim(w)
    PROVE  /\ Row(w) \in Notifs /\ status[Row(w)] \in {"queued", "retrying"}
           /\ status'[Row(w)] = "processing"
           /\ attempts'[Row(w)] = attempts[Row(w)] + 1
           /\ wattempts'[w] = attempts[Row(w)] + 1
  <1>1. TypeInv /\ wpc[w] = "claim"
    BY DEF DeliveryInv, Claim, Step
  <1>2. Row(w) \in Notifs
    BY <1>1, BusyRow
  <1> QED
    BY <1>1, <1>2 DEF Claim, ClaimForProcessing, Claimable, TypeInv, TypeOK, StoreTypeOK,
                      WorkerTypeOK

\* No attempt of an open row is taken back.
LEMMA SpentGrows ==
    ASSUME DeliveryInv, [Next]_vars, NEW n \in Notifs, ~IsTerminal(status'[n])
    PROVE  /\ ~IsTerminal(status[n])
           /\ (IF status'[n] = "processing" THEN attempts'[n] - 1 ELSE attempts'[n])
                >= Spent(n)
  <1>0. RowStep(n) /\ attempts[n] \in Nat
    BY RowStepHolds DEF DeliveryInv, TypeInv, TypeOK, StoreTypeOK
  <1>1. ~IsTerminal(status[n])
    BY StatusStepHolds DEF StatusStep
  <1>2. ASSUME NEW w \in Workers, Row(w) = n, Claim(w)
        PROVE  /\ status[n] # "processing" /\ status'[n] = "processing"
               /\ attempts'[n] = attempts[n] + 1
    BY <1>2, ClaimSpends
  <1>3. ASSUME NEW w \in Workers, Row(w) = n, ApplyResult(w)
        PROVE  /\ attempts'[n] = attempts[n] /\ status[n] = "processing"
               /\ status'[n] # "processing"
    BY <1>3, ApplySpends, OutcomeType
  <1> QED BY <1>0, <1>1, <1>2, <1>3 DEF RowStep, Spent, IsTerminal

\* Denials are counted, never forgotten.
LEMMA DenialsGrow ==
    ASSUME TypeInv, [Next]_vars
    PROVE  denials \in Nat /\ denials' \in Nat /\ denials' >= denials
  <1>1. denials \in Nat
    BY WorkerAssumption DEF TypeInv, TypeOK, WorkerTypeOK
  <1>2. CASE WorkerNext
    BY <1>1, <1>2 DEF WorkerNext, Dequeue, WorkerStep, WorkerFault, Claim, AlreadyClaimed,
       RecordProcessing, Allowed, Denied, Send, ShortCircuit, ApplyResult, ApplyConflict,
       RecordOutcome, HandlerFault, Crash, Shutdown, LoseLease, Return
  <1>3. CASE UNCHANGED workerVars
    BY <1>1, <1>3 DEF workerVars
  <1> QED
    BY <1>1, <1>2, <1>3 DEF Next, IntakeNext, CancelNext, ReconcilerNext, QueueNext,
                      RecoverLease, ClockNext, Time, vars

\* Faults are counted, never forgotten.
LEMMA FaultsGrow ==
    ASSUME TypeInv, [Next]_vars
    PROVE  faults \in Nat /\ faults' \in Nat /\ faults' >= faults /\ faults <= MaxFaults
  <1>1. faults \in Nat /\ faults <= MaxFaults
    BY StoreAssumption DEF TypeInv, TypeOK, StoreTypeOK
  <1>2. ASSUME faults' = faults \/ Fault
        PROVE  faults' \in Nat /\ faults' >= faults
    BY <1>1, <1>2 DEF Fault
  <1>3. CASE IntakeNext
    BY <1>1, <1>2, <1>3 DEF IntakeNext, IntakeArrival, CreateNotification, CreateBatch, Insert,
       IntakeStep, IntakeFault, RecordCreated, AppendLog, Enqueue, EnqueueConflict,
       MarkQueued, UpdateStatus, MarkQueuedConflict, ConcurrentUpdate, RecordQueued,
       storeVars
  <1>4. CASE CancelNext
    BY <1>1, <1>2, <1>4 DEF CancelNext, CancelArrival, CancelStep, CancelFault, CancelGet,
       CancelTooLate, CancelUpdate, UpdateStatus, CancelConflict, ConcurrentUpdate,
       CancelLog, AppendLog, CancelDequeue, CancelDequeueRefused, storeVars
  <1>5. CASE WorkerNext
    BY <1>1, <1>2, <1>5 DEF WorkerNext, Dequeue, WorkerStep, WorkerFault, Claim,
       ClaimForProcessing, AlreadyClaimed, RecordProcessing, RecordEvent, AppendLog,
       Allowed, Denied, Send, ShortCircuit, ApplyResult, UpdateStatus, ApplyConflict,
       ConcurrentUpdate, RecordOutcome, HandlerFault, Crash, Shutdown, LoseLease,
       storeVars
  <1>6. CASE ReconcilerNext
    BY <1>1, <1>2, <1>6 DEF ReconcilerNext, ReconcilerStep, ReconcilerFault, Sweep, HandleRow,
       UpdateStatus, HandleRowConflict, ConcurrentUpdate, HandleLog, AppendLog,
       ReEnqueue, ReEnqueueConflict, storeVars
  <1>7. CASE QueueNext \/ ClockNext \/ UNCHANGED vars
    BY <1>1, <1>2, <1>7 DEF QueueNext, RecoverLease, ClockNext, Time, GrowStale, ReachSchedule,
                      vars, storeVars
  <1> QED BY <1>1, <1>3, <1>4, <1>5, <1>6, <1>7 DEF Next

\* A row is attempted again only while the budget of attempts lasts, or after a
\* denial.
LEMMA AttemptsNext == DeliveryInv /\ [Next]_vars => AttemptsWithin'
  <1> SUFFICES ASSUME DeliveryInv, [Next]_vars PROVE AttemptsWithin'
    OBVIOUS
  <1>0. /\ TypeInv /\ AttemptsWithin /\ ClaimHolds /\ FreshRows
        /\ denials \in Nat /\ denials' \in Nat /\ denials' >= denials
        /\ MaxAttempts \in Nat \ {0}
    BY DenialsGrow, WorkerAssumption DEF DeliveryInv
  <1>1. ASSUME NEW n \in Notifs
        PROVE  /\ status'[n] = "retrying" => attempts'[n] < MaxAttempts + denials'
               /\ status'[n] = "processing" => attempts'[n] \in 1 .. MaxAttempts + denials'
    <2>0. RowStep(n) /\ attempts[n] \in Nat
      BY <1>0, RowStepHolds DEF TypeInv, TypeOK, StoreTypeOK
    <2>1. CASE status'[n] = status[n] /\ attempts'[n] = attempts[n]
      BY <1>0, <2>0, <2>1 DEF AttemptsWithin
    <2>2. ASSUME NEW w \in Workers, Row(w) = n, Claim(w)
          PROVE  /\ status'[n] = "processing" /\ attempts'[n] = attempts[n] + 1
                 /\ attempts[n] < MaxAttempts + denials
      <3>1. CASE status[n] = "queued"
        BY <1>0, <2>2, <3>1, ClaimSpends DEF FreshRows
      <3>2. CASE status[n] = "retrying"
        BY <1>0, <2>2, <3>2, ClaimSpends DEF AttemptsWithin
      <3> QED BY <2>2, <3>1, <3>2, ClaimSpends
    <2>3. ASSUME NEW w \in Workers, Row(w) = n, ApplyResult(w)
          PROVE  /\ status'[n] # "processing"
                 /\ status'[n] = "retrying" => attempts'[n] < MaxAttempts + denials
      <3>1. /\ status[n] = "processing" /\ attempts'[n] = wattempts[w]
            /\ status'[n] = Outcome(wresult[w], wattempts[w]) /\ wpc[w] = "apply"
            /\ wattempts[w] \in Nat /\ wresult[w] \in Results \ {"none"}
        BY <1>0, <2>3, ApplySpends DEF ApplyResult, Step, DeliveryInv, SendsAgree,
           TypeInv, TypeOK, WorkerTypeOK
      <3>2. CASE wresult[w] = "denied"
        BY <1>0, <2>3, <3>1, <3>2, OutcomeType DEF AttemptsWithin
      <3>3. CASE wresult[w] # "denied"
        BY <1>0, <3>1, <3>3, OutcomeType DEF Outcome, Results
      <3> QED BY <3>2, <3>3
    <2>4. CASE \E w \in Workers : Row(w) = n /\ Claim(w)
      BY <1>0, <2>0, <2>2, <2>4
    <2>5. CASE \E w \in Workers : Row(w) = n /\ ApplyResult(w)
      <3>1. /\ status'[n] # "processing"
            /\ status'[n] = "retrying" => attempts'[n] < MaxAttempts + denials
        BY <2>3, <2>5
      <3>2. attempts'[n] \in Nat
        BY TypeInvNext DEF DeliveryInv, TypeInv, TypeOK, StoreTypeOK
      <3> QED BY <1>0, <3>1, <3>2
    <2> QED BY <2>0, <2>1, <2>4, <2>5 DEF RowStep
  <1>2. ASSUME NEW w \in Workers, wpc'[w] = "apply", wresult'[w] = "denied",
               status'[wtask'[w][1]] = "processing"
        PROVE  wattempts'[w] < MaxAttempts + denials'
    <2>1. CASE Denied(w)
      <3>1. /\ wpc[w] = "limit" /\ wtask' = wtask /\ wattempts' = wattempts
            /\ status' = status /\ denials' = denials + 1
        BY <2>1 DEF Denied, Step, storeVars
      <3>2. attempts[Row(w)] = wattempts[w] /\ Row(w) \in Notifs
        BY <1>0, <1>2, <3>1, BusyRow DEF ClaimHolds, InFlight, Row
      <3>3. attempts[Row(w)] \in 1 .. MaxAttempts + denials
        BY <1>0, <1>2, <3>1, <3>2 DEF AttemptsWithin, Row
      <3> QED BY <1>0, <3>1, <3>2, <3>3
    <2>2. CASE ~Denied(w)
      <3>1. /\ wpc[w] = "apply" /\ wresult[w] = "denied"
            /\ wtask'[w] = wtask[w] /\ wattempts'[w] = wattempts[w]
        <4> USE DEF TypeInv, TypeOK, WorkerTypeOK
        <4>1. CASE WorkerNext
          <5> PICK v \in Workers : \/ \E t \in Tasks : Dequeue(v, t)
                                   \/ WorkerStep(v) \/ WorkerFault(v)
            BY <4>1 DEF WorkerNext
          <5>1. CASE v = w
            BY <1>0, <1>2, <2>2, <5>1 DEF Dequeue, WorkerStep, WorkerFault, Claim,
               AlreadyClaimed, RecordProcessing, Allowed, Send, ShortCircuit,
               ApplyResult, ApplyConflict, RecordOutcome, HandlerFault, Crash, Shutdown,
               LoseLease, Return, Free, Step
          <5>2. CASE v # w
            BY <1>0, <1>2, <5>2 DEF Dequeue, WorkerStep, WorkerFault, Claim,
               AlreadyClaimed, RecordProcessing, Allowed, Denied, Send, ShortCircuit,
               ApplyResult, ApplyConflict, RecordOutcome, HandlerFault, Crash, Shutdown,
               LoseLease, Return, Free, Step
          <5> QED BY <5>1, <5>2
        <4>2. CASE UNCHANGED workerVars
          BY <1>2, <4>2 DEF workerVars
        <4> QED
          BY <4>1, <4>2 DEF Next, IntakeNext, CancelNext, ReconcilerNext, QueueNext,
                            RecoverLease, ClockNext, Time, vars
      <3>2. Row(w) \in Notifs
        BY <1>0, <3>1, BusyRow
      <3>3. status[Row(w)] = "processing"
        BY <1>0, <1>2, <3>1, <3>2, StatusStepHolds DEF ClaimHolds, InFlight, Row,
           StatusStep, IsTerminal
      <3>4. wattempts[w] < MaxAttempts + denials /\ wattempts[w] \in Nat
        BY <1>0, <3>1, <3>3 DEF AttemptsWithin, TypeInv, TypeOK, WorkerTypeOK
      <3> QED BY <1>0, <3>1, <3>4
    <2> QED BY <2>1, <2>2
  <1> QED BY <1>1, <1>2 DEF AttemptsWithin, Row

\* A write to one entry of the task table.
LEMMA TaskWrite ==
    ASSUME TypeInv, NEW u \in Tasks, NEW s, task' = [task EXCEPT ![u] = s], NEW t \in Tasks
    PROVE  task'[t] = IF t = u THEN s ELSE task[t]
  BY DEF TypeInv, TypeOK, QueueTypeOK

\* A task that is completed or deleted.
LEMMA DoneWrites ==
    ASSUME TypeInv, NEW u \in Tasks, task' = [task EXCEPT ![u] = "none"],
           retried' = [retried EXCEPT ![u] = 0], NEW t \in Tasks
    PROVE  IF t = u THEN task'[t] = "none" /\ retried'[t] = 0
                    ELSE task'[t] = task[t] /\ retried'[t] = retried[t]
  BY DEF TypeInv, TypeOK, QueueTypeOK

\* What asynq does with a task whose handler failed or whose lease expired.
FailedAt(t) ==
    \/ retried[t] < MaxRetry /\ task'[t] = "retry" /\ retried'[t] = retried[t] + 1
    \/ retried[t] = MaxRetry /\ task'[t] = "archived" /\ retried'[t] = retried[t]

LEMMA FailedWrites ==
    ASSUME TypeInv, NEW u \in Tasks, Failed(u), NEW t \in Tasks
    PROVE  IF t = u THEN FailedAt(u) ELSE task'[t] = task[t] /\ retried'[t] = retried[t]
  BY DEF Failed, FailedAt, TypeInv, TypeOK, QueueTypeOK

\* What anybody but a worker does to a task: leave it, enqueue, forward or delete
\* it while no worker runs it, or recover it when its lease is gone.
LEMMA QueueStep ==
    ASSUME DeliveryInv, [Next]_vars, ~WorkerNext, NEW t \in Tasks
    PROVE  \/ task'[t] = task[t] /\ retried'[t] = retried[t]
           \/ /\ task[t] # "active" /\ task'[t] \notin {"active", "archived"}
              /\ retried'[t] <= retried[t]
           \/ /\ task[t] = "active" /\ \A w \in lease : wtask[w] # t
              /\ FailedAt(t)
  <1> DEFINE Goal == \/ task'[t] = task[t] /\ retried'[t] = retried[t]
                     \/ /\ task[t] # "active" /\ task'[t] \notin {"active", "archived"}
                        /\ retried'[t] <= retried[t]
                     \/ /\ task[t] = "active" /\ \A w \in lease : wtask[w] # t
                        /\ FailedAt(t)
  <1>0. TypeInv /\ CancelCopies /\ retried[t] \in Nat
    BY TaskQueueAssumption DEF DeliveryInv, TypeInv, TypeOK, QueueTypeOK
  <1>1. ASSUME UNCHANGED queueVars PROVE Goal
    BY <1>1 DEF queueVars
  <1>2. ASSUME NEW u \in Tasks, NEW s \in {"pending", "scheduled"}, task[u] # "active",
               task' = [task EXCEPT ![u] = s], retried' = retried
        PROVE  Goal
    <2>1. task'[t] = IF t = u THEN s ELSE task[t]
      BY <1>0, <1>2, TaskWrite
    <2> QED BY <1>0, <1>2, <2>1
  <1>3. CASE IntakeNext
    <2>1. ASSUME NEW m \in Notifs, Enqueue(m) PROVE Goal
      <3>1. RequestTask(m) \in Tasks
        BY DEF RequestTask, TaskIDFor, Tasks
      <3> QED BY <1>2, <2>1, <3>1 DEF Enqueue, EnqueueAs
    <2>2. ASSUME ~\E m \in Notifs : Enqueue(m) PROVE UNCHANGED queueVars
      BY <1>3, <2>2 DEF IntakeNext, IntakeArrival, CreateNotification, CreateBatch, Begin,
         IntakeStep, IntakeFault, RecordCreated, EnqueueConflict, EnqueueRefused,
         MarkQueued, MarkQueuedConflict, RecordQueued
    <2> QED BY <1>1, <2>1, <2>2
  <1>4. CASE CancelNext
    <2>1. ASSUME NEW c \in Cancels, CancelDequeue(c) PROVE Goal
      <3> DEFINE u == TaskIDFor(cnotif[c], FALSE)
      <3>1. u \in Tasks
        BY <1>0, <2>1 DEF CancelDequeue, Answer, CancelCopies, CancelCopy, TaskIDFor, Tasks
      <3>2. /\ task[u] # "active" /\ task' = [task EXCEPT ![u] = "none"]
            /\ retried' = [retried EXCEPT ![u] = 0]
        BY <2>1 DEF CancelDequeue, DeleteTask
      <3> HIDE DEF u
      <3>3. IF t = u THEN task'[t] = "none" /\ retried'[t] = 0
                     ELSE task'[t] = task[t] /\ retried'[t] = retried[t]
        BY <1>0, <3>1, <3>2, DoneWrites
      <3> QED BY <1>0, <3>2, <3>3
    <2>2. ASSUME ~\E c \in Cancels : CancelDequeue(c) PROVE UNCHANGED queueVars
      BY <1>4, <2>2 DEF CancelNext, CancelArrival, CancelStep, CancelFault, CancelGet,
         CancelTooLate, CancelUpdate, CancelConflict, CancelLog, CancelDequeueRefused,
         DeleteRefused
    <2> QED BY <1>1, <2>1, <2>2
  <1>5. CASE ReconcilerNext
    <2> PICK r \in Reconcilers : ReconcilerStep(r) \/ ReconcilerFault(r)
      BY <1>5 DEF ReconcilerNext
    <2>1. ASSUME NEW m \in Notifs, ReEnqueue(r, m) PROVE Goal
      <3>1. TaskIDFor(m, m \in keyed) \in Tasks
        BY DEF TaskIDFor, Tasks
      <3> QED BY <1>2, <2>1, <3>1 DEF ReEnqueue, EnqueueAs
    <2>2. ASSUME ~\E m \in Notifs : ReEnqueue(r, m) PROVE UNCHANGED queueVars
      BY <2>2 DEF ReconcilerStep, ReconcilerFault, Sweep, HandleRow, HandleRowConflict,
         HandleLog, ReEnqueueConflict, EnqueueRefused
    <2> QED BY <1>1, <2>1, <2>2
  <1>6. CASE QueueNext
    <2> PICK u \in Tasks : Forward(u) \/ RecoverLease(u)
      BY <1>6 DEF QueueNext
    <2>1. CASE Forward(u)
      BY <1>2, <2>1 DEF Forward
    <2>2. CASE RecoverLease(u)
      <3>1. task[u] = "active" /\ Failed(u) /\ \A w \in lease : wtask[w] # u
        BY <2>2 DEF RecoverLease
      <3> QED BY <1>0, <3>1, FailedWrites
    <2> QED BY <2>1, <2>2
  <1>7. CASE ClockNext \/ UNCHANGED vars
    BY <1>1, <1>7 DEF ClockNext, Time, vars, queueVars
  <1> QED BY <1>3, <1>4, <1>5, <1>6, <1>7 DEF Next

\* The tasks and the worker of a handler that returns.
LEMMA ReturnWrites ==
    ASSUME TypeInv, NEW w \in Workers, wpc[w] # "idle", NEW b \in BOOLEAN, Return(w, b),
           NEW t \in Tasks
    PROVE  IF w \in lease /\ t = wtask[w]
           THEN IF b THEN task'[t] = "none" /\ retried'[t] = 0 ELSE FailedAt(t)
           ELSE task'[t] = task[t] /\ retried'[t] = retried[t]
  <1>1. wtask[w] \in Tasks
    BY DEF TypeInv, BusyHasTask
  <1>2. CASE w \notin lease
    BY <1>2 DEF Return, queueVars
  <1>3. CASE w \in lease /\ b
    BY <1>1, <1>3, DoneWrites DEF Return, Done
  <1>4. CASE w \in lease /\ ~b
    BY <1>1, <1>4, FailedWrites DEF Return
  <1> QED BY <1>2, <1>3, <1>4

\* A handler that goes on: only ApplyResult takes it to its last step.
GoesOn(w) ==
    /\ wpc[w] # "idle" /\ UNCHANGED <<wtask, lease, task, retried>>
    /\ wpc'[w] # "idle"
    /\ wpc'[w] = "outcome" => ApplyResult(w)

\* The steps of a worker, by what they do to its task.
LEMMA WorkerCases ==
    ASSUME TypeInv, NEW w \in Workers, WorkerStep(w) \/ WorkerFault(w)
    PROVE  \/ GoesOn(w)
           \/ wpc[w] # "idle" /\ Return(w, TRUE)
           \/ /\ wpc[w] # "idle" /\ Return(w, FALSE)
              /\ HandlerFault(w) \/ ApplyConflict(w) \/ Retrying(w)
           \/ Crash(w) \/ Shutdown(w) \/ LoseLease(w)
  <1> USE DEF TypeInv, TypeOK, WorkerTypeOK
  <1>1. ASSUME \/ Claim(w) \/ RecordProcessing(w) \/ Allowed(w) \/ Denied(w)
               \/ (\E r \in {"success", "permanent", "transient"} : Send(w, r))
               \/ ShortCircuit(w) \/ ApplyResult(w)
        PROVE  GoesOn(w)
    BY <1>1 DEF GoesOn, Claim, RecordProcessing, Allowed, Denied, Send, ShortCircuit,
                ApplyResult, Step, queueVars
  <1>2. CASE RecordOutcome(w)
    BY <1>2 DEF RecordOutcome, Retrying
  <1>3. CASE AlreadyClaimed(w) \/ ApplyConflict(w) \/ HandlerFault(w)
    BY <1>3 DEF AlreadyClaimed, ApplyConflict, HandlerFault
  <1> QED BY <1>1, <1>2, <1>3 DEF WorkerStep, WorkerFault

\* A worker's step leaves the others where they are.
LEMMA OtherWorkers ==
    ASSUME TypeInv, NEW w \in Workers,
           (\E t \in Tasks : Dequeue(w, t)) \/ WorkerStep(w) \/ WorkerFault(w),
           NEW v \in Workers, v # w
    PROVE  /\ wpc'[v] = wpc[v] /\ wtask'[v] = wtask[v]
           /\ wresult'[v] = wresult[v] /\ wattempts'[v] = wattempts[v]
           /\ v \in lease' <=> v \in lease
  BY DEF TypeInv, TypeOK, WorkerTypeOK, Dequeue, WorkerStep, WorkerFault, Claim,
     AlreadyClaimed, RecordProcessing, Allowed, Denied, Send, ShortCircuit, ApplyResult,
     ApplyConflict, RecordOutcome, HandlerFault, Crash, Shutdown, LoseLease, Return, Free,
     Step

\* What the step of a worker does to a task: nothing, unless the worker holds the
\* lease or takes the task from its queue.
LEMMA NotItsTask ==
    ASSUME TypeInv, LeaseHeld, NEW w \in Workers, WorkerStep(w) \/ WorkerFault(w),
           NEW t \in Tasks, w \notin lease \/ t # wtask[w]
    PROVE  task'[t] = task[t] /\ retried'[t] = retried[t]
  <1>1. wpc[w] # "idle" => wtask[w] \in Tasks
    BY DEF TypeInv, BusyHasTask
  <1>2. CASE GoesOn(w) \/ Crash(w) \/ LoseLease(w)
    BY <1>2 DEF GoesOn, Crash, LoseLease, queueVars
  <1>3. CASE Shutdown(w)
    <2>1. /\ w \in lease /\ wtask[w] \in Tasks /\ retried' = retried
          /\ task' = [task EXCEPT ![wtask[w]] = "pending"]
      BY <1>1, <1>3 DEF Shutdown, Requeue
    <2> QED BY <2>1, TaskWrite
  <1>4. ASSUME NEW b \in BOOLEAN, wpc[w] # "idle", Return(w, b)
        PROVE  task'[t] = task[t] /\ retried'[t] = retried[t]
    BY <1>4, ReturnWrites
  <1> QED BY <1>2, <1>3, <1>4, WorkerCases

\* A lease is never held twice, and never of a task that is back in a queue.
LEMMA LeaseNext == DeliveryInv /\ [Next]_vars => LeaseHeld'
  <1> SUFFICES ASSUME DeliveryInv, [Next]_vars PROVE LeaseHeld'
    OBVIOUS
  <1>0. TypeInv /\ LeaseHeld /\ \A w \in lease : w \in Workers /\ wtask[w] \in Tasks
    BY DEF DeliveryInv, TypeInv, TypeOK, WorkerTypeOK, BusyHasTask, LeaseHeld
  <1>1. CASE ~WorkerNext
    <2>1. UNCHANGED <<wpc, wtask, lease>>
      BY <1>1 DEF Next, IntakeNext, CancelNext, ReconcilerNext, QueueNext, RecoverLease,
                  ClockNext, Time, vars, workerVars
    <2>2. \A w \in lease : task'[wtask[w]] = "active"
      BY <1>0, <1>1, QueueStep DEF LeaseHeld
    <2> QED BY <1>0, <2>1, <2>2 DEF LeaseHeld
  <1>2. CASE WorkerNext
    <2> PICK w \in Workers : \/ \E t \in Tasks : Dequeue(w, t)
                             \/ WorkerStep(w) \/ WorkerFault(w)
      BY <1>2 DEF WorkerNext
    <2>0. \A v \in Workers \ {w} : /\ wpc'[v] = wpc[v] /\ wtask'[v] = wtask[v]
                                   /\ v \in lease' <=> v \in lease
      BY <1>0, OtherWorkers
    <2>1. lease' \subseteq Workers
      BY TypeInvNext DEF DeliveryInv, TypeInv, TypeOK, WorkerTypeOK
    <2>2. ASSUME NEW t \in Tasks, Dequeue(w, t) PROVE LeaseHeld'
      <3>1. /\ task[t] = "pending" /\ task' = [task EXCEPT ![t] = "active"]
            /\ wtask'[w] = t /\ wpc'[w] = "claim"
        BY <1>0, <2>2 DEF Dequeue, Take, TypeInv, TypeOK, WorkerTypeOK
      <3>2. ASSUME NEW v \in lease
            PROVE  v # w /\ wtask[v] # t /\ task'[wtask[v]] = "active"
        <4>1. v # w /\ wtask[v] # t /\ wtask[v] \in Tasks /\ task[wtask[v]] = "active"
          BY <1>0, <2>2, <3>1 DEF Dequeue, LeaseHeld
        <4> QED BY <1>0, <3>1, <4>1, TaskWrite
      <3>3. task'[t] = "active"
        BY <1>0, <3>1 DEF TypeInv, TypeOK, QueueTypeOK
      <3> QED BY <1>0, <2>0, <2>1, <3>1, <3>2, <3>3 DEF LeaseHeld
    <2>3. CASE WorkerStep(w) \/ WorkerFault(w)
      <3>1. \A v \in lease \ {w} : task'[wtask[v]] = "active"
        BY <1>0, <2>3, NotItsTask DEF LeaseHeld
      <3>2. ASSUME w \in lease'
            PROVE  w \in lease /\ wpc'[w] # "idle" /\ wtask'[w] = wtask[w] /\ task' = task
        <4>1. ~Return(w, TRUE) /\ ~Return(w, FALSE) /\ ~Crash(w) /\ ~Shutdown(w) /\ ~LoseLease(w)
          BY <3>2 DEF Return, Crash, Shutdown, LoseLease, Free
        <4>2. GoesOn(w)
          BY <1>0, <2>3, <4>1, WorkerCases
        <4> QED BY <3>2, <4>2 DEF GoesOn
      <3> QED BY <1>0, <2>0, <2>1, <3>1, <3>2 DEF LeaseHeld
    <2> QED BY <2>2, <2>3
  <1> QED BY <1>1, <1>2

\* What a step does to a task and its charges.  A charge comes due with a fault
\* or an attempt that is over, and is made when it is due, with a fault, or for a
\* row that is settled.
TaskStep(t) ==
    \/ /\ task'[t] = task[t] /\ retried'[t] = retried[t]
       /\ Owed(t)' => \/ Owed(t)
                      \/ faults' = faults + 1
                      \/ Spent(t[1])' >= Spent(t[1]) + 1
    \/ task'[t] # "archived" /\ retried'[t] <= retried[t] /\ ~Owed(t)'
    \/ /\ FailedAt(t)
       /\ Owed(t) \/ Fault \/ IsTerminal(status[t[1]])

\* Every step does one of these to each task.
LEMMA TaskStepHolds ==
    ASSUME DeliveryInv, [Next]_vars, NEW t \in Tasks
    PROVE  TaskStep(t)
  <1>0. TypeInv /\ LeaseHeld /\ ClaimHolds /\ retried[t] \in Nat
    BY TaskQueueAssumption DEF DeliveryInv, TypeInv, TypeOK, QueueTypeOK
  <1>1. CASE ~WorkerNext
    <2>1. UNCHANGED <<wpc, wtask, wattempts, wresult, lease>>
      BY <1>1 DEF Next, IntakeNext, CancelNext, ReconcilerNext, QueueNext, RecoverLease,
                  ClockNext, Time, vars, workerVars
    <2>2. CASE task'[t] = task[t] /\ retried'[t] = retried[t]
      BY <2>1, <2>2 DEF TaskStep, Owed, Retrying
    <2>3. CASE task'[t] \notin {"active", "archived"} /\ retried'[t] <= retried[t]
      BY <2>3 DEF TaskStep, Owed
    <2>4. CASE task[t] = "active" /\ (\A w \in lease : wtask[w] # t) /\ FailedAt(t)
      BY <2>4 DEF TaskStep, Owed
    <2> QED BY <1>1, <2>2, <2>3, <2>4, QueueStep
  <1>2. CASE WorkerNext
    <2> PICK w \in Workers : \/ \E u \in Tasks : Dequeue(w, u)
                             \/ WorkerStep(w) \/ WorkerFault(w)
      BY <1>2 DEF WorkerNext
    <2>0. \A v \in Workers \ {w} : /\ wtask'[v] = wtask[v] /\ (v \in lease' <=> v \in lease)
                                   /\ Retrying(v)' <=> Retrying(v)
      BY <1>0, OtherWorkers DEF Retrying
    <2>1. lease \subseteq Workers /\ lease' \subseteq Workers
      BY TypeInvNext DEF DeliveryInv, TypeInv, TypeOK, WorkerTypeOK
    <2>2. ASSUME NEW u \in Tasks, Dequeue(w, u) PROVE TaskStep(t)
      <3>1. /\ task' = [task EXCEPT ![u] = "active"] /\ retried' = retried
            /\ wtask'[w] = u /\ wpc'[w] = "claim" /\ w \in lease' /\ w \notin lease
        BY <1>0, <2>2 DEF Dequeue, Take, LeaseHeld, TypeInv, TypeOK, WorkerTypeOK
      <3>2. CASE t = u
        <4>1. task'[t] = "active"
          BY <1>0, <3>1, <3>2 DEF TypeInv, TypeOK, QueueTypeOK
        <4>2. ~Owed(t)'
          BY <3>1, <3>2 DEF Owed, Retrying
        <4> QED BY <1>0, <3>1, <4>1, <4>2 DEF TaskStep
      <3>3. CASE t # u
        <4>1. task'[t] = task[t]
          BY <1>0, <3>1, <3>3 DEF TypeInv, TypeOK, QueueTypeOK
        <4>2. Owed(t)' => Owed(t)
          BY <2>0, <2>1, <3>1, <4>1 DEF Owed
        <4> QED BY <3>1, <4>1, <4>2 DEF TaskStep
      <3> QED BY <3>2, <3>3
    <2>3. CASE (WorkerStep(w) \/ WorkerFault(w)) /\ (w \notin lease \/ t # wtask[w])
      <3>1. task'[t] = task[t] /\ retried'[t] = retried[t]
        BY <1>0, <2>3, NotItsTask
      <3>2. Owed(t)' => Owed(t)
        BY <2>0, <2>1, <2>3, <3>1 DEF Owed
      <3> QED BY <3>1, <3>2 DEF TaskStep
    <2>4. CASE (WorkerStep(w) \/ WorkerFault(w)) /\ w \in lease /\ t = wtask[w]
      <3>0. \A v \in lease : wtask[v] = t => v = w
        BY <1>0, <2>4 DEF LeaseHeld
      <3>1. CASE GoesOn(w)
        <4>1. CASE ApplyResult(w)
          <5>1. /\ Row(w) = t[1] /\ Spent(t[1])' = wattempts[w]
                /\ Spent(t[1]) = wattempts[w] - 1 /\ wattempts[w] \in Nat
            BY <1>0, <2>4, <4>1, ApplySpends DEF Row, Spent, TypeInv, TypeOK, WorkerTypeOK
          <5>2. Spent(t[1])' >= Spent(t[1]) + 1
            BY <5>1
          <5> QED BY <3>1, <5>2 DEF TaskStep, GoesOn
        <4>2. CASE ~ApplyResult(w)
          <5>1. ~Owed(t)'
            BY <2>4, <3>1, <4>2 DEF GoesOn, Owed, Retrying
          <5> QED BY <3>1, <5>1 DEF TaskStep, GoesOn
        <4> QED BY <4>1, <4>2
      <3>2. CASE wpc[w] # "idle" /\ Return(w, TRUE)
        <4>1. task'[t] = "none" /\ retried'[t] = 0
          BY <1>0, <2>4, <3>2, ReturnWrites
        <4> QED BY <1>0, <4>1 DEF TaskStep, Owed
      <3>3. CASE /\ wpc[w] # "idle" /\ Return(w, FALSE)
                 /\ HandlerFault(w) \/ ApplyConflict(w) \/ Retrying(w)
        <4>1. FailedAt(t)
          BY <1>0, <2>4, <3>3, ReturnWrites
        <4>2. ASSUME ApplyConflict(w) PROVE IsTerminal(status[t[1]])
          BY <1>0, <2>4, <4>2 DEF ApplyConflict, ConcurrentUpdate, ClaimHolds, InFlight,
                                  Row, IsTerminal
        <4>3. ASSUME Retrying(w) PROVE Owed(t)
          BY <1>0, <2>4, <3>0, <4>3 DEF Owed, LeaseHeld
        <4> QED BY <3>3, <4>1, <4>2, <4>3 DEF TaskStep, HandlerFault
      <3>4. CASE Crash(w) \/ LoseLease(w)
        BY <3>4 DEF Crash, LoseLease, Fault, TaskStep, queueVars
      <3>5. CASE Shutdown(w)
        <4>1. task' = [task EXCEPT ![t] = "pending"] /\ retried' = retried
          BY <2>4, <3>5 DEF Shutdown, Requeue
        <4>2. task'[t] = "pending"
          BY <1>0, <4>1 DEF TypeInv, TypeOK, QueueTypeOK
        <4> QED BY <1>0, <4>1, <4>2 DEF TaskStep, Owed
      <3> QED BY <1>0, <2>4, <3>1, <3>2, <3>3, <3>4, <3>5, WorkerCases
    <2> QED BY <2>2, <2>3, <2>4
  <1> QED BY <1>1, <1>2

\* The charges of a task stay covered.
LEMMA ChargesNext == DeliveryInv /\ [Next]_vars => ChargesCovered'
  <1> SUFFICES ASSUME DeliveryInv, [Next]_vars, NEW t \in Tasks, ~IsTerminal(status'[t[1]])
               PROVE  retried'[t] + (IF Owed(t)' THEN 1 ELSE 0) <= faults' + Spent(t[1])'
    BY DEF ChargesCovered
  <1> DEFINE n == t[1]
  <1>1. n \in Notifs
    BY TaskRow
  <1>2. /\ ~IsTerminal(status[n]) /\ Spent(n)' >= Spent(n)
        /\ Spent(n) \in Nat /\ Spent(n)' \in Int
    <2>1. attempts'[n] \in Nat
      BY <1>1, TypeInvNext DEF DeliveryInv, TypeInv, TypeOK, StoreTypeOK
    <2> QED BY <1>1, <2>1, SpentGrows, SpentBound DEF Spent
  <1>3. retried[t] + (IF Owed(t) THEN 1 ELSE 0) <= faults + Spent(n)
    BY <1>2 DEF DeliveryInv, ChargesCovered
  <1>4. /\ faults \in Nat /\ faults' \in Nat /\ faults' >= faults
        /\ retried[t] \in Nat /\ retried'[t] \in Nat /\ TaskStep(t)
    BY FaultsGrow, TaskStepHolds, TypeInvNext, TaskQueueAssumption
    DEF DeliveryInv, TypeInv, TypeOK, QueueTypeOK
  <1> HIDE DEF n
  <1>5. ASSUME Fault PROVE faults' = faults + 1
    BY <1>5 DEF Fault
  <1>6. ASSUME FailedAt(t) PROVE ~Owed(t)' /\ retried'[t] <= retried[t] + 1
    BY <1>4, <1>6 DEF FailedAt, Owed
  <1> QED BY <1>2, <1>3, <1>4, <1>5, <1>6 DEF TaskStep, n

-----------------------------------------------------------------------------
(***************************************************************************)
(* The theorems                                                            *)
(***************************************************************************)

\* The invariant holds before the first request arrives.
LEMMA DeliveryInvInit == Init => DeliveryInv
  <1> SUFFICES ASSUME Init PROVE DeliveryInv
    OBVIOUS
  <1>1. TypeInv
    BY TypeInvInit
  <1>2. /\ ExclusiveProcessing /\ ClaimHolds /\ AcksAgree /\ SendsAgree
        /\ FreshRows /\ OutcomesTruthful /\ OutcomeWritten
    BY WorkerAssumption
    DEF Init, StoreInit, WorkerInit, ExclusiveProcessing, ClaimHolds, AcksAgree,
        SendsAgree, FreshRows, OutcomesTruthful, OutcomeWritten, InFlight,
        BeforeSend
  <1>3. CancelCopies /\ SweepCopies
    BY DEF Init, CancelInit, ReconcilerInit, CancelCopies, CancelCopy,
           SweepCopies, SweepCopy
  <1>4. TrailKept
    BY DEF Init, StoreInit, IntakeInit, TrailKept
  <1>5. ScheduleHolds
    <2>1. \A n \in Notifs, b \in BOOLEAN : task[TaskIDFor(n, b)] = "none"
      BY DEF Init, QueueInit, TaskIDFor, Tasks
    <2> QED
      BY <2>1 DEF Init, StoreInit, WorkerInit, ReconcilerInit, ScheduleHolds, OutOfReach
  <1>6. LeaseHeld /\ AttemptsWithin
    BY DEF Init, StoreInit, WorkerInit, LeaseHeld, AttemptsWithin
  <1>7. ChargesCovered
    <2>1. \A t \in Tasks : t[1] \in Notifs
      BY TaskRow
    <2> QED BY <2>1 DEF Init, StoreInit, QueueInit, ChargesCovered, Owed, Spent
  <1> QED BY <1>1, <1>2, <1>3, <1>4, <1>5, <1>6, <1>7 DEF DeliveryInv

\* Every step preserves it.
LEMMA DeliveryInvNext == DeliveryInv /\ [Next]_vars => DeliveryInv'
  <1> SUFFICES ASSUME DeliveryInv, [Next]_vars PROVE DeliveryInv'
    OBVIOUS
  <1>1. TypeInv'
    BY TypeInvNext DEF DeliveryInv
  <1> QED
    BY <1>1, CoreNext, CopiesCancel, CopiesSweep, OutcomeStays, TruthNext,
       TrailNext, ScheduleNext, LeaseNext, AttemptsNext, ChargesNext
    DEF DeliveryInv, CoreInv

\* What each actor of the pipeline relies on between two of its steps holds in
\* every behaviour, for any number of actors, faults and attempts.
THEOREM Invariance == Spec => []DeliveryInv
  BY DeliveryInvInit, DeliveryInvNext, PTL DEF Spec

\* The conditional UPDATE of ClaimForProcessing is lock enough: two workers are
\* never in flight with the same row.
THEOREM Exclusion == Spec => []ExclusiveProcessing
  <1>1. DeliveryInv => ExclusiveProcessing
    BY DEF DeliveryInv
  <1> QED BY <1>1, Invariance, PTL

\* No row is acknowledged by the provider twice, and an acknowledged row is
\* never put back where it could be sent or cancelled.
THEOREM AtMostOneAck == Spec => []NeverSentTwice
  <1>1. DeliveryInv => NeverSentTwice
    BY DEF DeliveryInv, TypeInv, TypeOK, StoreTypeOK, AcksAgree, NeverSentTwice,
           RowStates, Statuses
  <1> QED BY <1>1, Invariance, PTL

\* A row says delivered only if the provider said so.
THEOREM DeliveredHonest == Spec => []DeliveredIsAcknowledged
  <1>1. DeliveryInv => DeliveredIsAcknowledged
    BY DEF DeliveryInv, AcksAgree, DeliveredIsAcknowledged
  <1> QED BY <1>1, Invariance, PTL

\* However many claims denials, redeliveries and sweeps add, the provider is
\* called at most MaxAttempts times for a row.
THEOREM CallsBounded == Spec => []ProviderCallsBounded
  <1>1. DeliveryInv => ProviderCallsBounded
    BY DEF DeliveryInv, SendsAgree, ProviderCallsBounded
  <1> QED BY <1>1, Invariance, PTL

\* A terminal event in the audit trail or on the feed is the row's status.
THEOREM Truth == Spec => []OutcomesTruthful
  <1>1. DeliveryInv => OutcomesTruthful
    BY DEF DeliveryInv
  <1> QED BY <1>1, Invariance, PTL

\* A request that was answered with success has left its row out of pending and
\* its trail complete, whatever sweeps and workers did meanwhile.
THEOREM AcceptedComplete == Spec => []AcceptedIsQueued
  <1>1. DeliveryInv => AcceptedIsQueued
    BY DEF DeliveryInv, TrailKept, AcceptedIsQueued
  <1> QED BY <1>1, Invariance, PTL

\* Before its scheduled_at a row that its own request moved to queued has no
\* task ready and is in no worker's hands.
THEOREM ScheduleKept == Spec => []NotBeforeSchedule
  <1>1. ASSUME DeliveryInv, NEW n \in Notifs, schedule[n] = "future",
               ipc[n] \in {"marked", "accepted"}
        PROVE  OutOfReach(n)
    BY <1>1 DEF DeliveryInv, ScheduleHolds, Withheld
  <1>2. DeliveryInv => NotBeforeSchedule
    BY <1>1, ReachTasks DEF DeliveryInv, NotBeforeSchedule, OutOfReach
  <1> QED BY <1>2, Invariance, PTL

\* While the faults and the attempts of a behaviour fit into asynq's retry budget,
\* no step archives a task of a row that is still open.
LEMMA ArchivedNext ==
    ASSUME MaxFaults + MaxDenials + MaxAttempts <= MaxRetry + 1,
           DeliveryInv, ArchivedIsSettled, [Next]_vars
    PROVE  ArchivedIsSettled'
  <1> SUFFICES ASSUME NEW t \in Tasks, task'[t] = "archived"
               PROVE  IsTerminal(status'[t[1]])
    BY DEF ArchivedIsSettled
  <1>1. t[1] \in Notifs
    BY TaskRow
  <1>2. CASE IsTerminal(status[t[1]])
    BY <1>1, <1>2, StatusStepHolds DEF StatusStep
  <1>3. CASE ~IsTerminal(status[t[1]])
    <2>1. FailedAt(t) /\ (Owed(t) \/ Fault)
      BY <1>3, TaskStepHolds DEF TaskStep, ArchivedIsSettled
    <2>2. retried[t] = MaxRetry
      BY <2>1 DEF FailedAt
    <2>3. retried[t] + (IF Owed(t) THEN 1 ELSE 0) <= faults + Spent(t[1])
      BY <1>3 DEF DeliveryInv, ChargesCovered
    <2>4. /\ Spent(t[1]) \in Nat /\ Spent(t[1]) < MaxAttempts + denials
          /\ denials \in Nat /\ denials <= MaxDenials
          /\ faults \in Nat /\ faults <= MaxFaults
          /\ MaxRetry \in Nat /\ MaxFaults \in Nat /\ MaxDenials \in Nat /\ MaxAttempts \in Nat
      BY <1>1, <1>3, SpentBound, StoreAssumption, TaskQueueAssumption, WorkerAssumption
      DEF DeliveryInv, TypeInv, TypeOK, StoreTypeOK, WorkerTypeOK
    <2>5. CASE Owed(t)
      BY <2>2, <2>3, <2>4, <2>5
    <2>6. CASE Fault
      <3>1. faults < MaxFaults
        BY <2>6 DEF Fault
      <3> QED BY <2>2, <2>3, <2>4, <3>1
    <2> QED BY <2>1, <2>5, <2>6
  <1> QED BY <1>2, <1>3

\* While the faults and the attempts of a behaviour fit into asynq's retry budget,
\* a row that a sweep would have to put back is not locked out of the queue by an
\* archived task: no redelivery that finds the row claimed or not yet queued
\* spends that budget.
THEOREM NoLockout ==
    ASSUME MaxFaults + MaxDenials + MaxAttempts <= MaxRetry + 1
    PROVE  Spec => []NeverLockedOut
  <1>1. Init => ArchivedIsSettled
    BY DEF Init, QueueInit, ArchivedIsSettled
  <1>2. DeliveryInv /\ ArchivedIsSettled /\ [Next]_vars => ArchivedIsSettled'
    BY ArchivedNext
  <1>3. ArchivedIsSettled => NeverLockedOut
    <2>1. \A n \in Notifs, b \in BOOLEAN : TaskIDFor(n, b) \in Tasks /\ TaskIDFor(n, b)[1] = n
      BY DEF TaskIDFor, Tasks
    <2>2. \A s \in {"pending", "queued", "retrying"} : ~IsTerminal(s)
      BY DEF IsTerminal
    <2>3. \A n \in Notifs : (n \in keyed) \in BOOLEAN
      OBVIOUS
    <2> QED BY <2>1, <2>2, <2>3 DEF ArchivedIsSettled, NeverLockedOut
  <1> QED BY <1>1, <1>2, <1>3, Invariance, PTL DEF Spec

\* No step of any actor takes a row out of a terminal status.
THEOREM Finality == Spec => TerminalIsFinal
  <1>1. DeliveryInv /\ [Next]_vars
          => [\A n \in Notifs : IsTerminal(status[n]) => status'[n] = status[n]]_vars
    BY StatusStepHolds DEF StatusStep
  <1> QED BY <1>1, Invariance, PTL DEF Spec, TerminalIsFinal

\* A row whose cancellation has been written is never sent.
THEOREM CancelledSafe == Spec => CancelledIsNeverSent
  <1>1. ASSUME DeliveryInv, [Next]_vars, NEW n \in Notifs, status[n] = "cancelled"
        PROVE  sends'[n] = sends[n]
    <2>1. CASE UNCHANGED sends
      BY <2>1
    <2>2. ASSUME NEW w \in Workers, NEW r, Send(w, r)
          PROVE  sends'[n] = sends[n]
      <3>1. Row(w) # n
        BY <1>1, <2>2 DEF DeliveryInv, ClaimHolds, InFlight, Send, Step
      <3> QED BY <2>2, <3>1, <1>1 DEF Send, DeliveryInv, TypeInv, TypeOK, WorkerTypeOK
    <2>3. CASE WorkerNext
      BY <2>1, <2>2, <2>3 DEF WorkerNext, Dequeue, WorkerStep, WorkerFault, Claim,
         AlreadyClaimed, RecordProcessing, Allowed, Denied, ShortCircuit,
         ApplyResult, ApplyConflict, RecordOutcome, HandlerFault, Crash, Shutdown,
         LoseLease, Return
    <2> QED
      BY <1>1, <2>1, <2>3 DEF Next, IntakeNext, CancelNext, ReconcilerNext,
         QueueNext, RecoverLease, ClockNext, Time, vars, workerVars
  <1>2. DeliveryInv /\ [Next]_vars
          => [\A n \in Notifs : status[n] = "cancelled" => sends'[n] = sends[n]]_vars
    BY <1>1
  <1> QED BY <1>2, Invariance, PTL DEF Spec, CancelledIsNeverSent

-----------------------------------------------------------------------------
(***************************************************************************)
(* The pipeline implements the abstract life cycle of its rows: each step  *)
(* of an actor is one step of Lifecycle, or changes nothing it can see.    *)
(***************************************************************************)

\* The edges of the transition table, as the refinement uses them.
LEMMA Edges ==
    /\ Abstract!CanTransitionTo("pending", "queued")
    /\ \A s \in {"queued", "retrying"} : Abstract!CanTransitionTo(s, "processing")
    /\ \A s \in {"delivered", "failed", "retrying"} :
          Abstract!CanTransitionTo("processing", s)
    /\ \A s \in {"pending", "queued", "retrying"} :
          Abstract!CanTransitionTo(s, "cancelled")
  BY DEF Abstract!CanTransitionTo, Abstract!ValidTransitions, Abstract!Statuses

\* Rewriting a count with itself changes nothing.
LEMMA SameCount ==
    ASSUME TypeInv, NEW n \in Notifs,
           attempts' = [attempts EXCEPT ![n] = attempts[n]]
    PROVE  attempts' = attempts
  BY DEF TypeInv, TypeOK, StoreTypeOK

\* An INSERT creates its rows.
LEMMA InsertCreates ==
    ASSUME NEW S \in SUBSET Notifs, S # {}, NEW K, NEW at, Insert(S, K, at),
           acks' = acks
    PROVE  Abstract!LifecycleNext
  BY DEF Insert, Abstract!Create, Abstract!LifecycleNext

\* A guarded UPDATE of a pending row, by its request or by the orphan sweep.
LEMMA PendingQueues ==
    ASSUME DeliveryInv, NEW n \in Notifs, UpdateStatus(n, "queued", 0, "pending"),
           acks' = acks
    PROVE  Abstract!LifecycleNext
  <1>1. attempts[n] = 0
    BY DEF UpdateStatus, DeliveryInv, FreshRows
  <1>2. attempts' = attempts
    BY <1>1, SameCount DEF UpdateStatus, DeliveryInv
  <1>3. Abstract!Queue(n)
    BY <1>2, Edges DEF UpdateStatus, Abstract!Queue, Abstract!Move
  <1> QED BY <1>3 DEF Abstract!LifecycleNext

\* The guarded UPDATE of a cancellation or of the stuck sweep.
LEMMA UpdateSettles ==
    ASSUME TypeInv, NEW n \in Notifs, NEW s \in {"failed", "cancelled"},
           NEW a \in Nat, NEW expected, UpdateStatus(n, s, a, expected),
           a <= attempts[n], Abstract!CanTransitionTo(expected, s),
           s = "cancelled" => acks[n] = 0,
           acks' = acks
    PROVE  Abstract!LifecycleNext
  <1>1. a \in 0..attempts[n]
    BY DEF TypeInv, TypeOK, StoreTypeOK
  <1>2. Abstract!Settle(n, s)
    BY <1>1 DEF UpdateStatus, Abstract!Settle, Abstract!Move
  <1> QED BY <1>2 DEF Abstract!LifecycleNext

\* The steps of a request.
LEMMA IntakeRefines ==
    DeliveryInv /\ IntakeNext
        => Abstract!LifecycleNext \/ UNCHANGED <<status, attempts, acks>>
  <1> SUFFICES ASSUME DeliveryInv, IntakeNext
               PROVE  Abstract!LifecycleNext \/ UNCHANGED <<status, attempts, acks>>
    OBVIOUS
  <1>0. acks' = acks
    BY DEF IntakeNext, workerVars
  <1>1. CASE IntakeArrival
    <2>1. ASSUME NEW n \in Notifs, NEW k, NEW at, CreateNotification(n, k, at)
          PROVE  Abstract!LifecycleNext
      <3>1. {n} \in SUBSET Notifs /\ {n} # {}
        OBVIOUS
      <3> QED BY <1>0, <2>1, <3>1, InsertCreates DEF CreateNotification
    <2>2. ASSUME NEW S \in SUBSET Notifs, S # {}, CreateBatch(S)
          PROVE  Abstract!LifecycleNext
      BY <1>0, <2>2, InsertCreates DEF CreateBatch
    <2> QED BY <1>1, <2>1, <2>2 DEF IntakeArrival
  <1>2. ASSUME NEW n \in Notifs, IntakeStep(n) \/ IntakeFault(n)
        PROVE  Abstract!LifecycleNext \/ UNCHANGED <<status, attempts, acks>>
    <2>1. CASE MarkQueued(n)
      BY <1>0, <2>1, PendingQueues DEF MarkQueued
    <2>2. CASE ~MarkQueued(n)
      BY <1>0, <1>2, <2>2 DEF IntakeStep, IntakeFault, RecordCreated, Enqueue,
         EnqueueConflict, MarkQueuedConflict, RecordQueued, AppendLog,
         ConcurrentUpdate, Fault, storeVars
    <2> QED BY <2>1, <2>2
  <1> QED BY <1>1, <1>2 DEF IntakeNext

\* The steps of a cancellation.
LEMMA CancelRefines ==
    DeliveryInv /\ CancelNext
        => Abstract!LifecycleNext \/ UNCHANGED <<status, attempts, acks>>
  <1> SUFFICES ASSUME DeliveryInv, NEW c \in Cancels,
                      CancelArrival(c) \/ CancelStep(c) \/ CancelFault(c),
                      acks' = acks
               PROVE  Abstract!LifecycleNext \/ UNCHANGED <<status, attempts, acks>>
    BY DEF CancelNext, workerVars
  <1>1. CASE CancelUpdate(c)
    <2> DEFINE n == cnotif[c]
    <2>1. /\ n \in Notifs /\ cattempts[c] \in Nat
          /\ UpdateStatus(n, "cancelled", cattempts[c], cstatus[c])
          /\ cstatus[c] \in {"pending", "queued", "retrying"}
          /\ status[n] = cstatus[c]
      BY <1>1 DEF CancelUpdate, Goto, UpdateStatus, DeliveryInv, CancelCopies,
                  CancelCopy, TypeInv, TypeOK, CancelTypeOK
    <2>2. cattempts[c] <= attempts[n]
      BY <1>1, <2>1 DEF CancelUpdate, Goto, DeliveryInv, CancelCopies, CancelCopy,
                        IsTerminal
    <2>3. acks[n] = 0
      BY <2>1 DEF DeliveryInv, AcksAgree
    <2> QED BY <2>1, <2>2, <2>3, Edges, UpdateSettles DEF DeliveryInv
  <1>2. CASE ~CancelUpdate(c)
    BY <1>2 DEF CancelArrival, CancelStep, CancelFault, CancelGet, CancelTooLate,
       CancelConflict, CancelLog, CancelDequeue, CancelDequeueRefused, AppendLog,
       ConcurrentUpdate, Fault, storeVars
  <1> QED BY <1>1, <1>2

\* The steps of a worker.
LEMMA WorkerRefines ==
    DeliveryInv /\ WorkerNext
        => Abstract!LifecycleNext \/ UNCHANGED <<status, attempts, acks>>
  <1> SUFFICES ASSUME DeliveryInv, NEW w \in Workers,
                      \/ \E t \in Tasks : Dequeue(w, t)
                      \/ WorkerStep(w) \/ WorkerFault(w)
               PROVE  Abstract!LifecycleNext \/ UNCHANGED <<status, attempts, acks>>
    BY DEF WorkerNext
  <1>0. TypeInv /\ (wpc[w] # "idle" => Row(w) \in Notifs)
    BY BusyRow DEF DeliveryInv
  <1>1. CASE Claim(w)
    <2>1. Row(w) \in Notifs /\ status[Row(w)] \in {"queued", "retrying"}
      BY <1>0, <1>1 DEF Claim, Step, ClaimForProcessing, Claimable
    <2>2. Abstract!Claim(Row(w))
      BY <1>1, <2>1, Edges
      DEF Claim, ClaimForProcessing, Abstract!Claim, Abstract!Move
    <2> QED BY <2>1, <2>2 DEF Abstract!LifecycleNext
  <1>2. ASSUME NEW r, Send(w, r)
        PROVE  Abstract!LifecycleNext \/ UNCHANGED <<status, attempts, acks>>
    <2>1. /\ Row(w) \in Notifs /\ acks[Row(w)] = 0
          /\ status[Row(w)] \in {"processing", "failed"}
          /\ UNCHANGED <<status, attempts>>
      BY <1>0, <1>2 DEF Send, Step, DeliveryInv, ClaimHolds, AcksAgree, InFlight,
                        BeforeSend, storeVars
    <2>2. CASE r = "success"
      <3>1. acks' = [acks EXCEPT ![Row(w)] = 1]
        BY <1>2, <2>1, <2>2 DEF Send
      <3>2. Abstract!Acknowledge(Row(w))
        BY <2>1, <3>1 DEF Abstract!Acknowledge
      <3> QED BY <2>1, <3>2 DEF Abstract!LifecycleNext
    <2>3. CASE r # "success"
      BY <1>2, <2>1, <2>3 DEF Send
    <2> QED BY <2>2, <2>3
  <1>3. CASE ApplyResult(w)
    <2> DEFINE n == Row(w)
               out == Outcome(wresult[w], wattempts[w])
    <2>1. /\ n \in Notifs /\ status[n] = "processing" /\ acks' = acks
          /\ wpc[w] = "apply" /\ wattempts[w] = attempts[n]
          /\ status' = [status EXCEPT ![n] = out]
          /\ attempts' = [attempts EXCEPT ![n] = attempts[n]]
      <3>1. /\ wpc[w] = "apply" /\ acks' = acks /\ n \in Notifs
            /\ UpdateStatus(n, out, wattempts[w], "processing")
        BY <1>0, <1>3 DEF ApplyResult, Step
      <3>2. wattempts[w] = attempts[n]
        BY <3>1 DEF UpdateStatus, DeliveryInv, ClaimHolds, InFlight
      <3> QED BY <3>1, <3>2 DEF UpdateStatus
    <2>2. attempts' = attempts
      BY <1>0, <2>1, SameCount
    <2>3. acks[n] = IF out = "delivered" THEN 1 ELSE 0
      <3>1. acks[n] \in {0, 1} /\ (acks[n] = 1 <=> wresult[w] = "success")
        BY <2>1 DEF DeliveryInv, AcksAgree
      <3>2. out = "delivered" <=> wresult[w] = "success"
        BY DEF Outcome
      <3> QED BY <3>1, <3>2
    <2>4. Abstract!Move(n, out)
      BY <2>1, Edges, OutcomeType DEF Abstract!Move
    <2>5. CASE out = "delivered"
      BY <2>1, <2>2, <2>3, <2>4, <2>5 DEF Abstract!LifecycleNext, Abstract!Deliver
    <2>6. CASE out = "retrying"
      BY <2>1, <2>2, <2>3, <2>4, <2>6 DEF Abstract!LifecycleNext, Abstract!Retry
    <2>7. CASE out = "failed"
      <3>1. attempts[n] \in 0..attempts[n]
        BY <1>0, <2>1 DEF TypeInv, TypeOK, StoreTypeOK
      <3>2. Abstract!Settle(n, "failed")
        BY <2>1, <2>4, <2>7, <3>1 DEF Abstract!Settle
      <3> QED BY <2>1, <3>2 DEF Abstract!LifecycleNext
    <2> QED BY <2>5, <2>6, <2>7, OutcomeType
  <1>4. CASE ~Claim(w) /\ ~(\E r : Send(w, r)) /\ ~ApplyResult(w)
    BY <1>4 DEF Dequeue, WorkerStep, WorkerFault, AlreadyClaimed, RecordProcessing,
       RecordEvent, AppendLog, Allowed, Denied, ShortCircuit, ApplyConflict,
       ConcurrentUpdate, RecordOutcome, HandlerFault, Crash, Shutdown, LoseLease,
       Return, Fault, storeVars
  <1> QED BY <1>1, <1>2, <1>3, <1>4

\* The steps of a reconciler.
LEMMA ReconcilerRefines ==
    DeliveryInv /\ ReconcilerNext
        => Abstract!LifecycleNext \/ UNCHANGED <<status, attempts, acks>>
  <1> SUFFICES ASSUME DeliveryInv, NEW r \in Reconcilers,
                      ReconcilerStep(r) \/ ReconcilerFault(r), acks' = acks
               PROVE  Abstract!LifecycleNext \/ UNCHANGED <<status, attempts, acks>>
    BY DEF ReconcilerNext, workerVars
  <1>1. ASSUME NEW n \in Notifs, HandleRow(r, n)
        PROVE  Abstract!LifecycleNext
    <2>1. /\ n \in rwork[r] /\ rattempts[r][n] \in Nat
          /\ IsTerminal(status[n]) \/ rattempts[r][n] <= attempts[n]
          /\ rsweep[r] = "orphaned" => rattempts[r][n] = 0
      BY <1>1 DEF HandleRow, DeliveryInv, SweepCopies, SweepCopy, TypeInv, TypeOK,
                  ReconcilerTypeOK
    <2>2. CASE rsweep[r] = "orphaned"
      BY <1>1, <2>1, <2>2, PendingQueues DEF HandleRow, Source, Target
    <2>3. CASE rsweep[r] = "stuck"
      <3>1. /\ UpdateStatus(n, "failed", rattempts[r][n], "processing")
            /\ rattempts[r][n] <= attempts[n]
        BY <1>1, <2>1, <2>3
        DEF HandleRow, Source, Target, UpdateStatus, IsTerminal
      <3> QED BY <2>1, <3>1, Edges, UpdateSettles DEF DeliveryInv
    <2> QED BY <1>1, <2>2, <2>3 DEF HandleRow
  <1>2. CASE ~(\E n \in Notifs : HandleRow(r, n))
    BY <1>2 DEF ReconcilerStep, ReconcilerFault, Sweep, HandleRowConflict,
       HandleLog, ReEnqueue, ReEnqueueConflict, AppendLog, ConcurrentUpdate, Fault,
       storeVars
  <1> QED BY <1>1, <1>2

\* The pipeline implements the life cycle: a row moves only along the edges of
\* the transition table, counts one attempt per claim, and is marked delivered,
\* retried or cancelled in accordance with what the provider has acknowledged.
THEOREM Refinement == Spec => ImplementsLifecycle
  <1>1. Init => Abstract!LifecycleInit
    BY DEF Init, StoreInit, WorkerInit, Abstract!LifecycleInit
  <1>2. DeliveryInv /\ [Next]_vars
          => [Abstract!LifecycleNext]_(Abstract!lifecycleVars)
    <2> SUFFICES ASSUME DeliveryInv, [Next]_vars
                 PROVE  Abstract!LifecycleNext \/ UNCHANGED <<status, attempts, acks>>
      BY DEF Abstract!lifecycleVars
    <2>1. CASE QueueNext \/ ClockNext \/ UNCHANGED vars
      BY <2>1 DEF QueueNext, RecoverLease, ClockNext, Time, GrowStale,
                  ReachSchedule, vars, storeVars, workerVars
    <2> QED
      BY <2>1, IntakeRefines, CancelRefines, WorkerRefines, ReconcilerRefines
      DEF Next
  <1> QED
    BY <1>1, <1>2, Invariance, PTL DEF Spec, ImplementsLifecycle,
       Abstract!LifecycleSpec
=============================================================================
