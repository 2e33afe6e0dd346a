------------------------------- MODULE Intake -------------------------------
(***************************************************************************)
(* The API's write path: CreateNotification and CreateBatch. A request     *)
(* inserts its row (a batch inserts all its rows in one transaction) and   *)
(* then, row by row, logs "created", enqueues the task, moves the row to   *)
(* queued and logs "queued". The first error ends the request and leaves   *)
(* every row it has not finished where it is.                              *)
(***************************************************************************)
EXTENDS TaskQueue

CONSTANTS KeyChoices,        \* may a request carry an Idempotency-Key?
          ScheduleChoices    \* the values of scheduled_at a request may have

ASSUME IntakeAssumption == /\ KeyChoices \subseteq BOOLEAN
                           /\ ScheduleChoices \subseteq {"none", "future", "due"}

VARIABLES ipc,         \* how far the request that creates n has come with n
          batch        \* the rows created by the same request as n

intakeVars == <<ipc, batch>>

IntakeSteps == {"new", "created", "logged", "enqueued", "marked", "accepted",
                "aborted"}

IntakeTypeOK ==
    /\ ipc \in [Notifs -> IntakeSteps]
    /\ batch \in [Notifs -> SUBSET Notifs]

IntakeInit ==
    /\ ipc = [n \in Notifs |-> "new"]
    /\ batch = [n \in Notifs |-> {}]

Advance(n, from, to) ==
    /\ ipc[n] = from
    /\ ipc' = [ipc EXCEPT ![n] = to]
    /\ UNCHANGED batch

\* The error return: the members the loop has not reached stay unfinished too.
Abort(n) ==
    /\ ipc' = [m \in Notifs |-> IF m = n \/ (m \in batch[n] /\ ipc[m] # "accepted")
                                THEN "aborted" ELSE ipc[m]]
    /\ UNCHANGED batch

\* The loop over a batch finishes one member before it starts the next.
MyTurn(n) ==
    \A m \in batch[n] \ {n} : ipc[m] \in {"created", "accepted"}

-----------------------------------------------------------------------------

Begin(S) ==
    /\ ipc' = [n \in Notifs |-> IF n \in S THEN "created" ELSE ipc[n]]
    /\ batch' = [n \in Notifs |-> IF n \in S THEN S ELSE batch[n]]
    /\ UNCHANGED queueVars

\* repo.Create: a single row, perhaps with a key, perhaps scheduled. Nothing
\* here refuses a scheduled_at in the past.
CreateNotification(n, withKey, at) ==
    /\ ipc[n] = "new"
    /\ Insert({n}, IF withKey THEN {n} ELSE {}, at)
    /\ Begin({n})

\* batchRepo.Create: members carry neither a key nor a schedule.
CreateBatch(S) ==
    /\ \A n \in S : ipc[n] = "new"
    /\ Insert(S, {}, "none")
    /\ Begin(S)

RecordCreated(n) ==
    /\ MyTurn(n)
    /\ Advance(n, "created", "logged")
    /\ AppendLog(n, "created")
    /\ UNCHANGED queueVars

\* A scheduled task never carries the key.
RequestTask(n) == TaskIDFor(n, n \in keyed /\ schedule[n] = "none")

Enqueue(n) ==
    /\ Advance(n, "logged", "enqueued")
    /\ EnqueueAs(RequestTask(n), IF schedule[n] = "future" THEN "scheduled"
                                                           ELSE "pending")
    /\ UNCHANGED storeVars

EnqueueConflict(n) ==
    /\ ipc[n] = "logged"
    /\ EnqueueRefused(RequestTask(n))
    /\ Abort(n)
    /\ UNCHANGED storeVars

\* Mutant: an UPDATE that fails is taken for done.
MarkQueuedBestEffort(n) ==
    /\ Advance(n, "enqueued", "marked")
    /\ \/ UpdateStatus(n, "queued", 0, "pending")
       \/ Fault /\ UNCHANGED log
    /\ UNCHANGED queueVars

\* The request's entity was built with zero attempts.
MarkQueued(n) ==
    /\ Advance(n, "enqueued", "marked")
    /\ UpdateStatus(n, "queued", 0, "pending")
    /\ UNCHANGED queueVars

MarkQueuedConflict(n) ==
    /\ ipc[n] = "enqueued"
    /\ ConcurrentUpdate(n, "pending")
    /\ Abort(n)
    /\ UNCHANGED queueVars

RecordQueued(n) ==
    /\ Advance(n, "marked", "accepted")
    /\ AppendLog(n, "queued")
    /\ UNCHANGED queueVars

\* Any of the calls above fails, or the API process dies between two of them.
IntakeFault(n) ==
    /\ MyTurn(n)
    /\ ipc[n] \in {"created", "logged", "enqueued", "marked"}
    /\ Fault
    /\ Abort(n)
    /\ UNCHANGED <<log, queueVars>>

IntakeStep(n) ==
    \/ RecordCreated(n)
    \/ Enqueue(n) \/ EnqueueConflict(n)
    \/ MarkQueued(n) \/ MarkQueuedConflict(n)
    \/ RecordQueued(n)

IntakeArrival ==
    \/ \E n \in Notifs, withKey \in KeyChoices, at \in ScheduleChoices :
            CreateNotification(n, withKey, at)
    \/ \E S \in (SUBSET Notifs) \ {{}} : CreateBatch(S)
=============================================================================
