------------------------- MODULE DeliveryInvariant --------------------------
(***************************************************************************)
(* The inductive invariant of the delivery pipeline: why its safety        *)
(* properties hold, as a conjunction of what each actor may rely on        *)
(* between two of its steps.                                               *)
(***************************************************************************)
EXTENDS Delivery

\* The worker holds the row and has not called the provider for it yet.
BeforeSend(w) == wpc[w] \in {"record", "limit", "send"}

\* A busy worker holds a task. Type correctness needs it: the claim copies the
\* attempt count of the row the task names.
BusyHasTask == \A w \in Workers : wpc[w] # "idle" => wtask[w] \in Tasks

TypeInv == TypeOK /\ BusyHasTask

\* A row in flight is processing, with the attempts its worker counts, unless
\* a sweep has failed it; only the sweep can intervene.
ClaimHolds ==
    \A w \in Workers : InFlight(w) =>
        \/ status[Row(w)] = "processing" /\ attempts[Row(w)] = wattempts[w]
        \/ status[Row(w)] = "failed"

\* Acknowledgements against the status of the row and the step of its worker.
AcksAgree ==
    /\ \A n \in Notifs :
        /\ acks[n] \in {0, 1}
        /\ status[n] \notin {"processing", "delivered", "failed"} => acks[n] = 0
        /\ status[n] = "delivered" => acks[n] = 1
    /\ \A w \in Workers :
        /\ BeforeSend(w) => acks[Row(w)] = 0
        /\ wpc[w] = "apply" => (acks[Row(w)] = 1 <=> wresult[w] = "success")

\* Provider calls against the attempts of the row: each attempt calls once at
\* most, and a row that may be attempted again has a call left.
SendsAgree ==
    /\ \A n \in Notifs :
        /\ sends[n] <= MaxAttempts
        /\ status[n] \in {"absent", "pending", "queued"} => sends[n] = 0
        /\ status[n] = "retrying" => /\ sends[n] <= attempts[n]
                                     /\ sends[n] < MaxAttempts
    /\ \A w \in Workers :
        /\ BeforeSend(w) => /\ sends[Row(w)] < wattempts[w]
                            /\ sends[Row(w)] < MaxAttempts
        /\ wpc[w] = "apply" =>
              /\ sends[Row(w)] <= wattempts[w]
              /\ wresult[w] # "none"
              /\ wresult[w] = "denied" => sends[Row(w)] < MaxAttempts

\* A row nobody has claimed yet has no attempts.
FreshRows ==
    \A n \in Notifs : status[n] \in {"absent", "pending", "queued"}
                        => attempts[n] = 0

\* A cancellation's copy of its row is of a status that can be cancelled, its
\* count not above the row's while the row is open; past its UPDATE the row is
\* cancelled for good.
CancelCopy(c) ==
    /\ cpc[c] \in {"update", "log", "dequeue"} => cnotif[c] \in Notifs
    /\ cpc[c] = "update" =>
          /\ cstatus[c] \in {"pending", "queued", "retrying"}
          /\ \/ IsTerminal(status[cnotif[c]])
             \/ cattempts[c] <= attempts[cnotif[c]]
    /\ cpc[c] \in {"log", "dequeue"} => status[cnotif[c]] = "cancelled"

CancelCopies == \A c \in Cancels : CancelCopy(c)

\* A reconciler's copies likewise; an orphan was copied with no attempts, and
\* past its UPDATE a stuck row is failed for good.
SweepCopy(r) ==
    /\ \A n \in rwork[r] :
          /\ IsTerminal(status[n]) \/ rattempts[r][n] <= attempts[n]
          /\ rsweep[r] = "orphaned" => rattempts[r][n] = 0
    /\ rstep[r] = "log" =>
          /\ rcurrent[r] \in Notifs /\ rsweep[r] \in {"orphaned", "stuck"}
          /\ rsweep[r] = "stuck" => status[rcurrent[r]] = "failed"

SweepCopies == \A r \in Reconcilers : SweepCopy(r)

\* A worker about to record a terminal outcome has written it.
OutcomeWritten ==
    \A w \in Workers :
        LET out == Outcome(wresult[w], wattempts[w])
        IN  wpc[w] = "outcome" /\ out # "retrying" => status[Row(w)] = out

\* A request against its row: the row is there once the request has inserted it,
\* has its "created" event before its task, and has left pending for good when
\* the request has moved it to queued.
TrailKept ==
    \A n \in Notifs :
        /\ ipc[n] = "new" <=> status[n] = "absent"
        /\ \A m \in batch[n] : ipc[m] # "new"
        /\ ipc[n] \in {"logged", "enqueued", "marked", "accepted"} => "created" \in log[n]
        /\ ipc[n] \in {"marked", "accepted"} => status[n] # "pending"
        /\ ipc[n] = "accepted" => "queued" \in log[n]

\* A row whose time has not come: it is not there yet, or scheduled ahead and
\* still its request's, because the request has yet to move it to queued or was
\* the one that did.
Withheld(n) ==
    \/ status[n] = "absent"
    \/ /\ schedule[n] = "future"
       /\ status[n] = "pending" \/ ipc[n] \in {"marked", "accepted"}

\* Nobody can hand such a row to a worker: no task of it is ready, no worker
\* holds one, and a sweep that has read it is the one for orphans, which has to
\* find it pending.
OutOfReach(n) ==
    /\ status[n] \in {"absent", "pending", "queued", "cancelled"}
    /\ task[TaskIDFor(n, TRUE)] = "none"
    /\ task[TaskIDFor(n, FALSE)] \in {"none", "scheduled"}
    /\ status[n] = "absent" => task[TaskIDFor(n, FALSE)] = "none"
    /\ \A w \in Workers : wpc[w] # "idle" => Row(w) # n
    /\ \A r \in Reconcilers :
          /\ n \in rwork[r] => rsweep[r] = "orphaned"
          /\ rstep[r] # "next" => rcurrent[r] # n

ScheduleHolds == \A n \in Notifs : Withheld(n) => OutOfReach(n)

-----------------------------------------------------------------------------
(***************************************************************************)
(* The retry budget of asynq.  A task is charged one retry for a failed    *)
(* handler or a lost lease, both of them faults, and for an attempt that   *)
(* ended in retrying.  So its charges are at most the faults and the       *)
(* attempts of its row.                                                    *)
(***************************************************************************)

\* A lease is of an active task, and no other worker has it.
LeaseHeld ==
    /\ \A w \in lease : wpc[w] # "idle" /\ task[wtask[w]] = "active"
    /\ \A v, w \in lease : wtask[v] = wtask[w] => v = w

\* The attempts of a row that are over.
Spent(n) == IF status[n] = "processing" THEN attempts[n] - 1 ELSE attempts[n]

\* A transient answer leads to another attempt below MaxAttempts only; a denied
\* attempt always does.
AttemptsWithin ==
    /\ \A n \in Notifs :
        /\ status[n] = "retrying" => attempts[n] < MaxAttempts + denials
        /\ status[n] = "processing" => attempts[n] \in 1 .. MaxAttempts + denials
    /\ \A w \in Workers :
        wpc[w] = "apply" /\ wresult[w] = "denied" /\ status[Row(w)] = "processing"
              => wattempts[w] < MaxAttempts + denials

\* The worker is about to return the error of an attempt that will be repeated.
Retrying(w) == wpc[w] = "outcome" /\ Outcome(wresult[w], wattempts[w]) = "retrying"

\* A charge is due: the lease of the task that is running has run out, or its
\* worker is about to return such an error.
Owed(t) == task[t] = "active" /\ \A w \in lease : wtask[w] = t => Retrying(w)

\* The charges of a task, the one that is due included, against the faults and
\* the attempts of its row.
ChargesCovered ==
    \A t \in Tasks : ~IsTerminal(status[t[1]]) =>
        retried[t] + (IF Owed(t) THEN 1 ELSE 0) <= faults + Spent(t[1])

-----------------------------------------------------------------------------
\* The invariant of the delivery pipeline.
DeliveryInv ==
    /\ TypeInv
    /\ ExclusiveProcessing
    /\ ClaimHolds
    /\ AcksAgree
    /\ SendsAgree
    /\ FreshRows
    /\ CancelCopies
    /\ SweepCopies
    /\ OutcomeWritten
    /\ OutcomesTruthful
    /\ TrailKept
    /\ ScheduleHolds
    /\ LeaseHeld /\ AttemptsWithin /\ ChargesCovered

\* Only a settled row has a task in the archive.  Inductive with DeliveryInv
\* when the faults and the attempts stay within MaxRetry.
ArchivedIsSettled ==
    \A t \in Tasks : task[t] = "archived" => IsTerminal(status[t[1]])
=============================================================================
