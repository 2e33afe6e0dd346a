------------------------------- MODULE Sweeps -------------------------------
(***************************************************************************)
(* A backlog and the reconciler: many rows, all past their thresholds, and *)
(* a pass that reads a page of at most BatchSize of them per sweep, oldest *)
(* first, and ends at its first error.  Module Reconciler has the calls of *)
(* a pass one by one for a few rows, and TaskQueue the retries of a task;  *)
(* here a row is handled in one step, a task ends when it ends, and what   *)
(* counts is which rows a pass gets to.                                    *)
(***************************************************************************)
EXTENDS Naturals, FiniteSets

CONSTANTS
    Rows,        \* notifications, numbered from the oldest
    BatchSize,   \* reconcilerBatchSize
    MaxFaults    \* bound on failing calls and lost tasks

SweepsAssumption ==
    /\ Rows \subseteq Nat /\ IsFiniteSet(Rows)
    /\ BatchSize \in Nat \ {0}
    /\ MaxFaults \in Nat

VARIABLES
    status,   \* of each row
    task,     \* under the row's task id: none, live, or archived by asynq
    pass,     \* the sweep the reconciler is in, 0 between passes, and its page
    faults

vars == <<status, task, pass, faults>>

Statuses == {"pending", "processing", "retrying", "queued", "settled"}

(* A task that asynq has archived still holds its id. *)
Tasks == {"none", "live", "archived"}

\* Mutant: ORDER BY ... DESC LIMIT.
Newest(rows) == {r \in rows : Cardinality({n \in rows : n > r}) < BatchSize}

(* ORDER BY ... LIMIT: the oldest rows of a set. *)
Oldest(rows) == {r \in rows : Cardinality({o \in rows : o < r}) < BatchSize}

(* The four queries.  The locks of FOR UPDATE SKIP LOCKED end with each of *)
(* them, since no transaction is open around a sweep.                      *)
FindOrphanedPending == Oldest({r \in Rows : status[r] = "pending"})
FindStuckProcessing == Oldest({r \in Rows : status[r] = "processing"})
FindOverdueRetrying == Oldest({r \in Rows : status[r] = "retrying"})
FindStuckQueued == Oldest({r \in Rows : status[r] = "queued"})

Idle == [sweep |-> 0, todo |-> {}]

(* Execute runs the four sweeps in order. *)
PageOf(sweep) ==
    CASE sweep = 1 -> FindOrphanedPending
      [] sweep = 2 -> FindStuckProcessing
      [] sweep = 3 -> FindOverdueRetrying
      [] sweep = 4 -> FindStuckQueued

AllSwept(sweep) == sweep = 4

(* The ticker fires: a pass begins with its first sweep. *)
Begin ==
    /\ pass = Idle
    /\ pass' = [sweep |-> 1, todo |-> PageOf(1)]
    /\ UNCHANGED <<status, task, faults>>

(* A page is done: the next sweep, or the end of the pass. *)
NextSweep ==
    /\ pass.sweep > 0 /\ pass.todo = {}
    /\ pass' = IF AllSwept(pass.sweep) THEN Idle
               ELSE [sweep |-> pass.sweep + 1, todo |-> PageOf(pass.sweep + 1)]
    /\ UNCHANGED <<status, task, faults>>

(* The row a sweep handles next. *)
Foremost == CHOOSE r \in pass.todo : \A o \in pass.todo : r <= o
Handled == [pass EXCEPT !.todo = @ \ {Foremost}]
Aborted == Idle

(* queue.Enqueue under the row's task id: an existing task refuses it, and *)
(* the error ends the pass.                                                *)
Enqueue(r) ==
    IF task[r] = "none"
    THEN task' = [task EXCEPT ![r] = "live"] /\ pass' = Handled
    ELSE pass' = Aborted /\ UNCHANGED task

(* handleOrphanedPending: the row is queued, then its task enqueued. *)
HandleOrphanedPending ==
    /\ pass.sweep = 1 /\ pass.todo # {}
    /\ IF status[Foremost] = "pending"
       THEN Enqueue(Foremost) /\ status' = [status EXCEPT ![Foremost] = "queued"]
       ELSE pass' = Aborted /\ UNCHANGED <<status, task>>
    /\ UNCHANGED faults

(* handleStuckProcessing: the row is failed. *)
HandleStuckProcessing ==
    /\ pass.sweep = 2 /\ pass.todo # {}
    /\ IF status[Foremost] = "processing"
       THEN pass' = Handled /\ status' = [status EXCEPT ![Foremost] = "settled"]
       ELSE pass' = Aborted /\ UNCHANGED status
    /\ UNCHANGED <<task, faults>>

(* handleOverdueRetrying and handleStuckQueued: only the task. *)
HandleReenqueue ==
    /\ pass.sweep \in {3, 4} /\ pass.todo # {}
    /\ Enqueue(Foremost)
    /\ UNCHANGED <<status, faults>>

(* A call of the pass fails; runOnce logs the error and the loop goes on. *)
PassFails ==
    /\ pass.sweep > 0 /\ faults < MaxFaults
    /\ pass' = Aborted
    /\ faults' = faults + 1
    /\ UNCHANGED <<status, task>>

(* A worker gets to the row's task.  The claim takes a queued or retrying  *)
(* row, which is then settled; otherwise the task is dropped.              *)
Consume(r) ==
    /\ task[r] = "live"
    /\ task' = [task EXCEPT ![r] = "none"]
    /\ status' = IF status[r] \in {"queued", "retrying"}
                 THEN [status EXCEPT ![r] = "settled"] ELSE status
    /\ UNCHANGED <<pass, faults>>

(* The delivery fails for now, or is denied: asynq keeps the task. *)
Retries(r) ==
    /\ task[r] = "live" /\ status[r] = "queued"
    /\ status' = [status EXCEPT ![r] = "retrying"]
    /\ UNCHANGED <<task, pass, faults>>

(* A call after the claim fails, or the worker dies: the row is left       *)
(* processing, and asynq keeps the task.                                   *)
Strands(r) ==
    /\ task[r] = "live" /\ status[r] \in {"queued", "retrying"} /\ faults < MaxFaults
    /\ status' = [status EXCEPT ![r] = "processing"]
    /\ faults' = faults + 1
    /\ UNCHANGED <<task, pass>>

(* The last retry fails: asynq archives the task, wherever the row is. *)
Archive(r) ==
    /\ task[r] = "live"
    /\ task' = [task EXCEPT ![r] = "archived"]
    /\ UNCHANGED <<status, pass, faults>>

(* Redis loses a task. *)
LoseTask(r) ==
    /\ task[r] # "none" /\ faults < MaxFaults
    /\ task' = [task EXCEPT ![r] = "none"]
    /\ faults' = faults + 1
    /\ UNCHANGED <<status, pass>>

(* Any backlog an outage can leave behind. *)
Init ==
    /\ status \in [Rows -> Statuses]
    /\ task \in [Rows -> Tasks]
    /\ pass = Idle
    /\ faults = 0

Pass ==
    Begin \/ NextSweep \/ HandleOrphanedPending \/ HandleStuckProcessing \/ HandleReenqueue

Dequeue(r) == Consume(r) \/ Archive(r)

Next ==
    \/ Pass
    \/ PassFails
    \/ \E r \in Rows : Dequeue(r) \/ Retries(r) \/ Strands(r) \/ LoseTask(r)

(* The ticker keeps firing, and a task comes to the end of its retries. *)
Spec == Init /\ [][Next]_vars /\ WF_vars(Pass) /\ \A r \in Rows : WF_vars(Dequeue(r))

-----------------------------------------------------------------------------
(* The state is well formed, and no page is longer than the batch size. *)
TypeOK ==
    /\ status \in [Rows -> Statuses]
    /\ task \in [Rows -> Tasks]
    /\ pass.sweep \in 0 .. 4
    /\ pass.todo \subseteq Rows /\ Cardinality(pass.todo) <= BatchSize
    /\ faults \in 0 .. MaxFaults

(* The sweep that re-enqueues a row: retrying rows in the third, queued    *)
(* rows in the fourth.                                                     *)
SweepOf(r) == IF status[r] = "retrying" THEN 3 ELSE 4

(* Every pass ends at row b at the latest, and b comes before r or is r:   *)
(* asynq has archived b's task and refuses another one under its id.       *)
Blocks(b, r) ==
    /\ task[b] = "archived"
    /\ {status[b], status[r]} \subseteq {"retrying", "queued"}
    /\ \/ SweepOf(b) < SweepOf(r)
       \/ SweepOf(b) = SweepOf(r) /\ b <= r

(* Only a row with an archived task parks the safety net, and it parks no  *)
(* more than the rows behind it: any other row is settled, however long    *)
(* the page, however many passes end at an error, and whether or not it    *)
(* lost its task (Execute's four sweeps and their LIMIT).                  *)
BacklogClears ==
    \A r \in Rows : <>[](status[r] = "settled" \/ \E b \in Rows : Blocks(b, r))
=============================================================================
