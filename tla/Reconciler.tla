----------------------------- MODULE Reconciler -----------------------------
(***************************************************************************)
(* ReconcileStuckNotifications.Execute, run by every reconciler process on *)
(* its tick: four sweeps in a fixed order, each a SELECT followed by a     *)
(* loop over the rows it returned. The rows are copies: by the time one is *)
(* handled the table may have moved on. The first error ends the pass.     *)
(***************************************************************************)
EXTENDS TaskQueue

CONSTANT Reconcilers   \* reconciler processes

VARIABLES rsweep,      \* [Reconcilers -> Sweeps], "idle" between passes
          rwork,       \* the rows of the sweep still to be handled
          rattempts,   \* their attempt counts when they were read
          rcurrent,    \* the row being handled, NoRow between rows
          rstep        \* the next call of its handler

reconcilerVars == <<rsweep, rwork, rattempts, rcurrent, rstep>>

Sweeps == {"idle", "orphaned", "stuck", "overdue", "queued"}

ReconcilerTypeOK ==
    /\ rsweep \in [Reconcilers -> Sweeps]
    /\ rwork \in [Reconcilers -> SUBSET Notifs]
    /\ rattempts \in [Reconcilers -> [Notifs -> Nat]]
    /\ rcurrent \in [Reconcilers -> Notifs \cup {NoRow}]
    /\ rstep \in [Reconcilers -> {"next", "log", "enqueue"}]

ReconcilerInit ==
    /\ rsweep = [r \in Reconcilers |-> "idle"]
    /\ rwork = [r \in Reconcilers |-> {}]
    /\ rattempts = [r \in Reconcilers |-> [n \in Notifs |-> 0]]
    /\ rcurrent = [r \in Reconcilers |-> NoRow]
    /\ rstep = [r \in Reconcilers |-> "next"]

-----------------------------------------------------------------------------

\* The order of Execute.
NextSweep(s) ==
    CASE s = "idle" -> "orphaned"
      [] s = "orphaned" -> "stuck"
      [] s = "stuck" -> "overdue"
      [] s = "overdue" -> "queued"
      [] OTHER -> "idle"

Find(s) ==
    CASE s = "orphaned" -> FindOrphanedPending
      [] s = "stuck" -> FindStuckProcessing
      [] s = "overdue" -> FindOverdueRetrying
      [] s = "queued" -> FindStuckQueued
      [] OTHER -> {}

\* Start the pass, go on to the next sweep, or end the pass.
Sweep(r) ==
    LET s == NextSweep(rsweep[r])
    IN  /\ rwork[r] = {} /\ rstep[r] = "next"
        /\ rsweep' = [rsweep EXCEPT ![r] = s]
        /\ rwork' = [rwork EXCEPT ![r] = Find(s)]
        /\ rattempts' = [rattempts EXCEPT ![r] =
                [n \in Notifs |-> IF n \in Find(s) THEN attempts[n] ELSE 0]]
        /\ UNCHANGED <<rcurrent, rstep, storeVars, queueVars>>

\* The handler of n has made its first call and goes on with `step`.
Continue(r, n, step) ==
    /\ rcurrent' = [rcurrent EXCEPT ![r] = n]
    /\ rstep' = [rstep EXCEPT ![r] = step]
    /\ UNCHANGED <<rsweep, rwork, rattempts>>

\* The handler of n is done: the loop moves on.
Finish(r, n) ==
    /\ rwork' = [rwork EXCEPT ![r] = @ \ {n}]
    /\ rattempts' = [rattempts EXCEPT ![r][n] = 0]
    /\ rcurrent' = [rcurrent EXCEPT ![r] = NoRow]
    /\ rstep' = [rstep EXCEPT ![r] = "next"]
    /\ UNCHANGED rsweep

\* An error: Execute returns it, and the sweeps that are left are skipped.
AbortPass(r) ==
    /\ rsweep' = [rsweep EXCEPT ![r] = "idle"]
    /\ rwork' = [rwork EXCEPT ![r] = {}]
    /\ rattempts' = [rattempts EXCEPT ![r] = [n \in Notifs |-> 0]]
    /\ rcurrent' = [rcurrent EXCEPT ![r] = NoRow]
    /\ rstep' = [rstep EXCEPT ![r] = "next"]

-----------------------------------------------------------------------------

\* The first two sweeps begin with a guarded UpdateStatus.
Source(s) == IF s = "orphaned" THEN "pending" ELSE "processing"
\* Mutant: a stuck row is given another try.
TargetRetry(s) == IF s = "orphaned" THEN "queued" ELSE "retrying"
Target(s) == IF s = "orphaned" THEN "queued" ELSE "failed"

HandleRow(r, n) ==
    /\ rsweep[r] \in {"orphaned", "stuck"} /\ rstep[r] = "next"
    /\ n \in rwork[r]
    /\ UpdateStatus(n, Target(rsweep[r]), rattempts[r][n], Source(rsweep[r]))
    /\ Continue(r, n, "log")
    /\ UNCHANGED queueVars

HandleRowConflict(r, n) ==
    /\ rsweep[r] \in {"orphaned", "stuck"} /\ rstep[r] = "next"
    /\ n \in rwork[r]
    /\ ConcurrentUpdate(n, Source(rsweep[r]))
    /\ AbortPass(r)
    /\ UNCHANGED queueVars

\* A failed row is finished by its log entry, an orphan is still to enqueue.
HandleLog(r) ==
    /\ rstep[r] = "log"
    /\ AppendLog(rcurrent[r], Target(rsweep[r]))
    /\ IF rsweep[r] = "stuck" THEN Finish(r, rcurrent[r])
                              ELSE Continue(r, rcurrent[r], "enqueue")
    /\ UNCHANGED queueVars

\* The rows whose handler is about to call queue.Enqueue. The other two
\* sweeps do nothing else.
ToEnqueue(r) ==
    IF rstep[r] = "enqueue" THEN {rcurrent[r]}
    ELSE IF rsweep[r] \in {"overdue", "queued"} THEN rwork[r] ELSE {}

\* Always an immediate task, scheduled_at or not, under the row's own key.
ReEnqueue(r, n) ==
    /\ n \in ToEnqueue(r)
    /\ EnqueueAs(TaskIDFor(n, n \in keyed), "pending")
    /\ Finish(r, n)
    /\ UNCHANGED storeVars

ReEnqueueConflict(r, n) ==
    /\ n \in ToEnqueue(r)
    /\ EnqueueRefused(TaskIDFor(n, n \in keyed))
    /\ AbortPass(r)
    /\ UNCHANGED storeVars

\* A query or an enqueue fails, or the process dies in the middle of a pass.
ReconcilerFault(r) ==
    /\ rsweep[r] # "idle"
    /\ Fault
    /\ AbortPass(r)
    /\ UNCHANGED <<log, queueVars>>

ReconcilerStep(r) ==
    \/ Sweep(r)
    \/ HandleLog(r)
    \/ \E n \in Notifs : \/ HandleRow(r, n) \/ HandleRowConflict(r, n)
                         \/ ReEnqueue(r, n) \/ ReEnqueueConflict(r, n)
=============================================================================
