---------------------------- MODULE Cancellation ----------------------------
(***************************************************************************)
(* CancelNotification.Execute, one step per call it makes: read the row,   *)
(* write cancelled guarded by the status that was read, log it, delete the *)
(* queued task.                                                            *)
(***************************************************************************)
EXTENDS TaskQueue

CONSTANT Cancels       \* the cancellation requests that may arrive

VARIABLES cpc,         \* [Cancels -> CancelSteps]
          cnotif,      \* the row the request is about
          cstatus,     \* its status when it was read
          cattempts    \* its attempt count when it was read

cancelVars == <<cpc, cnotif, cstatus, cattempts>>

\* "refused" is the 409 answer, "error" any other error, "undeleted" the one
\* asynq gives for a task that is active.
CancelSteps == {"idle", "update", "log", "dequeue", "done", "refused",
                "undeleted", "error"}

CancelTypeOK ==
    /\ cpc \in [Cancels -> CancelSteps]
    /\ cnotif \in [Cancels -> Notifs \cup {NoRow}]
    /\ cstatus \in [Cancels -> RowStates]
    /\ cattempts \in [Cancels -> Nat]

CancelInit ==
    /\ cpc = [c \in Cancels |-> "idle"]
    /\ cnotif = [c \in Cancels |-> NoRow]
    /\ cstatus = [c \in Cancels |-> "absent"]
    /\ cattempts = [c \in Cancels |-> 0]

Goto(c, from, to) ==
    /\ cpc[c] = from
    /\ cpc' = [cpc EXCEPT ![c] = to]
    /\ UNCHANGED <<cnotif, cstatus, cattempts>>

\* The request is answered; its copy of the row is gone.
Answer(c, from, to) ==
    /\ cpc[c] = from
    /\ cpc' = [cpc EXCEPT ![c] = to]
    /\ cnotif' = [cnotif EXCEPT ![c] = NoRow]
    /\ cstatus' = [cstatus EXCEPT ![c] = "absent"]
    /\ cattempts' = [cattempts EXCEPT ![c] = 0]

-----------------------------------------------------------------------------

\* Mutant: the transition is not validated on the copy.
CancelGetAny(c, n) ==
    /\ cpc[c] = "idle"
    /\ status[n] # "absent"
    /\ cpc' = [cpc EXCEPT ![c] = "update"]
    /\ cnotif' = [cnotif EXCEPT ![c] = n]
    /\ cstatus' = [cstatus EXCEPT ![c] = status[n]]
    /\ cattempts' = [cattempts EXCEPT ![c] = attempts[n]]
    /\ UNCHANGED <<storeVars, queueVars>>

\* repo.Get and Notification.Cancel on the copy.
CancelGet(c, n) ==
    /\ cpc[c] = "idle"
    /\ CanTransitionTo(status[n], "cancelled")
    /\ cpc' = [cpc EXCEPT ![c] = "update"]
    /\ cnotif' = [cnotif EXCEPT ![c] = n]
    /\ cstatus' = [cstatus EXCEPT ![c] = status[n]]
    /\ cattempts' = [cattempts EXCEPT ![c] = attempts[n]]
    /\ UNCHANGED <<storeVars, queueVars>>

\* ErrInvalidTransition on the copy: nothing was written.
CancelTooLate(c, n) ==
    /\ status[n] # "absent"
    /\ ~CanTransitionTo(status[n], "cancelled")
    /\ Answer(c, "idle", "refused")
    /\ UNCHANGED <<storeVars, queueVars>>

CancelUpdate(c) ==
    /\ Goto(c, "update", "log")
    /\ UpdateStatus(cnotif[c], "cancelled", cattempts[c], cstatus[c])
    /\ UNCHANGED queueVars

CancelConflict(c) ==
    /\ Answer(c, "update", "refused")
    /\ ConcurrentUpdate(cnotif[c], cstatus[c])
    /\ UNCHANGED queueVars

CancelLog(c) ==
    /\ Goto(c, "log", "dequeue")
    /\ AppendLog(cnotif[c], "cancelled")
    /\ UNCHANGED queueVars

CancelDequeue(c) ==
    /\ Answer(c, "dequeue", "done")
    /\ DeleteTask(cnotif[c])
    /\ UNCHANGED storeVars

CancelDequeueRefused(c) ==
    /\ Answer(c, "dequeue", "undeleted")
    /\ DeleteRefused(cnotif[c])
    /\ UNCHANGED storeVars

CancelFault(c) ==
    /\ cpc[c] \in {"update", "log", "dequeue"}
    /\ Answer(c, cpc[c], "error")
    /\ Fault
    /\ UNCHANGED <<log, queueVars>>

CancelArrival(c) == \E n \in Notifs : CancelGet(c, n) \/ CancelTooLate(c, n)

CancelStep(c) ==
    \/ CancelUpdate(c) \/ CancelConflict(c) \/ CancelLog(c)
    \/ CancelDequeue(c) \/ CancelDequeueRefused(c)
=============================================================================
