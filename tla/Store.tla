------------------------------- MODULE Store --------------------------------
(***************************************************************************)
(* The Postgres side: one row per notification, its audit trail, and the   *)
(* two conditional UPDATEs every actor goes through. A query is one atomic *)
(* step, as it is in Postgres; nothing holds a transaction open across two *)
(* of these steps (only CreateBatch uses one, for its INSERTs).            *)
(*                                                                         *)
(* Time is kept as the answer to the questions the code asks of it: `stale`*)
(* holds the rows whose timestamp, the one the sweep for their status      *)
(* compares, has passed that sweep's cutoff; `schedule` places             *)
(* scheduled_at relative to now.                                           *)
(***************************************************************************)
EXTENDS Integers, Status

CONSTANTS Notifs,      \* the notifications that may be created
          MaxFaults    \* bound on infrastructure failures in a behaviour

ASSUME StoreAssumption == Notifs # {} /\ MaxFaults \in Nat

VARIABLES status,      \* [Notifs -> RowStates], "absent" before the INSERT
          attempts,    \* the attempts column
          keyed,       \* rows stored with an Idempotency-Key
          schedule,    \* scheduled_at against the clock
          stale,       \* rows old enough for the sweep that looks for them
          log,         \* notification_logs: the events recorded per row
          faults       \* infrastructure failures so far

storeVars == <<status, attempts, keyed, schedule, stale, log, faults>>

RowStates == Statuses \cup {"absent"}

\* scheduled_at is NULL, ahead of now, passed, or passed by the threshold.
Schedules == {"none", "future", "due", "overdue"}

LogEvents == {"created", "queued", "processing", "delivered", "failed",
              "retrying", "cancelled"}

\* Stands where no row is meant.
NoRow == "-"

StoreTypeOK ==
    /\ status \in [Notifs -> RowStates]
    /\ attempts \in [Notifs -> Nat]
    /\ keyed \subseteq Notifs
    /\ schedule \in [Notifs -> Schedules]
    /\ stale \subseteq Notifs
    /\ log \in [Notifs -> SUBSET LogEvents]
    /\ faults \in 0..MaxFaults

StoreInit ==
    /\ status = [n \in Notifs |-> "absent"]
    /\ attempts = [n \in Notifs |-> 0]
    /\ keyed = {}
    /\ schedule = [n \in Notifs |-> "none"]
    /\ stale = {}
    /\ log = [n \in Notifs |-> {}]
    /\ faults = 0

-----------------------------------------------------------------------------

\* INSERT of the rows S in one transaction, all pending with no attempts.
Insert(S, K, at) ==
    /\ \A n \in S : status[n] = "absent"
    /\ status' = [n \in Notifs |-> IF n \in S THEN "pending" ELSE status[n]]
    /\ keyed' = keyed \cup K
    /\ schedule' = [n \in Notifs |-> IF n \in S THEN at ELSE schedule[n]]
    /\ UNCHANGED <<attempts, stale, log, faults>>

\* Mutant: the claim also takes a row that is being processed.
ClaimAgain(n) ==
    /\ status[n] \in Claimable \cup {"processing"}
    /\ status' = [status EXCEPT ![n] = "processing"]
    /\ attempts' = [attempts EXCEPT ![n] = @ + 1]
    /\ stale' = stale \ {n}
    /\ UNCHANGED <<keyed, schedule, log, faults>>

\* UPDATE ... SET status = 'processing', attempts = attempts + 1
\*        WHERE status IN ('queued', 'retrying')
ClaimForProcessing(n) ==
    /\ status[n] \in Claimable
    /\ status' = [status EXCEPT ![n] = "processing"]
    /\ attempts' = [attempts EXCEPT ![n] = @ + 1]
    /\ stale' = stale \ {n}
    /\ UNCHANGED <<keyed, schedule, log, faults>>

\* Mutant: the UPDATE without its guard.
UpdateUnguarded(n, new, att, expected) ==
    /\ status' = [status EXCEPT ![n] = new]
    /\ attempts' = [attempts EXCEPT ![n] = att]
    /\ stale' = stale \ {n}
    /\ UNCHANGED <<keyed, schedule, log, faults>>

\* UPDATE ... WHERE status = expected. The caller's snapshot of the attempt
\* count is written back with the status, whatever the row holds by now.
UpdateStatus(n, new, att, expected) ==
    /\ status[n] = expected
    /\ status' = [status EXCEPT ![n] = new]
    /\ attempts' = [attempts EXCEPT ![n] = att]
    /\ stale' = stale \ {n}
    /\ UNCHANGED <<keyed, schedule, log, faults>>

\* Zero rows affected: ErrConcurrentUpdate.
ConcurrentUpdate(n, expected) ==
    /\ status[n] # expected
    /\ UNCHANGED storeVars

\* INSERT INTO notification_logs.
AppendLog(n, event) ==
    /\ log' = [log EXCEPT ![n] = @ \cup {event}]
    /\ UNCHANGED <<status, attempts, keyed, schedule, stale, faults>>

\* A call to Postgres or Redis fails, or the calling process dies.
Fault ==
    /\ faults < MaxFaults
    /\ faults' = faults + 1
    /\ UNCHANGED <<status, attempts, keyed, schedule, stale>>

-----------------------------------------------------------------------------

\* The clock passes the cutoff the row's sweep compares with.
GrowStale(n) ==
    /\ status[n] \in Statuses /\ ~IsTerminal(status[n])
    /\ n \notin stale
    /\ stale' = stale \cup {n}
    /\ UNCHANGED <<status, attempts, keyed, schedule, log, faults>>

\* The clock passes scheduled_at, and later scheduled_at plus the threshold.
ReachSchedule(n) ==
    /\ status[n] # "absent"
    /\ schedule[n] \in {"future", "due"}
    /\ schedule' = [schedule EXCEPT
                        ![n] = IF @ = "future" THEN "due" ELSE "overdue"]
    /\ UNCHANGED <<status, attempts, keyed, stale, log, faults>>

\* The rows each sweep's SELECT returns. FOR UPDATE SKIP LOCKED runs outside a
\* transaction, so its locks are gone when the query returns. The LIMIT (100
\* rows) is above any number of rows modelled.
FindOrphanedPending == {n \in stale : status[n] = "pending"}
FindStuckProcessing == {n \in stale : status[n] = "processing"}
FindOverdueRetrying == {n \in stale : status[n] = "retrying"}
\* Mutants: the scheduled_at clause dropped; its second half dropped.
FindAnyQueued == {n \in stale : status[n] = "queued"}
FindUnscheduledQueued == {n \in stale : /\ status[n] = "queued"
                                        /\ schedule[n] = "none"}

FindStuckQueued     == {n \in stale : /\ status[n] = "queued"
                                      /\ schedule[n] \in {"none", "overdue"}}
=============================================================================
