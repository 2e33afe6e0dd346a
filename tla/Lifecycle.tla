----------------------------- MODULE Lifecycle ------------------------------
(***************************************************************************)
(* What the delivery pipeline promises about one notification, with no     *)
(* queue, worker, request or sweep in sight: a row is born pending, moves  *)
(* only along the edges of the transition table, counts one attempt per    *)
(* claim, is acknowledged by the provider at most once, is marked          *)
(* delivered only after that acknowledgement, and is neither retried nor   *)
(* cancelled after it.                                                     *)
(*                                                                         *)
(* Delivery is shown to implement this specification.                      *)
(***************************************************************************)
EXTENDS Integers, Status

CONSTANT Notifs

VARIABLES status,     \* the row's status; "absent" before the INSERT
          attempts,   \* claims so far, as the row records them
          acks        \* provider successes reported to a worker

lifecycleVars == <<status, attempts, acks>>

LifecycleInit ==
    /\ status = [n \in Notifs |-> "absent"]
    /\ attempts = [n \in Notifs |-> 0]
    /\ acks = [n \in Notifs |-> 0]

\* One row, or the rows of a batch in one transaction.
Create(S) ==
    /\ S # {}
    /\ \A n \in S : status[n] = "absent"
    /\ status' = [n \in Notifs |-> IF n \in S THEN "pending" ELSE status[n]]
    /\ UNCHANGED <<attempts, acks>>

Move(n, s) ==
    /\ CanTransitionTo(status[n], s)
    /\ status' = [status EXCEPT ![n] = s]
    /\ UNCHANGED acks

Queue(n) == Move(n, "queued") /\ UNCHANGED attempts

Claim(n) ==
    /\ Move(n, "processing")
    /\ attempts' = [attempts EXCEPT ![n] = @ + 1]

\* The provider reports success. A sweep may have given up on the row first.
Acknowledge(n) ==
    /\ status[n] \in {"processing", "failed"}
    /\ acks[n] = 0
    /\ acks' = [acks EXCEPT ![n] = 1]
    /\ UNCHANGED <<status, attempts>>

Deliver(n) == acks[n] = 1 /\ Move(n, "delivered") /\ UNCHANGED attempts

Retry(n) == acks[n] = 0 /\ Move(n, "retrying") /\ UNCHANGED attempts

\* A cancellation or a sweep writes back the attempt count it read, which may
\* be an older one; a count is never invented.
Settle(n, s) ==
    /\ s = "cancelled" => acks[n] = 0
    /\ Move(n, s)
    /\ \E a \in 0..attempts[n] : attempts' = [attempts EXCEPT ![n] = a]

LifecycleNext ==
    \/ \E S \in SUBSET Notifs : Create(S)
    \/ \E n \in Notifs : \/ Queue(n) \/ Claim(n) \/ Acknowledge(n)
                         \/ Deliver(n) \/ Retry(n)
                         \/ Settle(n, "failed") \/ Settle(n, "cancelled")

LifecycleSpec == LifecycleInit /\ [][LifecycleNext]_lifecycleVars
=============================================================================
