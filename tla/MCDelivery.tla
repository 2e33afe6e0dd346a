----------------------------- MODULE MCDelivery -----------------------------
(***************************************************************************)
(* Delivery for TLC. Workers, cancellations and reconcilers are            *)
(* interchangeable; rows too, but a row's tasks and batch are indexed by   *)
(* it, so only runs without liveness use the symmetry.                     *)
(***************************************************************************)
EXTENDS DeliveryInvariant, TLC

Symmetry == Permutations(Notifs) \cup Permutations(Workers)
            \cup Permutations(Cancels) \cup Permutations(Reconcilers)

-----------------------------------------------------------------------------
(***************************************************************************)
(* What the documentation says and the code does not keep. Each is checked *)
(* by a run of its own, in which TLC finds the behaviour that breaks it.   *)
(***************************************************************************)

\* ports.Queue, EnqueueScheduled: "the worker may not dequeue it before that
\* time". The orphaned-pending sweep enqueues a scheduled row at once.
NoEarlyDequeue ==
    \A w \in Workers : wpc[w] # "idle" => schedule[Row(w)] # "future"

\* notifications.sql, UpdateNotificationStatus: "zero rows affected means
\* another writer changed the row between the read and this update". A row
\* that went processing, retrying, processing passes the guard of a sweep that
\* read it before, which takes the new claim's attempt back.
NoLostAttempt ==
    [][\A n \in Notifs : attempts'[n] >= attempts[n]]_vars
=============================================================================
