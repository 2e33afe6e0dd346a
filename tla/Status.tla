------------------------------- MODULE Status -------------------------------
(***************************************************************************)
(* The life-cycle states of a notification and the transition table that   *)
(* every Mark* method and the atomic claim rely on                         *)
(* (internal/domain/status.go).                                            *)
(***************************************************************************)

Statuses == {"pending", "queued", "processing", "delivered", "failed",
             "retrying", "cancelled"}

\* The adjacency list; the terminal states have no outgoing edge.
ValidTransitions ==
    [s \in Statuses |->
        CASE s = "pending"    -> {"queued", "cancelled"}
          [] s = "queued"     -> {"processing", "cancelled"}
          [] s = "processing" -> {"delivered", "failed", "retrying"}
          [] s = "retrying"   -> {"processing", "cancelled"}
          [] OTHER            -> {}]

IsTerminal(s) == s \in {"delivered", "failed", "cancelled"}

CanTransitionTo(s, t) == s \in Statuses /\ t \in ValidTransitions[s]

\* The source states the worker's claim accepts.
Claimable == {"queued", "retrying"}
=============================================================================
