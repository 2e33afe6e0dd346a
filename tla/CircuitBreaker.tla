--------------------------- MODULE CircuitBreaker ---------------------------
(***************************************************************************)
(* The one breaker of a worker process, around the provider registry, with *)
(* the settings of breakerSettings: it opens on MaxFailures transient      *)
(* failures within a counting window, fails fast for OpenTimeout, then     *)
(* lets one probe through.  Workers call concurrently and a call takes     *)
(* time, so a result may come back to a breaker that has moved on.         *)
(*                                                                         *)
(* gobreaker tells such results by a generation number; here a call in     *)
(* flight remembers only whether its generation is still the current one.  *)
(***************************************************************************)
EXTENDS Naturals

CONSTANTS Workers,
          Channels,      \* the channels the notifications ask for
          Registered,    \* those with a provider
          Answers,       \* what the providers may answer until they recover
          MaxFailures,   \* CIRCUIT_MAX_FAILURES
          Interval,      \* CIRCUIT_WINDOW, in instants
          OpenTimeout    \* CIRCUIT_OPEN_TIMEOUT, in instants

\* loadCircuitBreaker accepts positive values only.
BreakerAssumption ==
    /\ {MaxFailures, Interval, OpenTimeout} \subseteq Nat \ {0}
    /\ Answers \subseteq {"success", "transient", "permanent"}
    /\ Registered \subseteq Channels

VARIABLES state,      \* "closed", "open", "halfopen"
          left,       \* instants until the window or the open time is over
          requests,   \* Counts.Requests, which only the half-open state reads
          failures,   \* Counts.TotalFailures of this generation
          call,       \* [Workers -> "none", "current" or "stale"]
          probe,      \* the workers whose call began in the half-open state
          seen,       \* history: transient results of calls that this window began,
                      \* up to MaxFailures
          healthy     \* the providers have recovered for good

vars == <<state, left, requests, failures, call, probe, seen, healthy>>

TypeOK ==
    /\ state \in {"closed", "open", "halfopen"}
    /\ left \in 0..(Interval + OpenTimeout)
    /\ requests \in Nat
    /\ failures \in 0..(MaxFailures - 1)
    /\ call \in [Workers -> {"none", "current", "stale"}]
    /\ probe \subseteq Workers
    /\ seen \in 0..MaxFailures
    /\ healthy \in BOOLEAN

Init ==
    /\ state = "closed"
    /\ left = Interval
    /\ requests = 0 /\ failures = 0 /\ seen = 0
    /\ call = [w \in Workers |-> "none"]
    /\ probe = {}
    /\ healthy = FALSE

Staled(c) == [w \in Workers |-> IF c[w] = "current" THEN "stale" ELSE c[w]]

\* CircuitBreaker.setState and toNewGeneration: counts start again.
NewGeneration(s, c) ==
    /\ state' = s
    /\ left' = CASE s = "closed" -> Interval [] s = "open" -> OpenTimeout
                 [] s = "halfopen" -> 0
    /\ requests' = 0
    /\ failures' = 0
    /\ seen' = 0
    /\ call' = Staled(c)

-----------------------------------------------------------------------------

\* The end of a closed window, or of the open time.  gobreaker notices it at
\* the next call or result, which is the first that could tell.
Tick ==
    /\ state # "halfopen"
    /\ \/ /\ left > 0
          /\ left' = left - 1
          /\ UNCHANGED <<state, requests, failures, call, seen>>
       \/ /\ left = 0
          /\ NewGeneration(IF state = "open" THEN "halfopen" ELSE "closed", call)
    /\ UNCHANGED <<probe, healthy>>

\* beforeRequest: MaxRequests is 1.
Admits == state = "closed" \/ (state = "halfopen" /\ requests < 1)

\* A refused call returns a transient result to the worker and leaves the
\* breaker as it was; it needs no action.
Begin(w) ==
    /\ call[w] = "none"
    /\ Admits
    /\ call' = [call EXCEPT ![w] = "current"]
    /\ requests' = IF state = "halfopen" THEN requests + 1 ELSE requests
    /\ probe' = IF state = "halfopen" THEN probe \cup {w} ELSE probe
    /\ UNCHANGED <<state, left, failures, seen, healthy>>

\* Registry.Send: a channel without a provider fails permanently.
AnswersTo(ch) ==
    IF ch \notin Registered THEN {"permanent"}
    ELSE IF healthy THEN {"success"} ELSE Answers

\* Mutant: every failure is a sign of a sick provider.
CountsAnyFailure(a) == a # "success"

\* Breaker.Send: only a transient failure is an error to gobreaker.
CountsAsFailure(a) == a = "transient"

\* Mutant: results of any generation count.
AnyGeneration(w) == TRUE

\* afterRequest ignores the result of an earlier generation.
SameGeneration(w) == call[w] = "current"

Return(w) == [call EXCEPT ![w] = "none"]

ReadyToTrip(n) == n >= MaxFailures

\* A result while closed, or of an earlier generation.
EndCounted(w, a) ==
    /\ call[w] # "none"
    /\ state = "closed" \/ ~SameGeneration(w)
    /\ probe' = probe \ {w}
    /\ LET n == IF SameGeneration(w) /\ CountsAsFailure(a) THEN failures + 1 ELSE failures
       IN  IF SameGeneration(w) /\ CountsAsFailure(a) /\ ReadyToTrip(n)
           THEN NewGeneration("open", Return(w))
           ELSE /\ failures' = n
                /\ seen' = IF call[w] = "current" /\ a = "transient" /\ seen < MaxFailures
                           THEN seen + 1 ELSE seen
                /\ call' = Return(w)
                /\ UNCHANGED <<state, left, requests>>
    /\ UNCHANGED healthy

\* Mutant: the probe's result is read the wrong way round.
EndProbeInverted(w, a) ==
    /\ call[w] # "none"
    /\ state = "halfopen"
    /\ SameGeneration(w)
    /\ probe' = probe \ {w}
    /\ NewGeneration(IF CountsAsFailure(a) THEN "closed" ELSE "open", Return(w))
    /\ UNCHANGED healthy

\* The probe's result decides.
EndProbe(w, a) ==
    /\ call[w] # "none"
    /\ state = "halfopen"
    /\ SameGeneration(w)
    /\ probe' = probe \ {w}
    /\ NewGeneration(IF CountsAsFailure(a) THEN "open" ELSE "closed", Return(w))
    /\ UNCHANGED healthy

\* A provider call ends within the HTTP client's timeout.
End(w) == \E ch \in Channels : \E a \in AnswersTo(ch) : EndCounted(w, a) \/ EndProbe(w, a)

\* The providers recover, and stay well.
Heal == ~healthy /\ healthy' = TRUE
        /\ UNCHANGED <<state, left, requests, failures, call, probe, seen>>

Next == Tick \/ Heal \/ \E w \in Workers : Begin(w) \/ End(w)

\* Time passes, calls return, and notifications keep coming.
Spec == Init /\ [][Next]_vars
        /\ WF_vars(Tick) /\ \A w \in Workers : WF_vars(Begin(w)) /\ WF_vars(End(w))

-----------------------------------------------------------------------------

\* The breaker opens from closed when, and only when, MaxFailures calls that the
\* window began have come back transient: permanent failures do not open it
\* (README.md:181 has them on the breaker's path), nor do failures of calls that
\* an earlier window began.
OpensOnTransientBurst ==
    /\ [][state = "closed" /\ state' = "open" =>
             /\ seen + 1 >= MaxFailures
             /\ \E w \in Workers : call[w] = "current" /\ call'[w] = "none"]_vars
    /\ [](seen < MaxFailures)

\* A breaker closes only when a probe came back: the late success of a call
\* from before it opened does not close it, nor does one late failure reopen it.
ProbeDecides ==
    [][state = "halfopen" /\ state' # "halfopen" =>
          \E w \in probe : call[w] = "current" /\ call'[w] = "none"]_vars

\* Once the providers have recovered the breaker closes, and stays closed.
Recovers == healthy ~> [](state = "closed")

=============================================================================
