---------------------------- MODULE RateLimiter ----------------------------
(***************************************************************************)
(* The fixed-window counter of the Redis script, and the two policies in   *)
(* front of it: the API lets a request through when Redis fails, the       *)
(* worker does not send.  One bucket, an address or a channel: buckets are *)
(* separate keys.                                                          *)
(*                                                                         *)
(* Time is discrete and relative: the key carries the time it has left,    *)
(* and admissions are counted back from now, so that behaviours need no    *)
(* end of time.                                                            *)
(***************************************************************************)
EXTENDS Integers

CONSTANTS Limit,      \* admissions of one window
          Window,     \* instants (milliseconds in the code) of one window
          Second,     \* instants of one second, the unit of Retry-After
          FailOpen,   \* TRUE at the inbound edge, FALSE in the worker
          MaxCalls,   \* calls at one instant
          MaxFaults   \* calls at one instant on which Redis fails

RateLimiterAssumption ==
    /\ Limit \in Nat
    /\ {Window, Second, MaxCalls} \subseteq Nat \ {0}
    /\ MaxFaults \in Nat
    /\ FailOpen \in BOOLEAN

VARIABLES count,      \* the counter, up to the first value over the limit
          ttl,        \* PTTL: time left of the key, -1 when there is none
          admitted,   \* [Ages -> Nat]: admissions at most so many instants ago
          unmetered,  \* of those, the ones let through on an error
          wait,       \* shortest wait announced in this window, -1 if none
          calls,      \* calls at this instant
          faults      \* failed ones at this instant

vars == <<count, ttl, admitted, unmetered, wait, calls, faults>>

Ages == 0..(Window - 1)

TypeOK ==
    /\ count \in 0..(Limit + 1)
    /\ ttl \in -1..Window
    /\ (ttl = -1) <=> (count = 0)
    /\ {admitted, unmetered} \subseteq [Ages -> Nat]
    /\ wait \in Int
    /\ calls \in 0..MaxCalls
    /\ faults \in 0..MaxFaults

Init ==
    /\ count = 0 /\ ttl = -1 /\ wait = -1
    /\ admitted = [a \in Ages |-> 0]
    /\ unmetered = [a \in Ages |-> 0]
    /\ calls = 0 /\ faults = 0

Call ==
    /\ calls < MaxCalls
    /\ calls' = calls + 1

\* One more now, and the same an instant later.
Counted(f) == [a \in Ages |-> f[a] + 1]
Aged(f) == [a \in Ages |-> IF a = 0 THEN 0 ELSE f[a - 1]]

-----------------------------------------------------------------------------

\* INCR; every value over the limit is the same to the script.
Incremented == IF count > Limit THEN count ELSE count + 1

\* Mutant: every hit renews the expiry.
RenewedTTL == Window

\* PEXPIRE when INCR has made the counter 1, which is when there was none.
SeededTTL == IF count = 0 THEN Window ELSE ttl

\* Mutant: Retry-After is truncated to whole seconds.
TruncatedSeconds(d) == d \div Second

\* retryAfterSeconds: rounded up, and at least one.
RetryAfterSeconds(d) == IF d < Second THEN 1 ELSE (d + Second - 1) \div Second

\* What the refused caller waits: the API announces seconds; the worker leaves
\* the hint aside and comes back after rateLimitBackoff, one second.
Hint(d) == IF FailOpen THEN RetryAfterSeconds(d) * Second ELSE Second

\* Mutant: the comparison is off by one.
WithinInclusive(n) == count < Limit \/ count = Limit

Within(n) == n <= Limit

Allow ==
    /\ Call
    /\ Within(Incremented)
    /\ count' = Incremented
    /\ ttl' = SeededTTL
    /\ admitted' = Counted(admitted)
    /\ UNCHANGED <<unmetered, wait, faults>>

\* A refused call is counted like any other.
Deny ==
    /\ Call
    /\ ~Within(Incremented)
    /\ count' = Incremented
    /\ ttl' = SeededTTL
    /\ wait' = IF wait = -1 \/ Hint(ttl') < wait THEN Hint(ttl') ELSE wait
    /\ UNCHANGED <<admitted, unmetered, faults>>

\* The call fails, before Redis has run the script or after: the middleware
\* serves the request, the worker returns the error and the task is retried.
LimiterFault ==
    /\ Call
    /\ faults < MaxFaults
    /\ faults' = faults + 1
    /\ admitted' = IF FailOpen THEN Counted(admitted) ELSE admitted
    /\ unmetered' = IF FailOpen THEN Counted(unmetered) ELSE unmetered
    /\ \/ UNCHANGED <<count, ttl>>
       \/ /\ count' = Incremented
          /\ ttl' = SeededTTL
    /\ UNCHANGED wait

\* Redis keeps the key through its last millisecond and drops it after.
Tick ==
    /\ ttl' = IF ttl = -1 THEN -1 ELSE ttl - 1
    /\ count' = IF ttl <= 0 THEN 0 ELSE count
    /\ wait' = IF ttl <= 0 \/ wait = -1 THEN -1 ELSE wait - 1
    /\ admitted' = Aged(admitted)
    /\ unmetered' = Aged(unmetered)
    /\ calls' = 0 /\ faults' = 0

Next == Allow \/ Deny \/ LimiterFault \/ Tick

Spec == Init /\ [][Next]_vars /\ WF_vars(Tick)

-----------------------------------------------------------------------------

\* Admissions by the counter, at most a instants ago.
Metered(a) == admitted[a] - unmetered[a]

\* However calls, refusals and failures of Redis fall, a stretch as long as
\* the window holds at most two windows' worth of admissions by the
\* counter, and in the worker, which never sends on an error, of admissions
\* altogether.
TwiceTheLimit ==
    /\ Metered(Window - 1) <= 2 * Limit
    /\ ~FailOpen => admitted[Window - 1] <= 2 * Limit

\* A client that waits as long as Retry-After said, and an instant more, is not
\* refused by the window that refused it: that window is over.
WaitOutlastsWindow == (FailOpen /\ wait # -1) => wait >= ttl

\* Callers that keep calling while they are refused do not keep the window
\* alive: it ends, and the bucket admits again.
WindowEnds == (count > Limit) ~> (count = 0)

=============================================================================
