------------------------------ MODULE Process ------------------------------
(***************************************************************************)
(* One of the three long-running binaries from start to exit: it loads its *)
(* configuration, acquires its resources one after another, serves until a *)
(* signal, drains, and lets its deferred calls release the resources, the  *)
(* last one first.  Items are what it works on: HTTP requests, asynq tasks *)
(* or reconciliation passes.  Each makes calls that take a connection from *)
(* the Postgres pool.                                                      *)
(***************************************************************************)
EXTENDS Naturals, Sequences

CONSTANTS Binary, Items

BinaryAssumption == Binary \in {"api", "worker", "reconciler"}

VARIABLES
    env,       \* what the environment holds for each kind of knob
    stage,     \* of run(): loading, starting, serving, draining, closing, exited
    held,      \* the resources acquired, in order
    item,      \* idle, running, querying, done or broken
    signalled, \* SIGTERM or SIGINT has arrived
    server,    \* the HTTP or asynq server: new, running, closing, closed or failed
    waiter,    \* who asked the server to shut down and waits for it
    expired,   \* a drain deadline has passed
    code       \* the exit code run() has decided on

vars == <<env, stage, held, item, signalled, server, waiter, expired, code>>

-----------------------------------------------------------------------------
(* Configuration.  "checked" stands for the breaker's thresholds and the   *)
(* mock provider's knobs.  A knob is unset, does not parse, parses to a    *)
(* value it makes no sense with (a count or a duration of zero or below, a *)
(* rate outside [0, 1], an unknown mode), or is valid.                     *)
Knobs == {"limit", "interval", "checked", "database"}
Values == {"unset", "malformed", "outofrange", "valid"}

(* A URL is unset, malformed or valid. *)
Environments == {e \in [Knobs -> Values] : e["database"] # "outofrange"}

(* getInt, getFloat and getDuration refuse what does not parse. *)
Parses(v) == v # "malformed"

(* loadCircuitBreaker and loadMockProvider also refuse what is out of range. *)
InRange(v) == Parses(v) /\ v # "outofrange"

(* Load: the numbers, the checked knobs, the required URL. *)
Load(e) ==
    /\ Parses(e["limit"]) /\ Parses(e["interval"])
    /\ InRange(e["checked"])
    /\ e["database"] # "unset"

(* What each run() acquires and defers the release of, in order. *)
ApiSetup == <<"signals", "tracing", "pool", "redis", "queue", "consumer">>
WorkerSetup == <<"signals", "tracing", "pool", "redis", "metrics", "depths">>
ReconcilerSetup == <<"signals", "tracing", "pool", "queue", "metrics", "ticker">>

Setup == CASE Binary = "api" -> ApiSetup
           [] Binary = "worker" -> WorkerSetup
           [] Binary = "reconciler" -> ReconcilerSetup

Holds(resource) == \E i \in DOMAIN held : held[i] = resource

(* A pool that is being closed hands out no connection. *)
PoolOpen == Holds("pool") /\ ~(stage = "closing" /\ held[Len(held)] = "pool")

Busy == {w \in Items : item[w] \in {"running", "querying"}}

-----------------------------------------------------------------------------
(* config.Load refuses the environment, or run() goes on. *)
LoadConfig ==
    /\ stage = "loading"
    /\ IF Load(env) THEN stage' = "starting" /\ UNCHANGED code
                    ELSE stage' = "closing" /\ code' = 1
    /\ UNCHANGED <<env, held, item, signalled, server, waiter, expired>>

(* The next constructor succeeds.  pgxpool.New parses the URL and connects *)
(* later; time.NewTicker panics on an interval that is not positive.       *)
Acquire ==
    /\ stage = "starting" /\ Len(held) < Len(Setup)
    /\ LET next == Setup[Len(held) + 1] IN
        /\ next = "pool" => env["database"] # "malformed"
        /\ IF next = "ticker" /\ env["interval"] = "outofrange"
           THEN stage' = "closing" /\ code' = 2 /\ UNCHANGED held
           ELSE held' = Append(held, next) /\ UNCHANGED <<stage, code>>
    /\ UNCHANGED <<env, item, signalled, server, waiter, expired>>

(* tracing.Setup returns an error, or pgxpool.New refuses the URL. *)
AcquireFails ==
    /\ stage = "starting" /\ Len(held) < Len(Setup)
    /\ \/ Setup[Len(held) + 1] = "tracing"
       \/ Setup[Len(held) + 1] = "pool" /\ env["database"] = "malformed"
    /\ stage' = "closing" /\ code' = 1
    /\ UNCHANGED <<env, held, item, signalled, server, waiter, expired>>

(* The server's goroutine starts, and run() waits for a signal. *)
Serve ==
    /\ stage = "starting" /\ Len(held) = Len(Setup)
    /\ stage' = "serving" /\ server' = "running"
    /\ UNCHANGED <<env, held, item, signalled, waiter, expired, code>>

(* errCh: the address is in use, Redis does not answer or, later, Accept   *)
(* returns an error.  run() returns; requests in progress are not waited   *)
(* for.                                                                    *)
ServeFails ==
    /\ Binary # "reconciler"
    /\ \/ stage = "starting" /\ Len(held) = Len(Setup)
       \/ stage = "serving" /\ Binary = "api"
    /\ stage' = "closing" /\ code' = 1 /\ server' = "failed"
    /\ UNCHANGED <<env, held, item, signalled, waiter, expired>>

-----------------------------------------------------------------------------
(* Work.  A reconciler runs its passes in run() itself, one at a time, and *)
(* under the context the signal cancels.                                   *)
Accept(w) ==
    /\ item[w] = "idle" /\ server = "running"
    /\ Binary = "reconciler" => stage = "serving" /\ Busy = {} /\ ~signalled
    /\ item' = [item EXCEPT ![w] = "running"]
    /\ UNCHANGED <<env, stage, held, signalled, server, waiter, expired, code>>

(* A call to Postgres: it takes a connection, and fails on a closed pool. *)
Query(w) ==
    /\ item[w] = "running" /\ stage # "exited"
    /\ item' = [item EXCEPT ![w] =
            IF ~PoolOpen THEN "broken"
            ELSE IF Binary = "reconciler" /\ signalled THEN "done" ELSE "querying"]
    /\ UNCHANGED <<env, stage, held, signalled, server, waiter, expired, code>>

Answered(w) ==
    /\ item[w] = "querying" /\ stage # "exited"
    /\ item' = [item EXCEPT ![w] = "running"]
    /\ UNCHANGED <<env, stage, held, signalled, server, waiter, expired, code>>

Finish(w) ==
    /\ item[w] = "running" /\ stage # "exited"
    /\ item' = [item EXCEPT ![w] = "done"]
    /\ UNCHANGED <<env, stage, held, signalled, server, waiter, expired, code>>

-----------------------------------------------------------------------------
(* A signal, once signal.NotifyContext listens for it. *)
Signal ==
    /\ Holds("signals") /\ ~signalled
    /\ signalled' = TRUE
    /\ UNCHANGED <<env, stage, held, item, server, waiter, expired, code>>

(* Shutdown of the asynq server by its caller: only the first caller waits *)
(* for the drain; the server is no longer running for the second.          *)
Shutdown(caller) ==
    IF server = "running"
    THEN server' = "closing" /\ waiter' = caller
    ELSE UNCHANGED <<server, waiter>>

(* srv.Run has its own signal handler, which shuts the server down. *)
RunShutsDown ==
    /\ Binary = "worker" /\ signalled /\ server = "running"
    /\ Shutdown("run")
    /\ UNCHANGED <<env, stage, held, item, signalled, expired, code>>

(* run() sees the cancelled context and asks the server to drain.  The     *)
(* reconciler leaves its loop once the pass it is in has returned.         *)
MainShutsDown ==
    /\ stage = "serving" /\ signalled
    /\ IF Binary = "reconciler"
       THEN Busy = {} /\ stage' = "closing" /\ server' = "closed" /\ UNCHANGED waiter
       ELSE stage' = "draining" /\ Shutdown("main")
    /\ UNCHANGED <<env, held, item, signalled, expired, code>>

(* The server has nothing left to do. *)
Drained ==
    /\ server = "closing" /\ Busy = {} /\ stage # "exited"
    /\ server' = "closed"
    /\ UNCHANGED <<env, stage, held, item, signalled, waiter, expired, code>>

\* Mutant: the drain has no deadline.
DrainNeverExpires == FALSE /\ UNCHANGED vars

(* ... or gives up waiting: the HTTP server after ten seconds, asynq after *)
(* its own timeout, when it returns the tasks to Redis.  The goroutines    *)
(* that work on them run on.                                               *)
DrainExpires ==
    /\ server = "closing" /\ Busy # {} /\ stage # "exited"
    /\ server' = "closed" /\ expired' = TRUE
    /\ code' = IF Binary = "api" THEN 1 ELSE code
    /\ UNCHANGED <<env, stage, held, item, signalled, waiter>>

\* Mutant: Shutdown does not wait.
ShutdownReturnsAtOnce ==
    /\ stage = "draining"
    /\ stage' = "closing"
    /\ UNCHANGED <<env, held, item, signalled, server, waiter, expired, code>>

(* Shutdown returns to run(): when the server is closed, or at once when   *)
(* somebody else is waiting for it.                                        *)
ShutdownReturns ==
    /\ stage = "draining"
    /\ server = "closed" \/ waiter # "main"
    /\ stage' = "closing"
    /\ UNCHANGED <<env, held, item, signalled, server, waiter, expired, code>>

(* One deferred call.  pool.Close waits for the connections in use. *)
Release ==
    /\ stage = "closing" /\ held # <<>>
    /\ held[Len(held)] = "pool" => \A w \in Items : item[w] # "querying"
    /\ held' = SubSeq(held, 1, Len(held) - 1)
    /\ UNCHANGED <<env, stage, item, signalled, server, waiter, expired, code>>

(* run() returns, and main exits with its code. *)
Exit ==
    /\ stage = "closing" /\ held = <<>>
    /\ stage' = "exited"
    /\ UNCHANGED <<env, held, item, signalled, server, waiter, expired, code>>

Init ==
    /\ env \in Environments
    /\ stage = "loading"
    /\ held = <<>>
    /\ item = [w \in Items |-> "idle"]
    /\ signalled = FALSE
    /\ server = "new"
    /\ waiter = "none"
    /\ expired = FALSE
    /\ code = 0

Main ==
    \/ LoadConfig \/ Acquire \/ AcquireFails \/ Serve \/ ServeFails
    \/ MainShutsDown \/ ShutdownReturns \/ Release \/ Exit

Work(w) == Query(w) \/ Answered(w) \/ Finish(w)

Next ==
    \/ Main \/ RunShutsDown \/ Drained \/ DrainExpires \/ Signal
    \/ \E w \in Items : Accept(w) \/ Work(w)

(* Go schedules every goroutine that can run, and a query is answered.  A  *)
(* handler may take for ever; a pass, whose calls fail once the context is *)
(* cancelled, does not.                                                    *)
Spec ==
    /\ Init /\ [][Next]_vars
    /\ WF_vars(Main) /\ WF_vars(RunShutsDown) /\ WF_vars(Drained \/ DrainExpires)
    /\ \A w \in Items : WF_vars(Answered(w))
    /\ \A w \in Items : WF_vars(Binary = "reconciler" /\ Work(w))

-----------------------------------------------------------------------------
(* The state is well formed, and the resources are held in the order in    *)
(* which run() acquires them.                                              *)
TypeOK ==
    /\ env \in Environments
    /\ stage \in {"loading", "starting", "serving", "draining", "closing", "exited"}
    /\ Len(held) <= Len(Setup) /\ held = SubSeq(Setup, 1, Len(held))
    /\ item \in [Items -> {"idle", "running", "querying", "done", "broken"}]
    /\ server \in {"new", "running", "closing", "closed", "failed"}
    /\ code \in 0 .. 2

(* run() does not wait any longer for the work in progress. *)
GaveUp == expired \/ server = "failed"

(* "graceful drain when the user hits Ctrl-C" (cmd/worker/main.go:196): no *)
(* call of a request, a task or a pass meets a pool that is being closed.  *)
PoolOutlivesWork == GaveUp \/ \A w \in Items : item[w] # "broken"

(* A request, a task or a pass that was accepted runs to its end, with the *)
(* pool open, before run() lets go of what it holds.                       *)
DrainedBeforeClose ==
    /\ PoolOutlivesWork
    /\ stage \in {"closing", "exited"} /\ ~GaveUp => Busy = {}

(* A signal ends the process, hung requests or not. *)
SignalExits == signalled ~> stage = "exited"
=============================================================================
