------------------------------- MODULE HttpApi -------------------------------
(***************************************************************************)
(* The life of an HTTP request in the API process: Recoverer, correlation  *)
(* id, metrics, inbound rate limit, idempotency, router, parameter         *)
(* binding, body decoding, handler, response, and the way back out through *)
(* the same middlewares (cmd/api/main.go, internal/adapters/http).         *)
(*                                                                         *)
(* Every middleware wraps the ResponseWriter of the one outside it, so a   *)
(* status passes through up to three writers (capturingWriter,             *)
(* statusTracker, net/http's), each with its own idea of what was written; *)
(* and a correlation id can come from the client, from the middleware or   *)
(* from the use case.  The record of a request keeps both.  The limiter    *)
(* and the store of cached replies are modelled in RateLimiter and         *)
(* Idempotency; here they answer in any way they can.                      *)
(***************************************************************************)
EXTENDS HttpOperations

CONSTANTS
    Requests,     \* the requests that arrive
    Served,       \* the operations they ask for
    MaxValues     \* values a header can be sent with: 0 .. MaxValues

VARIABLES
    req,          \* the progress of each request
    cached        \* whether a reply is stored under the key

vars == <<req, cached>>

HttpAssumption == Served \subseteq DOMAIN Routes /\ MaxValues \in Nat \ {0}

Unmatched == "unmatched"
NoId == <<"none">>
CorrelationIds == {NoId} \cup ({"client", "middleware", "usecase"} \X Requests)
Stages == {"idle", "limit", "idempotency", "route", "bind", "decode",
           "handle", "body", "store", "count", "done"}
Statuses == {0, 200, 201, 202, 204, 400, 404, 409, 413, 429, 500, 503}

Idle == [at |-> "idle", op |-> Unmatched, ids |-> 0, keys |-> 0,
         ctx |-> NoId, head |-> NoId, sent |-> 0, tracked |-> 0,
         capturing |-> FALSE, captured |-> 0, row |-> NoId, counted |-> {}]

TypeOK ==
    /\ cached \in BOOLEAN
    /\ req \in [Requests ->
         [at : Stages, op : Served \cup {Unmatched}, ids : 0..MaxValues,
          keys : 0..MaxValues, ctx : CorrelationIds, head : CorrelationIds, sent : Statuses,
          tracked : Statuses, capturing : BOOLEAN, captured : Statuses,
          row : CorrelationIds, counted : SUBSET Statuses]]

Init ==
    /\ req = [r \in Requests |-> Idle]
    /\ cached = FALSE

At(r, stage) == req[r].at = stage

Become(r, q) == req' = [req EXCEPT ![r] = q]

(* Go on to the next stage with nothing else changed.                       *)
Pass(r, stage) == Become(r, [req[r] EXCEPT !.at = stage])

-----------------------------------------------------------------------------
(* Writing a status: every writer keeps the first one it is given.          *)

First(old, status) == IF old = 0 THEN status ELSE old

(* Mutant: a tracker that keeps the last status.                            *)
TrackedLast(q, status) == status

Tracked(q, status) == First(q.tracked, status)

Captured(q, status) ==
    IF q.capturing THEN First(q.captured, status) ELSE q.captured

WriteHeader(q, status) ==
    [q EXCEPT !.sent = First(@, status),
              !.tracked = Tracked(q, status),
              !.captured = Captured(q, status)]

(* Where a request that was refused at stage s unwinds to.                  *)
Unwind(q) == [q EXCEPT !.at = IF q.capturing THEN "store" ELSE "count"]

Refuse(r, q) == Become(r, Unwind(q)) /\ UNCHANGED cached

-----------------------------------------------------------------------------
(* The middlewares on the way in.                                           *)

(* CorrelationIDMiddleware: the client's id if it sent one (the first, if   *)
(* it sent several), a fresh one otherwise, into the context and the        *)
(* response header.                                                         *)
ContextId(r, ids) == IF ids = 0 THEN <<"middleware", r>> ELSE <<"client", r>>

Arrive(r) ==
    \E op \in Served \cup {Unmatched}, ids, keys \in 0..MaxValues :
        /\ At(r, "idle")
        /\ Become(r, [Idle EXCEPT !.at = "limit", !.op = op, !.ids = ids,
                                  !.keys = keys, !.ctx = ContextId(r, ids),
                                  !.head = ContextId(r, ids)])
        /\ UNCHANGED cached

(* The limiter allows the request, or fails and the request goes through.   *)
Allow(r) == At(r, "limit") /\ Pass(r, "idempotency") /\ UNCHANGED cached

RespondWithRateLimited(r) ==
    At(r, "limit") /\ Refuse(r, WriteHeader(req[r], 429))

(* serveIdempotent: no key, a body it cannot buffer, a hit, or a miss (the  *)
(* store may also fail, which counts as one).                               *)
NoKey(r) ==
    /\ At(r, "idempotency")
    /\ req[r].keys = 0
    /\ Pass(r, "route")
    /\ UNCHANGED cached

RespondToBodyReadError(r) ==
    /\ At(r, "idempotency")
    /\ req[r].keys > 0
    /\ \E status \in {400, 413} : Refuse(r, WriteHeader(req[r], status))

DispatchCacheHit(r) ==
    /\ At(r, "idempotency")
    /\ req[r].keys > 0
    /\ cached
    /\ \/ Refuse(r, WriteHeader(req[r], 409))
       \/ Refuse(r, WriteHeader(req[r], 200))

RunAndCache(r) ==
    /\ At(r, "idempotency")
    /\ req[r].keys > 0
    /\ Become(r, [req[r] EXCEPT !.capturing = TRUE, !.at = "route"])
    /\ UNCHANGED cached

-----------------------------------------------------------------------------
(* The router, the generated wrapper and the strict handler.                *)

Match(r) ==
    /\ At(r, "route")
    /\ req[r].op # Unmatched
    /\ Pass(r, "bind")
    /\ UNCHANGED cached

NotFound(r) ==
    /\ At(r, "route")
    /\ req[r].op = Unmatched
    /\ Refuse(r, WriteHeader(req[r], 404))

Params(r) == Routes[req[r].op].params

(* A header parameter is refused when it was sent more than once.           *)
Repeated(r) ==
    {p \in Params(r) : \/ p = Correlation /\ req[r].ids > 1
                       \/ p = Idempotency /\ req[r].keys > 1}

Bind(r) ==
    /\ At(r, "bind")
    /\ Repeated(r) = {}
    /\ Pass(r, IF req[r].op \in Bodied THEN "decode" ELSE "handle")
    /\ UNCHANGED cached

(* A path or query parameter may be malformed in any request.               *)
BindFails(r) ==
    /\ At(r, "bind")
    /\ Repeated(r) \cup (Params(r) \ {Correlation, Idempotency}) # {}
    /\ Refuse(r, WriteHeader(req[r], 400))

Decode(r) == At(r, "decode") /\ Pass(r, "handle") /\ UNCHANGED cached

DecodeFails(r) ==
    /\ At(r, "decode")
    /\ \E err \in DecodeErrors(req[r].op) :
          Refuse(r, WriteHeader(req[r], StatusOf(err)))

-----------------------------------------------------------------------------
(* The handlers.                                                            *)

Returns(r) == Routes[req[r].op].returns

(* Mutant: a mapping that forgets the header.                               *)
RowIdGenerated(r) == <<"usecase", r>>

(* fromAPICreateNotificationRequest passes on the header the client sent,   *)
(* not the id in the context; without one the use case generates its own.   *)
RowId(r) == IF req[r].ids = 0 THEN <<"usecase", r>> ELSE <<"client", r>>

WithRow(r) ==
    IF Returns(r).writes THEN [req[r] EXCEPT !.row = RowId(r)] ELSE req[r]

(* The ids of the rows a read can find.                                     *)
Found(r) == {req[s].row : s \in {t \in Requests :
                /\ req[t].op \in Returns(r).rows
                /\ req[t].row # NoId}}

(* The response header after success: the row's id replaces the id of the   *)
(* request where the response object carries one.                           *)
ResponseIds(r) ==
    CASE Returns(r).writes      -> {RowId(r)}
      [] Returns(r).rows # {}   -> Found(r)
      [] OTHER                  -> {req[r].ctx}

HandlerReturns(r) ==
    /\ At(r, "handle")
    /\ \E id \in ResponseIds(r), status \in Returns(r).ok :
          Become(r, WriteHeader([WithRow(r) EXCEPT !.head = id, !.at = "body"],
                                status))
    /\ UNCHANGED cached

HandlerFails(r) ==
    /\ At(r, "handle")
    /\ \E err \in Returns(r).early :
          Refuse(r, WriteHeader(req[r], StatusOf(err)))

(* The row was written and a later step of the use case failed.             *)
HandlerFailsLate(r) ==
    /\ At(r, "handle")
    /\ \E err \in Returns(r).late :
          Refuse(r, WriteHeader(WithRow(r), StatusOf(err)))

(* Mutant: a recover that logs and answers nothing.                         *)
RecoveredSilently(q) == [q EXCEPT !.at = "done"]

(* Recoverer writes to the outermost writer and the middlewares inside it   *)
(* are unwound without running what follows their call of next.             *)
Recovered(q) == [q EXCEPT !.sent = First(@, 500), !.at = "done"]

Panic(r) ==
    /\ At(r, "handle")
    /\ Become(r, Recovered(req[r]))
    /\ UNCHANGED cached

BodyWritten(r) == At(r, "body") /\ Refuse(r, req[r])

(* The connection fails while the body is written: the strict handler takes *)
(* it for an error of the handler and writes a problem after the response.  *)
BodyWriteFails(r) ==
    /\ At(r, "body")
    /\ req[r].sent # 204
    /\ Refuse(r, WriteHeader(req[r], 500))

-----------------------------------------------------------------------------
(* The middlewares on the way out.                                          *)

Successful(status) == status \in 200..299

StoreReply(r) ==
    /\ At(r, "store")
    /\ Successful(req[r].captured)
    /\ cached' = TRUE
    /\ Pass(r, "count")

(* A reply that is not a success is not stored, and the store may fail.     *)
SkipStore(r) == At(r, "store") /\ Pass(r, "count") /\ UNCHANGED cached

(* MetricsMiddleware: the status its tracker saw.                           *)
Count(r) ==
    /\ At(r, "count")
    /\ Become(r, [req[r] EXCEPT !.at = "done",
                    !.counted = @ \cup {req[r].tracked}])
    /\ UNCHANGED cached

(* The stored reply reaches its time to live.                               *)
Expire == cached /\ cached' = FALSE /\ UNCHANGED req

Step(r) ==
    \/ Allow(r) \/ RespondWithRateLimited(r)
    \/ NoKey(r) \/ RespondToBodyReadError(r) \/ DispatchCacheHit(r)
    \/ RunAndCache(r)
    \/ Match(r) \/ NotFound(r) \/ Bind(r) \/ BindFails(r)
    \/ Decode(r) \/ DecodeFails(r)
    \/ HandlerReturns(r) \/ HandlerFails(r) \/ HandlerFailsLate(r)
    \/ Panic(r) \/ BodyWritten(r) \/ BodyWriteFails(r)
    \/ StoreReply(r) \/ SkipStore(r) \/ Count(r)

Next == Expire \/ \E r \in Requests : Arrive(r) \/ Step(r)

Spec == Init /\ [][Next]_vars

(* The server goroutine of a request runs on.                               *)
FairSpec == Spec /\ \A r \in Requests : WF_vars(Step(r))

-----------------------------------------------------------------------------
(* Properties.                                                              *)

(* What the client was sent, what the metrics counted and what the          *)
(* idempotency store keeps agree: the label of a counted request is the     *)
(* status on the wire, and a reply is stored only if some keyed request was *)
(* really answered with a success, also when the strict handler writes a    *)
(* second status after a body it could not send (metrics_middleware.go      *)
(* statusTracker around idempotency.go capturingWriter).                    *)
SameStatus ==
    /\ \A r \in Requests : req[r].counted \subseteq {req[r].sent}
    /\ cached => \E r \in Requests : req[r].keys > 0 /\ req[r].sent \in 200..299

(* A client that sends one X-Correlation-ID with a create finds it on the   *)
(* row and in the response header, whatever the use case and the middleware *)
(* generate (mapping.go, create_notification_handler.go).                   *)
ClientIdIsKept ==
    \A r \in Requests :
        req[r].row # NoId /\ req[r].ids > 0
            => req[r].row = <<"client", r>> /\ req[r].head = <<"client", r>>

(* A request answered 400, 404, 413 or 429 wrote nothing: no error the      *)
(* use cases return after their INSERT is translated to one of these        *)
(* statuses, and no check runs after the handler.                           *)
RefusedWroteNothing ==
    \A r \in Requests :
        req[r].sent \in {400, 404, 413, 429} => req[r].row = NoId

(* Every request that arrives is answered, a panic in its handler included  *)
(* (router.go NewRouter: Recoverer is always first).                        *)
Answered == \A r \in Requests : At(r, "limit") ~> req[r].sent # 0

=============================================================================
