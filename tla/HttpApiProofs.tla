---------------------------- MODULE HttpApiProofs ----------------------------
(***************************************************************************)
(* What a request finds in its response, its row, the metrics and the      *)
(* store of replies agree, for any set of requests, any of the operations  *)
(* and any number of values of a header.                                   *)
(*                                                                         *)
(* The argument follows a request through the chain: nothing is written    *)
(* before its handler has run, the writers have seen the same status until *)
(* it is done, and once there is a row no step changes the response's id.  *)
(***************************************************************************)
EXTENDS HttpApi, TLAPS

\* The stages up to the handler, where no response has been started.
Before == {"limit", "idempotency", "route", "bind", "decode", "handle"}

\* The answers that say that nothing was done.
Refusals == {400, 404, 413, 429}

Records ==
    [at : Stages, op : Served \cup {Unmatched}, ids : 0..MaxValues,
     keys : 0..MaxValues, ctx : CorrelationIds, head : CorrelationIds, sent : Statuses,
     tracked : Statuses, capturing : BOOLEAN, captured : Statuses,
     row : CorrelationIds, counted : SUBSET Statuses]

\* The writers that wrap one another have seen the same status, until Recoverer
\* writes past the inner ones.
WritersAgree(q) ==
    /\ q.at # "done" => /\ q.tracked = q.sent /\ q.counted = {}
                        /\ q.capturing => q.captured = q.sent
    /\ q.counted \subseteq {q.sent}
    /\ q.capturing => q.keys > 0
    /\ ~q.capturing => q.captured = 0
    /\ q.at = "store" => q.capturing

\* No status and no row before the handler; only matched requests reach it.
Untouched(r, q) ==
    /\ q.at \in Before \cup {"idle"} => q.sent = 0 /\ q.row = NoId
    /\ q.at \in Before => q.head = ContextId(r, q.ids)
    /\ q.at \in {"bind", "decode", "handle"} => q.op \in Served
    /\ q.at = "body" => q.sent # 0

\* What the properties say of one request.
Kept(r, q) ==
    /\ q.row # NoId /\ q.ids > 0
         => q.row = <<"client", r>> /\ q.head = <<"client", r>>
    /\ q.sent \in Refusals => q.row = NoId

Sound(r, q) == q \in Records /\ WritersAgree(q) /\ Untouched(r, q) /\ Kept(r, q)

\* A stored reply is one a keyed request was sent.
Stored == cached => \E r \in Requests : req[r].keys > 0 /\ req[r].sent \in 200..299

HttpInv ==
    /\ req = [r \in Requests |-> req[r]] /\ cached \in BOOLEAN
    /\ \A r \in Requests : Sound(r, req[r])
    /\ Stored

-----------------------------------------------------------------------------
(* The table of operations *)

\* An operation answers success or unavailable, every error it can return after
\* its row was written is a conflict or an internal error, and one that writes a
\* row returns no other.
Decent(returns) ==
    /\ returns.ok \subseteq {200, 201, 202, 204, 503}
    /\ returns.late \subseteq {"ConcurrentUpdate", "Internal"}
    /\ returns.writes \in BOOLEAN
    /\ returns.writes => returns.rows = {}

\* Every entry of the table is decent.
LEMMA RouteFacts ==
    ASSUME NEW op \in DOMAIN Routes
    PROVE  Decent(Routes[op].returns)
<1>1. Decent(GetJSONMetricsReturns)
  BY DEF Decent, Handler, GetJSONMetricsReturns
<1>2. Decent(ListNotificationsReturns)
  BY DEF Decent, Handler, ListNotificationsReturns
<1>3. Decent(CreateNotificationReturns)
  BY DEF Decent, Handler, CreateNotificationReturns
<1>4. Decent(CreateBatchReturns)
  BY DEF Decent, Handler, CreateBatchReturns
<1>5. Decent(GetBatchReturns)
  BY DEF Decent, Handler, GetBatchReturns
<1>6. Decent(GetNotificationReturns)
  BY DEF Decent, Handler, GetNotificationReturns
<1>7. Decent(CancelNotificationReturns)
  BY DEF Decent, Handler, CancelNotificationReturns
<1>8. Decent(GetNotificationTraceReturns)
  BY DEF Decent, Handler, GetNotificationTraceReturns
<1>9. Decent(ListTemplatesReturns)
  BY DEF Decent, Handler, ListTemplatesReturns
<1>10. Decent(CreateTemplateReturns)
  BY DEF Decent, Handler, CreateTemplateReturns
<1>11. Decent(DeleteTemplateReturns)
  BY DEF Decent, Handler, DeleteTemplateReturns
<1>12. Decent(GetTemplateReturns)
  BY DEF Decent, Handler, GetTemplateReturns
<1>13. Decent(ReplaceTemplateReturns)
  BY DEF Decent, Handler, ReplaceTemplateReturns
<1>14. Decent(GetHealthzLiveReturns)
  BY DEF Decent, Handler, GetHealthzLiveReturns
<1>15. Decent(GetHealthzReadyReturns)
  BY DEF Decent, Handler, GetHealthzReadyReturns
<1>16. Decent(GetPrometheusMetricsReturns)
  BY DEF Decent, Handler, GetPrometheusMetricsReturns
<1> QED
  BY <1>1, <1>2, <1>3, <1>4, <1>5, <1>6, <1>7, <1>8, <1>9, <1>10, <1>11, <1>12, <1>13,
     <1>14, <1>15, <1>16 DEF Routes, Route

\* Every error is answered with a status.
LEMMA StatusOfFacts ==
    /\ \A err : StatusOf(err) \in Statuses \ {0}
    /\ \A err \in {"ConcurrentUpdate", "Internal"} : StatusOf(err) \in {409, 500}
<1>1. \A err \in DOMAIN ErrorMappings : ErrorMappings[err] \in {400, 404, 409}
  BY DEF ErrorMappings
<1>2. "ConcurrentUpdate" \in DOMAIN ErrorMappings /\ "Internal" \notin DOMAIN ErrorMappings
      /\ ErrorMappings["ConcurrentUpdate"] = 409
  BY DEF ErrorMappings
<1>3. /\ "ConcurrentUpdate" \notin JSONDecodeErrors
      /\ "Internal" \notin JSONDecodeErrors
  BY DEF JSONDecodeErrors
<1>4. ASSUME NEW err PROVE StatusOf(err) \in Statuses \ {0}
  <2>1. StatusOf(err) \in {400, 404, 409, 500}
    BY <1>1 DEF StatusOf
  <2> QED BY <2>1 DEF Statuses
<1>5. StatusOf("ConcurrentUpdate") = 409 /\ StatusOf("Internal") = 500
  BY <1>2, <1>3 DEF StatusOf
<1> QED
  BY <1>4, <1>5

-----------------------------------------------------------------------------
(* Writers *)

\* The first status goes to every writer.
LEMMA WriteHeaderFacts ==
    ASSUME NEW q \in Records, NEW status \in Statuses
    PROVE  LET w == WriteHeader(q, status) IN
           /\ w \in Records
           /\ w.at = q.at /\ w.op = q.op /\ w.ids = q.ids /\ w.keys = q.keys
           /\ w.ctx = q.ctx /\ w.head = q.head /\ w.row = q.row
           /\ w.capturing = q.capturing /\ w.counted = q.counted
           /\ w.sent = First(q.sent, status)
           /\ w.tracked = First(q.tracked, status)
           /\ w.captured = IF q.capturing THEN First(q.captured, status) ELSE q.captured
  BY DEF WriteHeader, Records, First, Tracked, Captured

\* Unwinding changes the stage only.
LEMMA UnwindFacts ==
    ASSUME NEW q \in Records
    PROVE  LET w == Unwind(q) IN
           /\ w \in Records
           /\ w.at = IF q.capturing THEN "store" ELSE "count"
           /\ w.op = q.op /\ w.ids = q.ids /\ w.keys = q.keys
           /\ w.ctx = q.ctx /\ w.head = q.head /\ w.row = q.row
           /\ w.capturing = q.capturing /\ w.counted = q.counted
           /\ w.sent = q.sent /\ w.tracked = q.tracked /\ w.captured = q.captured
  BY DEF Unwind, Records, Stages
-----------------------------------------------------------------------------
(* Steps *)

\* A request takes on a sound record; its status and keys, once it has been
\* answered, stay.
LEMMA BecomeSound ==
    ASSUME HttpInv, NEW r \in Requests, NEW q, Become(r, q), Sound(r, q),
           req[r].sent # 0 => q.sent = req[r].sent /\ q.keys = req[r].keys,
           \/ cached' = cached
           \/ cached' = TRUE /\ q.keys > 0 /\ q.sent \in 200..299
    PROVE  HttpInv'
<1>0. req = [s \in Requests |-> req[s]] /\ cached \in BOOLEAN
  BY DEF HttpInv
<1>1. /\ req'[r] = q
      /\ \A s \in Requests : s # r => req'[s] = req[s]
      /\ req' = [s \in Requests |-> req'[s]]
  BY <1>0 DEF Become
<1>2. \A s \in Requests : Sound(s, req'[s])
  BY <1>1 DEF HttpInv
<1>3. Stored'
  <2>1. CASE cached' = cached
    <3>1. \A s \in Requests : req[s].sent \in 200..299 /\ req[s].keys > 0
                              => req'[s].sent \in 200..299 /\ req'[s].keys > 0
      BY <1>1
    <3> QED BY <2>1, <3>1 DEF HttpInv, Stored
  <2>2. CASE cached' = TRUE /\ q.keys > 0 /\ q.sent \in 200..299
    BY <1>1, <2>2 DEF Stored
  <2> QED BY <2>1, <2>2
<1> QED
  BY <1>0, <1>1, <1>2, <1>3 DEF HttpInv

\* What the invariant says of a request before its handler has answered.
LEMMA BeforeFacts ==
    ASSUME HttpInv, NEW r \in Requests, req[r].at \in Before
    PROVE  /\ Sound(r, req[r])
           /\ req[r].sent = 0 /\ req[r].tracked = 0 /\ req[r].captured = 0
           /\ req[r].counted = {} /\ req[r].row = NoId
           /\ req[r].head = ContextId(r, req[r].ids)
  BY DEF HttpInv, Sound, Untouched, WritersAgree, Before

\* Nothing but the stage changes on the way to the handler.
LEMMA Passing ==
    ASSUME HttpInv, NEW r \in Requests, req[r].at \in Before, NEW stage \in Before,
           stage \in {"bind", "decode", "handle"} => req[r].op \in Served,
           Pass(r, stage), UNCHANGED cached
    PROVE  HttpInv'
<1> DEFINE q == [req[r] EXCEPT !.at = stage]
<1>1. Sound(r, req[r])
  BY BeforeFacts
<1>2. /\ q \in Records /\ q.at = stage
      /\ q.op = req[r].op /\ q.ids = req[r].ids /\ q.keys = req[r].keys
      /\ q.head = req[r].head /\ q.row = req[r].row
      /\ q.capturing = req[r].capturing /\ q.counted = req[r].counted
      /\ q.sent = req[r].sent /\ q.tracked = req[r].tracked
      /\ q.captured = req[r].captured
  BY <1>1 DEF Sound, Records, Before, Stages
<1>3. Become(r, q)
  BY DEF Pass
<1> HIDE DEF q
<1>4. WritersAgree(q)
  BY <1>1, <1>2 DEF Sound, WritersAgree, Before
<1>5. Untouched(r, q)
  BY <1>2, BeforeFacts DEF Untouched, Before
<1>6. Kept(r, q)
  BY <1>1, <1>2 DEF Sound, Kept
<1> QED
  BY <1>2, <1>3, <1>4, <1>5, <1>6, BecomeSound DEF Sound

\* A refusal before the handler has written anything: every writer gets the
\* status, and there is no row.
LEMMA Refusing ==
    ASSUME HttpInv, NEW r \in Requests, req[r].at \in Before,
           NEW status \in Statuses \ {0}, Refuse(r, WriteHeader(req[r], status))
    PROVE  HttpInv'
<1> DEFINE w == WriteHeader(req[r], status)
           q == Unwind(w)
<1>1. Sound(r, req[r])
  BY BeforeFacts
<1>2. /\ w \in Records /\ w.keys = req[r].keys /\ w.row = NoId
      /\ w.capturing = req[r].capturing /\ w.counted = {}
      /\ w.sent = status /\ w.tracked = status
      /\ w.captured = IF w.capturing THEN status ELSE 0
  BY <1>1, BeforeFacts, WriteHeaderFacts DEF Sound, First
<1>3. Become(r, q) /\ UNCHANGED cached
  BY DEF Refuse
<1> HIDE DEF w
<1>4. /\ q \in Records /\ q.keys = req[r].keys /\ q.row = NoId
      /\ q.at = IF q.capturing THEN "store" ELSE "count"
      /\ q.capturing = req[r].capturing /\ q.counted = {}
      /\ q.sent = status /\ q.tracked = status
      /\ q.captured = IF q.capturing THEN status ELSE 0
  BY <1>2, UnwindFacts
<1> HIDE DEF q
<1>5. WritersAgree(q)
  BY <1>1, <1>4 DEF Sound, WritersAgree
<1>6. Untouched(r, q) /\ Kept(r, q)
  BY <1>4 DEF Untouched, Kept, Before
<1>7. req[r].sent = 0
  BY BeforeFacts
<1> QED
  BY <1>3, <1>4, <1>5, <1>6, <1>7, BecomeSound DEF Sound

\* The chain is entered with the client's id or a fresh one.
LEMMA Arriving ==
    ASSUME HttpAssumption, HttpInv, NEW r \in Requests, Arrive(r)
    PROVE  HttpInv'
<1>1. PICK op \in Served \cup {Unmatched}, ids \in 0..MaxValues, keys \in 0..MaxValues :
         /\ At(r, "idle")
         /\ Become(r, [Idle EXCEPT !.at = "limit", !.op = op, !.ids = ids,
                                   !.keys = keys, !.ctx = ContextId(r, ids),
                                   !.head = ContextId(r, ids)])
         /\ UNCHANGED cached
  BY DEF Arrive
<1> DEFINE q == [Idle EXCEPT !.at = "limit", !.op = op, !.ids = ids,
                             !.keys = keys, !.ctx = ContextId(r, ids),
                             !.head = ContextId(r, ids)]
<1>2. ContextId(r, ids) \in CorrelationIds /\ NoId \in CorrelationIds
  BY DEF ContextId, CorrelationIds
<1>3. /\ q \in Records /\ q.at = "limit" /\ q.ids = ids
      /\ q.head = ContextId(r, ids) /\ q.row = NoId /\ q.capturing = FALSE
      /\ q.counted = {} /\ q.sent = 0 /\ q.tracked = 0 /\ q.captured = 0
  <2>1. Idle \in Records
    <3>1. 0 \in 0..MaxValues /\ "idle" \in Stages /\ 0 \in Statuses
      BY DEF HttpAssumption, Stages, Statuses
    <3> QED BY <1>2, <3>1 DEF Idle, Records
  <2>2. "limit" \in Stages
    BY DEF Stages
  <2>3. /\ Idle.row = NoId /\ Idle.capturing = FALSE /\ Idle.counted = {}
        /\ Idle.sent = 0 /\ Idle.tracked = 0 /\ Idle.captured = 0
    BY DEF Idle
  <2> QED BY <1>2, <2>1, <2>2, <2>3 DEF Records
<1> HIDE DEF q
<1>4. WritersAgree(q) /\ Untouched(r, q) /\ Kept(r, q)
  BY <1>3 DEF WritersAgree, Untouched, Kept, Refusals
<1>5. req[r].sent = 0
  BY <1>1 DEF At, HttpInv, Sound, Untouched
<1>6. Become(r, q) /\ UNCHANGED cached
  BY <1>1 DEF q
<1> QED
  BY <1>3, <1>4, <1>5, <1>6, BecomeSound DEF Sound

\* A keyed request that misses is captured from here on.
LEMMA Capturing ==
    ASSUME HttpInv, NEW r \in Requests, RunAndCache(r)
    PROVE  HttpInv'
<1> DEFINE q == [req[r] EXCEPT !.capturing = TRUE, !.at = "route"]
<1>0. /\ req[r].at = "idempotency" /\ req[r].keys > 0 /\ UNCHANGED cached
      /\ Become(r, q)
  BY DEF RunAndCache, At
<1>1. Sound(r, req[r])
  BY DEF HttpInv
<1>2. /\ q \in Records /\ q.at = "route"
      /\ q.ids = req[r].ids /\ q.keys = req[r].keys
      /\ q.head = req[r].head /\ q.row = req[r].row
      /\ q.capturing = TRUE /\ q.counted = req[r].counted
      /\ q.sent = req[r].sent /\ q.tracked = req[r].tracked
      /\ q.captured = req[r].captured
  BY <1>1 DEF Sound, Records, Stages
<1>3. /\ req[r].sent = 0 /\ req[r].tracked = 0 /\ req[r].captured = 0
      /\ req[r].counted = {} /\ req[r].row = NoId
      /\ req[r].head = ContextId(r, req[r].ids)
  BY <1>0, BeforeFacts DEF Before
<1> HIDE DEF q
<1>4. WritersAgree(q) /\ Untouched(r, q) /\ Kept(r, q)
  BY <1>0, <1>2, <1>3 DEF WritersAgree, Untouched, Kept, Refusals
<1> QED
  BY <1>0, <1>2, <1>3, <1>4, BecomeSound DEF Sound

\* The row of a request that has none yet carries the client's id if it sent one.
LEMMA WithRowFacts ==
    ASSUME HttpAssumption, HttpInv, NEW r \in Requests, At(r, "handle")
    PROVE  LET w == WithRow(r) IN
           /\ req[r].op \in Served /\ Decent(Returns(r))
           /\ RowId(r) \in CorrelationIds /\ (req[r].ids > 0 => RowId(r) = <<"client", r>>)
           /\ w \in Records /\ w.at = "handle"
           /\ w.ids = req[r].ids /\ w.keys = req[r].keys
           /\ w.head = req[r].head
           /\ w.capturing = req[r].capturing /\ w.counted = {}
           /\ w.sent = 0 /\ w.tracked = 0 /\ w.captured = 0
           /\ w.row = IF Returns(r).writes THEN RowId(r) ELSE NoId
<1>1. Sound(r, req[r]) /\ req[r].at = "handle" /\ req[r] \in Records
  BY DEF HttpInv, At, Sound
<1>2. /\ req[r].sent = 0 /\ req[r].tracked = 0 /\ req[r].captured = 0
      /\ req[r].counted = {} /\ req[r].row = NoId
  BY <1>1, BeforeFacts DEF Before
<1>3. req[r].op \in Served
  BY <1>1 DEF Sound, Untouched
<1>4. Decent(Returns(r))
  BY <1>3, RouteFacts DEF Returns, HttpAssumption
<1>5. RowId(r) \in CorrelationIds /\ (req[r].ids > 0 => RowId(r) = <<"client", r>>)
  BY DEF RowId, CorrelationIds
<1> HIDE DEF Decent, RowId
<1>6. CASE Returns(r).writes
  <2>1. WithRow(r) = [req[r] EXCEPT !.row = RowId(r)]
    BY <1>6 DEF WithRow
  <2> QED BY <1>1, <1>2, <1>3, <1>4, <1>5, <1>6, <2>1 DEF Records
<1>7. CASE ~Returns(r).writes
  <2>1. WithRow(r) = req[r]
    BY <1>7 DEF WithRow
  <2> QED BY <1>1, <1>2, <1>3, <1>4, <1>5, <1>7, <2>1
<1> QED
  BY <1>6, <1>7

\* The id in the response is an id, and the row's where a row was written.
LEMMA ResponseIdFacts ==
    ASSUME HttpAssumption, HttpInv, NEW r \in Requests, At(r, "handle"),
           NEW id \in ResponseIds(r)
    PROVE  id \in CorrelationIds /\ (Returns(r).writes => id = RowId(r))
<1>1. req[r] \in Records /\ \A s \in Requests : req[s].row \in CorrelationIds
  BY DEF HttpInv, Sound, Records
<1>2. CASE Returns(r).writes
  <2>1. ResponseIds(r) = {RowId(r)}
    BY <1>2, WithRowFacts DEF ResponseIds, Decent
  <2> QED BY <2>1, WithRowFacts
<1>3. CASE ~Returns(r).writes
  <2>1. Found(r) \subseteq CorrelationIds
    BY <1>1 DEF Found
  <2>2. req[r].ctx \in CorrelationIds
    BY <1>1 DEF Records
  <2> QED BY <1>3, <2>1, <2>2 DEF ResponseIds
<1> QED
  BY <1>2, <1>3

\* The handler answers, with the id of its row in the header.
LEMMA Returning ==
    ASSUME HttpAssumption, HttpInv, NEW r \in Requests, HandlerReturns(r)
    PROVE  HttpInv'
<1>0. At(r, "handle") /\ UNCHANGED cached
  BY DEF HandlerReturns
<1>1. PICK id \in ResponseIds(r), status \in Returns(r).ok :
         Become(r, WriteHeader([WithRow(r) EXCEPT !.head = id, !.at = "body"], status))
  BY DEF HandlerReturns
<1> DEFINE w == WithRow(r)
           v == [w EXCEPT !.head = id, !.at = "body"]
           q == WriteHeader(v, status)
<1>2. status \in {200, 201, 202, 204, 503} /\ status \in Statuses
  BY <1>0, WithRowFacts DEF Decent, Statuses
<1>3. id \in CorrelationIds /\ (Returns(r).writes => id = RowId(r))
  BY <1>0, ResponseIdFacts
<1>4. /\ w \in Records /\ w.ids = req[r].ids /\ w.keys = req[r].keys
      /\ w.capturing = req[r].capturing /\ w.counted = {}
      /\ w.sent = 0 /\ w.tracked = 0 /\ w.captured = 0
      /\ w.row = IF Returns(r).writes THEN RowId(r) ELSE NoId
  BY <1>0, WithRowFacts
<1> HIDE DEF w
<1>5. /\ v \in Records /\ v.at = "body" /\ v.head = id
      /\ v.ids = req[r].ids /\ v.keys = req[r].keys
      /\ v.capturing = req[r].capturing /\ v.counted = {}
      /\ v.sent = 0 /\ v.tracked = 0 /\ v.captured = 0
      /\ v.row = IF Returns(r).writes THEN RowId(r) ELSE NoId
  BY <1>3, <1>4 DEF Records, Stages
<1> HIDE DEF v
<1>6. /\ q \in Records /\ q.at = "body" /\ q.head = id
      /\ q.ids = req[r].ids /\ q.keys = req[r].keys
      /\ q.capturing = req[r].capturing /\ q.counted = {}
      /\ q.sent = status /\ q.tracked = status
      /\ q.captured = IF q.capturing THEN status ELSE 0
      /\ q.row = IF Returns(r).writes THEN RowId(r) ELSE NoId
  BY <1>2, <1>5, WriteHeaderFacts DEF First
<1>7. Become(r, q)
  BY <1>1 DEF v, w
<1> HIDE DEF q
<1>8. WritersAgree(q)
  BY <1>6 DEF HttpInv, Sound, WritersAgree
<1>9. Untouched(r, q)
  BY <1>2, <1>6 DEF Untouched, Before
<1>10. Kept(r, q)
  <2>1. req[r].ids > 0 => RowId(r) = <<"client", r>>
    BY <1>0, WithRowFacts
  <2> QED BY <1>2, <1>3, <1>6, <2>1 DEF Kept, Refusals
<1>11. req[r].sent = 0
  BY <1>0, BeforeFacts DEF At, Before
<1> QED
  BY <1>0, <1>6, <1>7, <1>8, <1>9, <1>10, <1>11, BecomeSound DEF Sound

\* The use case fails after its INSERT: a conflict or an internal error, and the
\* response keeps the id the middleware put there, which is the client's.
LEMMA FailingLate ==
    ASSUME HttpAssumption, HttpInv, NEW r \in Requests, HandlerFailsLate(r)
    PROVE  HttpInv'
<1>0. At(r, "handle")
  BY DEF HandlerFailsLate
<1>1. PICK err \in Returns(r).late : Refuse(r, WriteHeader(WithRow(r), StatusOf(err)))
  BY DEF HandlerFailsLate
<1> DEFINE status == StatusOf(err)
           v == WithRow(r)
           w == WriteHeader(v, status)
           q == Unwind(w)
<1>2. status \in {409, 500} /\ status \in Statuses
  BY <1>0, WithRowFacts, StatusOfFacts DEF Decent
<1>3. Become(r, q) /\ UNCHANGED cached
  BY <1>1 DEF Refuse
<1>4. /\ v \in Records /\ v.ids = req[r].ids /\ v.keys = req[r].keys
      /\ v.head = req[r].head
      /\ v.capturing = req[r].capturing /\ v.counted = {}
      /\ v.sent = 0 /\ v.tracked = 0 /\ v.captured = 0
      /\ v.row = IF Returns(r).writes THEN RowId(r) ELSE NoId
  BY <1>0, WithRowFacts
<1> HIDE DEF v, status
<1>5. /\ w \in Records /\ w.ids = req[r].ids /\ w.keys = req[r].keys
      /\ w.head = req[r].head
      /\ w.capturing = req[r].capturing /\ w.counted = {}
      /\ w.sent = status /\ w.tracked = status
      /\ w.captured = IF w.capturing THEN status ELSE 0
      /\ w.row = IF Returns(r).writes THEN RowId(r) ELSE NoId
  BY <1>2, <1>4, WriteHeaderFacts DEF First
<1> HIDE DEF w
<1>6. /\ q \in Records /\ q.ids = req[r].ids /\ q.keys = req[r].keys
      /\ q.head = req[r].head
      /\ q.at = IF q.capturing THEN "store" ELSE "count"
      /\ q.capturing = req[r].capturing /\ q.counted = {}
      /\ q.sent = status /\ q.tracked = status
      /\ q.captured = IF q.capturing THEN status ELSE 0
      /\ q.row = IF Returns(r).writes THEN RowId(r) ELSE NoId
  BY <1>5, UnwindFacts
<1> HIDE DEF q
<1>7. WritersAgree(q)
  BY <1>6 DEF HttpInv, Sound, WritersAgree
<1>8. Untouched(r, q)
  BY <1>6 DEF Untouched, Before
<1>9. Kept(r, q)
  <2>1. req[r].ids > 0 => RowId(r) = <<"client", r>>
    BY <1>0, WithRowFacts
  <2>2. req[r].head = ContextId(r, req[r].ids)
    BY <1>0, BeforeFacts DEF At, Before
  <2>3. req[r].ids > 0 => req[r].head = <<"client", r>>
    BY <2>2 DEF ContextId
  <2> QED BY <1>2, <1>6, <2>1, <2>3 DEF Kept, Refusals
<1>10. req[r].sent = 0
  BY <1>0, BeforeFacts DEF At, Before
<1> QED
  BY <1>3, <1>6, <1>7, <1>8, <1>9, <1>10, BecomeSound DEF Sound

\* Recoverer writes to the outermost writer; nothing is counted or stored.
LEMMA Panicking ==
    ASSUME HttpInv, NEW r \in Requests, Panic(r)
    PROVE  HttpInv'
<1> DEFINE q == Recovered(req[r])
<1>0. req[r].at = "handle" /\ Become(r, q) /\ UNCHANGED cached
  BY DEF Panic, At
<1>1. Sound(r, req[r]) /\ req[r] \in Records
  BY DEF HttpInv, Sound
<1>2. /\ req[r].sent = 0 /\ req[r].captured = 0 /\ req[r].counted = {}
      /\ req[r].row = NoId
  BY <1>0, BeforeFacts DEF Before
<1>3. /\ q \in Records /\ q.at = "done" /\ q.keys = req[r].keys /\ q.row = NoId
      /\ q.capturing = req[r].capturing /\ q.captured = 0 /\ q.counted = {}
  <2>1. 500 \in Statuses /\ "done" \in Stages
    BY DEF Statuses, Stages
  <2>2. q = [req[r] EXCEPT !.sent = 500, !.at = "done"]
    BY <1>2 DEF Recovered, First
  <2> HIDE DEF q
  <2>3. q \in Records
    <3>1. ASSUME NEW p \in Records, NEW s \in Statuses, NEW a \in Stages
          PROVE  [p EXCEPT !.sent = s, !.at = a] \in Records
      BY DEF Records
    <3> QED BY <1>1, <2>1, <2>2, <3>1, ZenonT(60)
  <2>4. /\ q.at = "done" /\ q.keys = req[r].keys /\ q.row = req[r].row
        /\ q.capturing = req[r].capturing /\ q.captured = req[r].captured
        /\ q.counted = req[r].counted
    BY <1>1, <2>2 DEF Records
  <2> QED BY <1>2, <2>3, <2>4
<1> HIDE DEF q
<1>4. WritersAgree(q) /\ Untouched(r, q) /\ Kept(r, q)
  BY <1>1, <1>3 DEF Sound, WritersAgree, Untouched, Kept, Before
<1> QED
  BY <1>0, <1>2, <1>3, <1>4, BecomeSound DEF Sound

\* Unwinding from the body: the status has been sent and stays.
LEMMA Unwinding ==
    ASSUME HttpInv, NEW r \in Requests, req[r].at = "body",
           NEW w \in Records, Refuse(r, w),
           w.ids = req[r].ids, w.keys = req[r].keys, w.head = req[r].head,
           w.row = req[r].row, w.capturing = req[r].capturing,
           w.counted = req[r].counted, w.sent = req[r].sent,
           w.tracked = req[r].tracked, w.captured = req[r].captured
    PROVE  HttpInv'
<1> DEFINE q == Unwind(w)
<1>1. Sound(r, req[r])
  BY DEF HttpInv
<1>2. /\ q \in Records /\ q.ids = req[r].ids /\ q.keys = req[r].keys
      /\ q.head = req[r].head /\ q.row = req[r].row
      /\ q.at = IF q.capturing THEN "store" ELSE "count"
      /\ q.capturing = req[r].capturing /\ q.counted = req[r].counted
      /\ q.sent = req[r].sent /\ q.tracked = req[r].tracked
      /\ q.captured = req[r].captured
  BY UnwindFacts
<1>3. Become(r, q) /\ UNCHANGED cached
  BY DEF Refuse
<1> HIDE DEF q
<1>4. WritersAgree(q)
  BY <1>1, <1>2 DEF Sound, WritersAgree
<1>5. Untouched(r, q) /\ Kept(r, q)
  BY <1>1, <1>2 DEF Sound, Untouched, Kept, Before
<1> QED
  BY <1>2, <1>3, <1>4, <1>5, BecomeSound DEF Sound

\* The body is written, or fails and a second status is written after the first:
\* no writer takes it.
LEMMA WritingBody ==
    ASSUME HttpInv, NEW r \in Requests, BodyWritten(r) \/ BodyWriteFails(r)
    PROVE  HttpInv'
<1>0. req[r].at = "body" /\ req[r] \in Records /\ Sound(r, req[r])
  BY DEF BodyWritten, BodyWriteFails, At, HttpInv, Sound
<1>1. CASE BodyWritten(r)
  BY <1>0, <1>1, Unwinding DEF BodyWritten
<1>2. CASE BodyWriteFails(r)
  <2> DEFINE w == WriteHeader(req[r], 500)
  <2>1. /\ req[r].sent # 0 /\ req[r].tracked = req[r].sent
        /\ req[r].capturing => req[r].captured = req[r].sent
    BY <1>0 DEF Sound, WritersAgree, Untouched
  <2>2. 500 \in Statuses
    BY DEF Statuses
  <2>3. /\ w \in Records /\ w.ids = req[r].ids /\ w.keys = req[r].keys
        /\ w.head = req[r].head /\ w.row = req[r].row
        /\ w.capturing = req[r].capturing /\ w.counted = req[r].counted
        /\ w.sent = req[r].sent /\ w.tracked = req[r].tracked
        /\ w.captured = req[r].captured
    BY <1>0, <2>1, <2>2, WriteHeaderFacts DEF First
  <2>4. Refuse(r, w)
    BY <1>2 DEF BodyWriteFails
  <2> HIDE DEF w
  <2> QED BY <1>0, <2>3, <2>4, Unwinding
<1> QED
  BY <1>1, <1>2

\* The reply is stored, or not; only a success that was sent is.
LEMMA Storing ==
    ASSUME HttpInv, NEW r \in Requests, StoreReply(r) \/ SkipStore(r)
    PROVE  HttpInv'
<1> DEFINE q == [req[r] EXCEPT !.at = "count"]
<1>0. /\ req[r].at = "store" /\ Become(r, q)
      /\ \/ cached' = cached
         \/ cached' = TRUE /\ req[r].captured \in 200..299
  BY DEF StoreReply, SkipStore, At, Pass, Successful
<1>1. Sound(r, req[r]) /\ req[r] \in Records
  BY DEF HttpInv, Sound
<1>2. /\ q \in Records /\ q.at = "count"
      /\ q.ids = req[r].ids /\ q.keys = req[r].keys
      /\ q.head = req[r].head /\ q.row = req[r].row
      /\ q.capturing = req[r].capturing /\ q.counted = req[r].counted
      /\ q.sent = req[r].sent /\ q.tracked = req[r].tracked
      /\ q.captured = req[r].captured
  BY <1>1 DEF Records, Stages
<1>3. req[r].keys > 0 /\ req[r].captured = req[r].sent
  BY <1>0, <1>1 DEF Sound, WritersAgree
<1> HIDE DEF q
<1>4. WritersAgree(q) /\ Untouched(r, q) /\ Kept(r, q)
  BY <1>0, <1>1, <1>2 DEF Sound, WritersAgree, Untouched, Kept, Before
<1> QED
  BY <1>0, <1>2, <1>3, <1>4, BecomeSound DEF Sound

\* The metrics count what the tracker saw, which is what was sent.
LEMMA Counting ==
    ASSUME HttpInv, NEW r \in Requests, Count(r)
    PROVE  HttpInv'
<1> DEFINE q == [req[r] EXCEPT !.at = "done", !.counted = @ \cup {req[r].tracked}]
<1>0. req[r].at = "count" /\ Become(r, q) /\ UNCHANGED cached
  BY DEF Count, At
<1>1. Sound(r, req[r]) /\ req[r] \in Records
  BY DEF HttpInv, Sound
<1>2. req[r].tracked = req[r].sent /\ req[r].counted = {}
  BY <1>0, <1>1 DEF Sound, WritersAgree
<1>3. /\ q \in Records /\ q.at = "done"
      /\ q.ids = req[r].ids /\ q.keys = req[r].keys
      /\ q.head = req[r].head /\ q.row = req[r].row
      /\ q.capturing = req[r].capturing /\ q.counted = {req[r].sent}
      /\ q.sent = req[r].sent /\ q.captured = req[r].captured
  BY <1>1, <1>2 DEF Records, Stages
<1> HIDE DEF q
<1>4. WritersAgree(q) /\ Untouched(r, q) /\ Kept(r, q)
  BY <1>0, <1>1, <1>3 DEF Sound, WritersAgree, Untouched, Kept, Before
<1> QED
  BY <1>0, <1>3, <1>4, BecomeSound DEF Sound

-----------------------------------------------------------------------------

\* Every stage of the chain keeps the invariant.
LEMMA StepInv ==
    ASSUME HttpAssumption, HttpInv, NEW r \in Requests, Step(r)
    PROVE  HttpInv'
<1>0. Sound(r, req[r])
  BY DEF HttpInv
<1> USE DEF At
<1>1. CASE Allow(r)
  BY <1>1, Passing DEF Allow, Before
<1>2. CASE RespondWithRateLimited(r)
  BY <1>2, Refusing DEF RespondWithRateLimited, Before, Statuses
<1>3. CASE NoKey(r)
  BY <1>3, Passing DEF NoKey, Before
<1>4. CASE RespondToBodyReadError(r)
  BY <1>4, Refusing DEF RespondToBodyReadError, Before, Statuses
<1>5. CASE DispatchCacheHit(r)
  BY <1>5, Refusing DEF DispatchCacheHit, Before, Statuses
<1>6. CASE RunAndCache(r)
  BY <1>6, Capturing
<1>7. CASE Match(r)
  BY <1>0, <1>7, Passing DEF Match, Before, Sound, Records
<1>8. CASE NotFound(r)
  BY <1>8, Refusing DEF NotFound, Before, Statuses
<1>9. CASE Bind(r)
  BY <1>0, <1>9, Passing DEF Bind, Before, Sound, Untouched
<1>10. CASE BindFails(r)
  BY <1>10, Refusing DEF BindFails, Before, Statuses
<1>11. CASE Decode(r)
  BY <1>0, <1>11, Passing DEF Decode, Before, Sound, Untouched
<1>12. CASE DecodeFails(r)
  BY <1>12, Refusing, StatusOfFacts DEF DecodeFails, Before
<1>13. CASE HandlerReturns(r)
  BY <1>13, Returning
<1>14. CASE HandlerFails(r)
  BY <1>14, Refusing, StatusOfFacts DEF HandlerFails, Before
<1>15. CASE HandlerFailsLate(r)
  BY <1>15, FailingLate
<1>16. CASE Panic(r)
  BY <1>16, Panicking
<1>17. CASE BodyWritten(r) \/ BodyWriteFails(r)
  BY <1>17, WritingBody
<1>18. CASE StoreReply(r) \/ SkipStore(r)
  BY <1>18, Storing
<1>19. CASE Count(r)
  BY <1>19, Counting
<1> QED
  BY <1>1, <1>2, <1>3, <1>4, <1>5, <1>6, <1>7, <1>8, <1>9, <1>10, <1>11, <1>12, <1>13,
     <1>14, <1>15, <1>16, <1>17, <1>18, <1>19 DEF Step

\* No request has arrived.
LEMMA HttpInit == HttpAssumption /\ Init => HttpInv
<1> SUFFICES ASSUME HttpAssumption, Init PROVE HttpInv
  OBVIOUS
<1>1. Idle \in Records
  <2>1. 0 \in 0..MaxValues /\ "idle" \in Stages /\ 0 \in Statuses /\ NoId \in CorrelationIds
    BY DEF HttpAssumption, Stages, Statuses, CorrelationIds
  <2> QED BY <2>1 DEF Idle, Records
<1>2. ASSUME NEW r \in Requests PROVE WritersAgree(Idle) /\ Untouched(r, Idle) /\ Kept(r, Idle)
  BY DEF Idle, WritersAgree, Untouched, Kept, Before
<1> QED
  BY <1>1, <1>2 DEF Init, HttpInv, Sound, Stored

\* Every step of the API process keeps the invariant.
LEMMA HttpNext == HttpAssumption /\ HttpInv /\ [Next]_vars => HttpInv'
<1> SUFFICES ASSUME HttpAssumption, HttpInv, [Next]_vars PROVE HttpInv'
  OBVIOUS
<1>1. CASE UNCHANGED vars
  BY <1>1 DEF vars, HttpInv, Stored
<1>2. CASE Expire
  BY <1>2 DEF Expire, HttpInv, Stored
<1>3. ASSUME NEW r \in Requests, Arrive(r) PROVE HttpInv'
  BY <1>3, Arriving
<1>4. ASSUME NEW r \in Requests, Step(r) PROVE HttpInv'
  BY <1>4, StepInv
<1> QED
  BY <1>1, <1>2, <1>3, <1>4 DEF Next

\* The invariant says what the runs check of the chain.
LEMMA HttpInvImplies ==
    HttpInv => TypeOK /\ SameStatus /\ ClientIdIsKept /\ RefusedWroteNothing
<1> SUFFICES ASSUME HttpInv
             PROVE  TypeOK /\ SameStatus /\ ClientIdIsKept /\ RefusedWroteNothing
  OBVIOUS
<1>1. TypeOK
  BY DEF HttpInv, Sound, Records, TypeOK
<1>2. SameStatus
  BY DEF HttpInv, Sound, WritersAgree, Stored, SameStatus
<1>3. ClientIdIsKept /\ RefusedWroteNothing
  BY DEF HttpInv, Sound, Kept, Refusals, ClientIdIsKept, RefusedWroteNothing
<1> QED
  BY <1>1, <1>2, <1>3

\* For any requests, operations and headers: what the client was sent is what
\* the metrics count and the store keeps, the client's correlation id is on its
\* row and response, and a request that was refused has written nothing.
THEOREM HttpInvariance ==
    ASSUME HttpAssumption
    PROVE  Spec => [](TypeOK /\ SameStatus /\ ClientIdIsKept /\ RefusedWroteNothing)
<1>1. Init => HttpInv
  BY HttpInit
<1>2. HttpInv /\ [Next]_vars => HttpInv'
  BY HttpNext
<1> QED
  BY <1>1, <1>2, HttpInvImplies, PTL DEF Spec

=============================================================================
