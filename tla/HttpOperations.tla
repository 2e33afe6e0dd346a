---------------------------- MODULE HttpOperations ----------------------------
(***************************************************************************)
(* The operations of the REST API, one table entry each, as the code       *)
(* generated from api/openapi.yaml and the handlers of                     *)
(* internal/adapters/http define them.  Two facts are kept of every        *)
(* operation:                                                              *)
(*   Bind...     the parameters its wrapper unmarshals, each of which can  *)
(*               make it refuse the request before the handler runs;       *)
(*   ...Returns  what the handler and its use case return: the status of a *)
(*               response object, the errors returned before anything was  *)
(*               written (early) and after the row was written (late),     *)
(*               whether it writes a row, and the operations whose row it  *)
(*               returns and whose correlation id it puts in the response  *)
(*               header.                                                   *)
(***************************************************************************)
EXTENDS Naturals

Correlation == "X-Correlation-ID"
Idempotency == "Idempotency-Key"

-----------------------------------------------------------------------------
(* The parameters each ServerInterfaceWrapper method binds.                 *)

BindGetJSONMetrics == {Correlation}

BindListNotifications == {"status", "channel", "batch_id", "created_after",
                          "created_before", "cursor", "limit", Correlation}

BindCreateNotification == {Idempotency, Correlation}

BindCreateBatch == {Idempotency, Correlation}

BindGetBatch == {"id", Correlation}

BindGetNotification == {"id", Correlation}

BindCancelNotification == {"id", Idempotency, Correlation}

BindGetNotificationTrace == {"id", Correlation}

BindListTemplates == {"channel", "cursor", "limit", Correlation}

BindCreateTemplate == {Idempotency, Correlation}

BindDeleteTemplate == {"id", Correlation}

BindGetTemplate == {"id", Correlation}

BindReplaceTemplate == {"id", Idempotency, Correlation}

BindProbe == {}

-----------------------------------------------------------------------------
(* What each handler returns.  "Internal" stands for every error without a  *)
(* sentinel in errorMappings: the database, the queue, an unreadable cursor *)
(* and a template name that is taken.                                       *)

Handler(ok, early) ==
    [ok |-> ok, early |-> early, late |-> {}, writes |-> FALSE, rows |-> {}]

NotificationErrors == {"InvalidChannel", "InvalidPriority",
                       "InvalidRecipient", "InvalidContent"}

(* Mutant: a lost race for the row reported as a row that is not there.     *)
CreateNotificationLosesRow ==
    [Handler({202}, NotificationErrors
                       \cup {"NotFound", "TemplateRenderFailed", "Internal"})
        EXCEPT !.late = {"NotFound", "Internal"}, !.writes = TRUE]

CreateNotificationReturns ==
    [Handler({202}, NotificationErrors
                       \cup {"NotFound", "TemplateRenderFailed", "Internal"})
        EXCEPT !.late = {"ConcurrentUpdate", "Internal"}, !.writes = TRUE]

CreateBatchReturns ==
    [Handler({202}, NotificationErrors \cup {"InvalidBatchSize", "Internal"})
        EXCEPT !.late = {"ConcurrentUpdate", "Internal"}, !.writes = TRUE]

GetNotificationReturns ==
    [Handler({200}, {"NotFound", "Internal"})
        EXCEPT !.rows = {"CreateNotification", "CreateBatch"}]

GetBatchReturns ==
    [Handler({200}, {"NotFound", "Internal"})
        EXCEPT !.rows = {"CreateBatch"}]

CancelNotificationReturns ==
    [Handler({200}, {"NotFound", "InvalidTransition", "ConcurrentUpdate",
                     "Internal"})
        EXCEPT !.late = {"Internal"},
               !.rows = {"CreateNotification", "CreateBatch"}]

GetNotificationTraceReturns == Handler({200}, {"NotFound", "Internal"})

ListNotificationsReturns ==
    Handler({200}, {"InvalidStatus", "InvalidChannel", "Internal"})

TemplateErrors == {"InvalidChannel", "InvalidTemplateName",
                   "InvalidTemplateBody"}

CreateTemplateReturns == Handler({201}, TemplateErrors \cup {"Internal"})

ListTemplatesReturns == Handler({200}, {"Internal"})

GetTemplateReturns == Handler({200}, {"NotFound", "Internal"})

ReplaceTemplateReturns ==
    Handler({200}, TemplateErrors \cup {"NotFound", "Internal"})

DeleteTemplateReturns == Handler({204}, {"Internal"})

GetHealthzLiveReturns == Handler({200}, {})

GetHealthzReadyReturns == Handler({200, 503}, {})

GetPrometheusMetricsReturns == Handler({200}, {"Internal"})

GetJSONMetricsReturns == Handler({200}, {})

-----------------------------------------------------------------------------
(* The routes HandlerWithOptions mounts, and what each one leads to.        *)

Route(bind, returns) == [params |-> bind, returns |-> returns]

Routes ==
    [GetJSONMetrics |->
        Route(BindGetJSONMetrics, GetJSONMetricsReturns),
     ListNotifications |->
        Route(BindListNotifications, ListNotificationsReturns),
     CreateNotification |->
        Route(BindCreateNotification, CreateNotificationReturns),
     CreateBatch |->
        Route(BindCreateBatch, CreateBatchReturns),
     GetBatch |->
        Route(BindGetBatch, GetBatchReturns),
     GetNotification |->
        Route(BindGetNotification, GetNotificationReturns),
     CancelNotification |->
        Route(BindCancelNotification, CancelNotificationReturns),
     GetNotificationTrace |->
        Route(BindGetNotificationTrace, GetNotificationTraceReturns),
     ListTemplates |->
        Route(BindListTemplates, ListTemplatesReturns),
     CreateTemplate |->
        Route(BindCreateTemplate, CreateTemplateReturns),
     DeleteTemplate |->
        Route(BindDeleteTemplate, DeleteTemplateReturns),
     GetTemplate |->
        Route(BindGetTemplate, GetTemplateReturns),
     ReplaceTemplate |->
        Route(BindReplaceTemplate, ReplaceTemplateReturns),
     GetHealthzLive |->
        Route(BindProbe, GetHealthzLiveReturns),
     GetHealthzReady |->
        Route(BindProbe, GetHealthzReadyReturns),
     GetPrometheusMetrics |->
        Route(BindProbe, GetPrometheusMetricsReturns)]

(* The operations whose strict handler decodes a JSON body, and those whose *)
(* body has a field (an id, a time) with a text format of its own.          *)
Bodied == {"CreateNotification", "CreateBatch", "CreateTemplate",
           "ReplaceTemplate"}

Formatted == {"CreateNotification", "CreateBatch"}

(* errorMappings: the status WriteError answers for an error; an error that *)
(* is not in the table is a 500.  openapi.yaml documents 422 where an       *)
(* invalid field is answered 400 here.                                      *)
ErrorMappings ==
    [NotFound |-> 404, AlreadyClaimed |-> 409, ConcurrentUpdate |-> 409,
     InvalidChannel |-> 400, InvalidPriority |-> 400, InvalidStatus |-> 400,
     InvalidRecipient |-> 400, InvalidContent |-> 400,
     InvalidTransition |-> 409, InvalidBatchSize |-> 400,
     InvalidTemplateName |-> 400, InvalidTemplateBody |-> 400,
     TemplateRenderFailed |-> 400]

(* RespondWithError: a decode error of the JSON package is a 400, any other *)
(* error goes through WriteError's table.                                   *)
JSONDecodeErrors == {"SyntaxError", "UnmarshalTypeError", "ErrUnexpectedEOF"}

StatusOf(err) ==
    CASE err \in JSONDecodeErrors      -> 400
      [] err \in DOMAIN ErrorMappings  -> ErrorMappings[err]
      [] OTHER                         -> 500

(* What the decoder reports of a body it cannot read: io.EOF for an empty   *)
(* one, and the error of the field's own parser for a malformed id or time. *)
DecodeErrors(op) == JSONDecodeErrors \cup {"EOF"}
                      \cup (IF op \in Formatted THEN {"FieldFormat"} ELSE {})
=============================================================================
