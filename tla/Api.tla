-------------------------------- MODULE Api --------------------------------
(***************************************************************************)
(* The components of the API process together: the middleware chain, the   *)
(* idempotency keys, the status feed, the templates and the listing.  They *)
(* share no state, so an interleaving of two of them shows nothing that    *)
(* each does not show alone: in a behaviour one component moves, the one   *)
(* in focus, and the others stay in an initial state.                      *)
(*                                                                         *)
(* The chain has two instances on the same variables: requests for some of *)
(* the operations that interleave, and requests for any of the operations, *)
(* with headers that may be sent more often.                               *)
(*                                                                         *)
(* A component that has a module of proofs is instantiated through it, so  *)
(* that what is proved of it can be used of the process.                   *)
(***************************************************************************)
EXTENDS Naturals

CONSTANTS
    None,                                   \* no request, no entry, no answer
    Callers, ChainServed, ChainValues,      \* HttpApi, requests that interleave
    LoneCallers, LoneValues,                \* HttpApi, any operation
    Requests, Keys, Bodies, Endpoints, Guarded, Old, MaxFaults, MaxExpiries,
                                            \* Idempotency
    Conns, Notifs, Garbage, MaxPublished, Capacity,                 \* StatusFeed
    TemplateRequests, TemplateIds, Names, TemplateBodies, Malformed, Parametric,
                                            \* Templates
    Ids, MaxTime, DefaultListLimit, MaxListLimit                    \* Pagination

VARIABLES
    focus,
    http, cached,                                            \* HttpApi
    rpc, req, cache, stored, answer, faults, expiries,       \* Idempotency
    published, buffer, consumer, casting, subscribers, clientSubs, conn, inbox,
    late,                                                    \* StatusFeed
    templates, allocated, notes, requests,                   \* Templates
    table, walk, steady                                      \* Pagination

Chain == INSTANCE HttpApiProofs WITH
    Requests <- Callers, Served <- ChainServed, MaxValues <- ChainValues, req <- http

Operations == INSTANCE HttpApiProofs WITH
    Requests <- LoneCallers, Served <- DOMAIN Chain!Routes, MaxValues <- LoneValues,
    req <- http

Keyed == INSTANCE IdempotencyProofs

Feed == INSTANCE StatusFeedProofs

Library == INSTANCE Templates WITH
    Requests <- TemplateRequests, Ids <- TemplateIds, Bodies <- TemplateBodies

List == INSTANCE PaginationProofs

ASSUME ApiAssumption ==
    /\ Chain!HttpAssumption /\ Operations!HttpAssumption
    /\ Keyed!IdempotencyAssumption /\ Feed!StatusFeedAssumption
    /\ Library!BodyAssumption /\ List!PaginationAssumption

httpVars == <<http, cached>>
keyedVars == <<rpc, req, cache, stored, answer, faults, expiries>>
feedVars == <<published, buffer, consumer, casting, subscribers, clientSubs, conn,
              inbox, late>>
libraryVars == <<templates, allocated, notes, requests>>
listVars == <<table, walk, steady>>
vars == <<focus, httpVars, keyedVars, feedVars, libraryVars, listVars>>

-----------------------------------------------------------------------------

\* A component with several initial states has one of them out of focus.
Init ==
    /\ focus \in {"chain", "operations", "keyed", "feed", "library", "list"}
    /\ IF focus = "operations" THEN Operations!Init ELSE Chain!Init
    /\ Keyed!Init /\ (focus # "keyed" => stored = {})
    /\ Feed!Init /\ Library!Init /\ List!Init

OthersStay(f) ==
    /\ focus = f
    /\ UNCHANGED focus
    /\ f \notin {"chain", "operations"} => UNCHANGED httpVars
    /\ f # "keyed" => UNCHANGED keyedVars
    /\ f # "feed" => UNCHANGED feedVars
    /\ f # "library" => UNCHANGED libraryVars
    /\ f # "list" => UNCHANGED listVars

Next ==
    \/ OthersStay("chain") /\ Chain!Next
    \/ OthersStay("operations") /\ Operations!Next
    \/ OthersStay("keyed") /\ Keyed!Next
    \/ OthersStay("feed") /\ Feed!Next
    \/ OthersStay("library") /\ Library!Next
    \/ OthersStay("list") /\ List!Next

\* The fairness of the components whose liveness is checked.
Spec ==
    /\ Init /\ [][Next]_vars
    /\ \A r \in Callers : WF_vars(OthersStay("chain") /\ Chain!Step(r))
    /\ WF_vars(OthersStay("feed") /\ Feed!Dispatch)
    /\ WF_vars(OthersStay("feed") /\ Feed!Casts)

-----------------------------------------------------------------------------

InChain == focus # "operations"

\* Every component's state is well formed.
TypeOK ==
    /\ IF InChain THEN Chain!TypeOK ELSE Operations!TypeOK
    /\ Keyed!TypeOK /\ Feed!TypeOK /\ Library!TypeOK /\ List!TypeOK

\* What the client was sent is what the metrics counted and the store keeps.
SameStatus == IF InChain THEN Chain!SameStatus ELSE Operations!SameStatus

\* The client's correlation id is on its row and on its response.
ClientIdIsKept == IF InChain THEN Chain!ClientIdIsKept ELSE Operations!ClientIdIsKept

\* No operation answers with a refusal after it has written its row.
RefusedWroteNothing ==
    IF InChain THEN Chain!RefusedWroteNothing ELSE Operations!RefusedWroteNothing

\* Every request is answered, a panic in its handler included.
Answered == \A r \in Callers :
    (focus = "chain" /\ http[r].at = "limit") ~> (focus # "chain" \/ http[r].sent # 0)

\* Redis and the unique index implement the promise of one effect per key.
ImplementsOncePerKey == Keyed!ImplementsOncePerKey

\* The hub's two maps are each other's inverse and hold no closed connection.
IndexesAgree == Feed!IndexesAgree

\* A client receives updates in the order of publication, none of them twice.
InOrder == Feed!InOrder

\* At most one update reaches a client after it has unsubscribed.
AtMostOneLate == Feed!AtMostOneLate

\* A subscriber that reads hears every update the consumer takes.
SubscriberHears == Feed!SubscriberHears

\* A template that is stored renders, when its variables are supplied.
StoredBodiesRender == Library!StoredBodiesRender

\* A PUT that races a DELETE does not bring the template back.
DeletedStaysDeleted == Library!DeletedStaysDeleted

\* A walk through the pages lists every steady row once, in order.
ListedOnce == List!ListedOnce
=============================================================================
