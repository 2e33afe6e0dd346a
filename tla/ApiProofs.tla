----------------------------- MODULE ApiProofs ------------------------------
(***************************************************************************)
(* The API process: what the run over its components checks on a small     *)
(* instance holds for any number of callers, keys, connections, templates  *)
(* and rows.                                                               *)
(*                                                                         *)
(* The chain, the keys, the feed and the listing have their inductive      *)
(* invariants in modules of their own; the templates have theirs here.     *)
(* ApiInv puts them together: the component in focus takes a step of its   *)
(* own, and what the others rely on does not change.                       *)
(***************************************************************************)
EXTENDS Api, TLAPS

-----------------------------------------------------------------------------
(***************************************************************************)
(* Templates                                                               *)
(***************************************************************************)

\* A request between its two statements holds the identifier of a template and
\* a row that passed NewTemplate.
Midway ==
    /\ DOMAIN requests = TemplateRequests
    /\ \A r \in TemplateRequests :
         /\ requests[r].stage = "replacing" => /\ requests[r].row \in Library!Rows
                                                /\ requests[r].row.body \notin Malformed
         /\ requests[r].stage \in {"replacing", "rendered"}
              => requests[r].id \in TemplateIds

BodiesParse == \A id \in Library!Live : templates[id].body \notin Malformed

LibraryInv == Library!TypeOK /\ BodiesParse /\ Midway

\* An answer ends its request.
LEMMA ReplyEnds ==
    ASSUME LibraryInv, NEW r \in TemplateRequests, NEW s, Library!Reply(r, s)
    PROVE  /\ Midway'
           /\ \A q \in TemplateRequests :
                requests'[q].stage \in {"idle", "replacing", "rendered", "done"}
  BY DEF LibraryInv, Midway, Library!Reply, Library!TypeOK

\* A request goes on to its second statement.
LEMMA GoesOn ==
    ASSUME LibraryInv, NEW r \in TemplateRequests, NEW id \in TemplateIds,
           NEW row \in Library!Rows, row.body \notin Malformed,
           \/ requests' = [requests EXCEPT ![r] =
                              [stage |-> "replacing", id |-> id, row |-> row]]
           \/ requests' = [requests EXCEPT ![r] = [stage |-> "rendered", id |-> id]],
           UNCHANGED <<templates, allocated, notes>>
    PROVE  LibraryInv'
<1>1. Midway' /\ \A p \in TemplateRequests :
                   requests'[p].stage \in {"idle", "replacing", "rendered", "done"}
  BY DEF LibraryInv, Midway, Library!TypeOK
<1> QED
  BY <1>1 DEF LibraryInv, BodiesParse, Library!TypeOK, Library!Live

\* An answer that leaves the tables alone.
LEMMA OnlyReplies ==
    ASSUME LibraryInv, NEW r \in TemplateRequests, NEW s, Library!Reply(r, s),
           UNCHANGED <<templates, allocated, notes>>
    PROVE  LibraryInv'
  BY ReplyEnds DEF LibraryInv, BodiesParse, Library!TypeOK, Library!Live

\* INSERT of a template: its identifier is fresh, and is handed out with it.
LEMMA TemplateInserted ==
    ASSUME LibraryInv, NEW r \in TemplateRequests, NEW id \in TemplateIds,
           NEW name \in Names, NEW body \in TemplateBodies,
           Library!CreateTemplate(r, id, name, body)
    PROVE  LibraryInv'
<1> DEFINE row == [name |-> name, body |-> body]
<1>1. CASE UNCHANGED <<templates, allocated>>
  <2>1. \E s : Library!Reply(r, s)
    BY DEF Library!CreateTemplate
  <2> QED BY <1>1, <2>1, OnlyReplies DEF Library!CreateTemplate
<1>2. CASE /\ body \notin Malformed
           /\ templates' = Library!Put(templates, id, row)
           /\ allocated' = allocated \cup {id}
           /\ Library!Reply(r, 201)
  <2>1. /\ Library!Live' = Library!Live \cup {id}
        /\ \A o \in Library!Live' : templates'[o] = IF o = id THEN row ELSE templates[o]
    BY <1>2 DEF Library!Live, Library!Put
  <2>2. row \in Library!Rows
    BY DEF Library!Rows
  <2>3. notes' = notes
    BY DEF Library!CreateTemplate
  <2>4. Library!TypeOK'
    BY <1>2, <2>1, <2>2, <2>3, ReplyEnds DEF LibraryInv, Library!TypeOK
  <2>5. BodiesParse'
    BY <1>2, <2>1 DEF LibraryInv, BodiesParse
  <2> QED BY <1>2, <2>4, <2>5, ReplyEnds DEF LibraryInv
<1> QED
  BY <1>1, <1>2 DEF Library!CreateTemplate, Library!NewTemplate

\* UPDATE: it replaces the row of a live template or matches none.
LEMMA TemplateUpdated ==
    ASSUME LibraryInv, NEW r \in TemplateRequests, Library!ReplaceUpdate(r)
    PROVE  LibraryInv'
<1> DEFINE id == requests[r].id
           row == requests[r].row
<1>1. row \in Library!Rows /\ row.body \notin Malformed /\ UNCHANGED <<allocated, notes>>
      /\ \E s : Library!Reply(r, s)
  BY DEF LibraryInv, Midway, Library!ReplaceUpdate
<1>2. /\ Library!Live' = Library!Live
      /\ \A o \in Library!Live : templates'[o] \in {templates[o], row}
  BY DEF Library!ReplaceUpdate, Library!Live
<1>3. Library!TypeOK'
  BY <1>1, <1>2, ReplyEnds DEF LibraryInv, Library!TypeOK
<1>4. BodiesParse'
  BY <1>1, <1>2 DEF LibraryInv, BodiesParse
<1> QED
  BY <1>1, <1>3, <1>4, ReplyEnds DEF LibraryInv

\* DELETE: the foreign key takes the reference away with the row.
LEMMA TemplateDeleted ==
    ASSUME LibraryInv, NEW r \in TemplateRequests, NEW id \in TemplateIds,
           Library!DeleteTemplate(r, id)
    PROVE  LibraryInv'
<1>1. /\ Library!Live' = Library!Live \ {id}
      /\ \A o \in Library!Live' : templates'[o] = templates[o]
      /\ allocated' = allocated
  BY DEF Library!DeleteTemplate, Library!Live
<1>2. /\ DOMAIN notes' = DOMAIN notes
      /\ \A q \in DOMAIN notes :
           notes'[q] = IF notes[q] = id THEN Library!Null ELSE notes[q]
  BY DEF Library!DeleteTemplate, Library!SetNull
<1>3. Library!Reply(r, 204)
  BY DEF Library!DeleteTemplate
<1>4. Library!TypeOK'
  BY <1>1, <1>2, <1>3, ReplyEnds DEF LibraryInv, Library!TypeOK
<1>5. BodiesParse'
  BY <1>1 DEF LibraryInv, BodiesParse
<1> QED
  BY <1>3, <1>4, <1>5, ReplyEnds DEF LibraryInv

\* INSERT of a notification: the foreign key admits a live template only.
LEMMA NotificationInserted ==
    ASSUME LibraryInv, NEW r \in TemplateRequests, Library!InsertNotification(r)
    PROVE  LibraryInv'
<1>1. CASE requests[r].id \notin Library!Live
  BY <1>1, OnlyReplies DEF Library!InsertNotification
<1>2. CASE requests[r].id \in Library!Live
  <2>1. /\ DOMAIN notes' = DOMAIN notes \cup {r}
        /\ \A q \in DOMAIN notes' : notes'[q] = IF q = r THEN requests[r].id ELSE notes[q]
    BY <1>2 DEF Library!InsertNotification, Library!Put
  <2>2. Library!Reply(r, 202) /\ UNCHANGED <<templates, allocated>>
    BY <1>2 DEF Library!InsertNotification
  <2>3. Library!Live' = Library!Live /\ requests[r].id \in TemplateIds
    BY <1>2, <2>2 DEF LibraryInv, Library!TypeOK, Library!Live
  <2>4. Library!TypeOK'
    BY <2>1, <2>2, <2>3, ReplyEnds DEF LibraryInv, Library!TypeOK
  <2>5. BodiesParse'
    BY <2>2, <2>3 DEF LibraryInv, BodiesParse
  <2> QED BY <2>2, <2>4, <2>5, ReplyEnds DEF LibraryInv
<1> QED
  BY <1>1, <1>2

\* The templates start in a state of the invariant.
LEMMA LibraryInit == Library!Init => LibraryInv
<1> SUFFICES ASSUME Library!Init PROVE LibraryInv
  OBVIOUS
<1>1. Library!Live = {} /\ DOMAIN notes = {}
  BY DEF Library!Init, Library!Live
<1> QED
  BY <1>1 DEF Library!Init, LibraryInv, Library!TypeOK, BodiesParse, Midway, Library!Idle

\* Every statement keeps the invariant.
LEMMA LibraryNext == LibraryInv /\ [Library!Next]_libraryVars => LibraryInv'
<1> SUFFICES ASSUME LibraryInv, [Library!Next]_libraryVars PROVE LibraryInv'
  OBVIOUS
<1>1. CASE UNCHANGED libraryVars
  BY <1>1 DEF libraryVars, LibraryInv, Library!TypeOK, BodiesParse, Midway, Library!Live
<1>2. ASSUME NEW r \in TemplateRequests, NEW id \in TemplateIds, NEW name \in Names,
             NEW body \in TemplateBodies, Library!ReplaceGet(r, id, name, body)
      PROVE  LibraryInv'
  <2>1. [name |-> name, body |-> body] \in Library!Rows
    BY DEF Library!Rows
  <2>2. CASE body \in Malformed
    BY <1>2, <2>2, OnlyReplies DEF Library!ReplaceGet, Library!NewTemplate
  <2>3. CASE body \notin Malformed
    BY <1>2, <2>1, <2>3, GoesOn, OnlyReplies DEF Library!ReplaceGet
  <2> QED BY <2>2, <2>3
<1>3. ASSUME NEW r \in TemplateRequests, NEW id \in TemplateIds, NEW supplied \in BOOLEAN,
             Library!RenderTemplate(r, id, supplied)
      PROVE  LibraryInv'
  <2>1. id \in Library!Live => /\ templates[id] \in Library!Rows
                                /\ templates[id].body \notin Malformed
    BY DEF LibraryInv, Library!TypeOK, BodiesParse
  <2> QED BY <1>3, <2>1, GoesOn, OnlyReplies DEF Library!RenderTemplate
<1>4. ASSUME NEW r \in TemplateRequests,
             \/ \E id \in TemplateIds : Library!GetTemplate(r, id)
             \/ Library!ListTemplates(r) \/ Library!Fault(r)
      PROVE  LibraryInv'
  BY <1>4, OnlyReplies DEF Library!GetTemplate, Library!ListTemplates, Library!Fault
<1> QED
  BY <1>1, <1>2, <1>3, <1>4, TemplateInserted, TemplateUpdated, TemplateDeleted,
     NotificationInserted DEF Library!Next

\* No statement but the INSERT of a fresh identifier adds a template.
LEMMA NoneComesBack ==
    ASSUME Library!Next
    PROVE  \A id \in allocated \ Library!Live : id \notin DOMAIN templates'
<1>1. \A r, id, name, body : Library!CreateTemplate(r, id, name, body)
         => DOMAIN templates' \subseteq Library!Live \cup {id} /\ id \notin allocated
  BY DEF Library!CreateTemplate, Library!Put, Library!Live
<1>2. \A r : Library!ReplaceUpdate(r) => DOMAIN templates' = Library!Live
  BY DEF Library!ReplaceUpdate, Library!Live
<1>3. \A r, id : Library!DeleteTemplate(r, id)
         => DOMAIN templates' \subseteq Library!Live
  BY DEF Library!DeleteTemplate
<1> QED
  BY <1>1, <1>2, <1>3 DEF Library!Next, Library!ReplaceGet, Library!GetTemplate,
     Library!ListTemplates, Library!RenderTemplate, Library!InsertNotification,
     Library!Fault, Library!Live

-----------------------------------------------------------------------------
(***************************************************************************)
(* The components together                                                 *)
(***************************************************************************)

\* Each component in its invariant, the chain in that of the requests in focus.
ApiInv ==
    /\ IF InChain THEN Chain!HttpInv ELSE Operations!HttpInv
    /\ Keyed!KeyedTypes /\ Feed!FeedInv /\ LibraryInv /\ List!ListInv

\* A step of the process is a step of every component, or leaves it alone; which
\* requests the chain serves does not change.
LEMMA EachMoves ==
    ASSUME [Next]_vars
    PROVE  /\ InChain' <=> InChain
           /\ InChain => [Chain!Next]_(Chain!vars)
           /\ ~InChain => [Operations!Next]_(Operations!vars)
           /\ [Keyed!Next]_(Keyed!vars)
           /\ [Feed!Next]_(Feed!vars)
           /\ [Library!Next]_libraryVars
           /\ [List!Next]_(List!vars)
<1> USE DEF httpVars, keyedVars, feedVars, libraryVars, listVars, Chain!vars,
            Operations!vars, Keyed!vars, Feed!vars, Feed!hubVars, List!vars, InChain
<1>1. CASE UNCHANGED vars
  BY <1>1 DEF vars
<1>2. CASE OthersStay("chain") /\ Chain!Next
  BY <1>2 DEF OthersStay
<1>3. CASE OthersStay("operations") /\ Operations!Next
  BY <1>3 DEF OthersStay
<1>4. CASE OthersStay("keyed") /\ Keyed!Next
  BY <1>4 DEF OthersStay
<1>5. CASE OthersStay("feed") /\ Feed!Next
  BY <1>5 DEF OthersStay
<1>6. CASE OthersStay("library") /\ Library!Next
  BY <1>6 DEF OthersStay
<1>7. CASE OthersStay("list") /\ List!Next
  BY <1>7 DEF OthersStay
<1> QED
  BY <1>1, <1>2, <1>3, <1>4, <1>5, <1>6, <1>7 DEF Next

\* Every component starts in its invariant.
LEMMA ApiInit == Init => ApiInv
<1> SUFFICES ASSUME Init PROVE ApiInv
  OBVIOUS
<1> USE ApiAssumption DEF ApiAssumption
<1>1. IF InChain THEN Chain!HttpInv ELSE Operations!HttpInv
  BY Chain!HttpInit, Operations!HttpInit DEF Init, InChain
<1>2. Keyed!KeyedTypes
  BY Keyed!TypesInit DEF Init
<1>3. Feed!FeedInv
  BY Feed!FeedInit DEF Init
<1>4. LibraryInv
  BY LibraryInit DEF Init
<1>5. List!ListInv
  BY List!ListInit DEF Init
<1> QED
  BY <1>1, <1>2, <1>3, <1>4, <1>5 DEF ApiInv

\* And stays in it.
LEMMA ApiNext == ApiInv /\ [Next]_vars => ApiInv'
<1> SUFFICES ASSUME ApiInv, [Next]_vars PROVE ApiInv'
  OBVIOUS
<1> USE ApiAssumption, EachMoves DEF ApiAssumption, ApiInv
<1>1. InChain => Chain!HttpInv'
  BY Chain!HttpNext
<1>2. ~InChain => Operations!HttpInv'
  BY Operations!HttpNext
<1>3. Keyed!KeyedTypes'
  BY Keyed!TypesNext
<1>4. Feed!FeedInv'
  BY Feed!FeedNext
<1>5. LibraryInv'
  BY LibraryNext
<1>6. List!ListInv'
  BY List!ListNext
<1> QED
  BY <1>1, <1>2, <1>3, <1>4, <1>5, <1>6

\* The inductive invariant of the API process.
LEMMA ApiInvariance == Spec => []ApiInv
  BY ApiInit, ApiNext, PTL DEF Spec

-----------------------------------------------------------------------------
(***************************************************************************)
(* What the run checks                                                     *)
(***************************************************************************)

\* Every component's state is well formed: requests, cached entries, updates,
\* templates and pages, a page no longer than its limit included.
THEOREM ApiTypes == Spec => []TypeOK
<1>1. ApiInv => TypeOK
  BY ApiAssumption, Chain!HttpInvImplies, Operations!HttpInvImplies, Feed!FeedInvImplies,
     List!ListInvImplies
     DEF ApiAssumption, ApiInv, TypeOK, Keyed!KeyedTypes, LibraryInv
<1> QED
  BY <1>1, ApiInvariance, PTL

\* The status the client was sent is the one the metrics count and the one the
\* idempotency store keeps, through three wrapped writers and a recovered panic.
THEOREM OneStatus == Spec => []SameStatus
<1>1. ApiInv => SameStatus
  BY Chain!HttpInvImplies, Operations!HttpInvImplies DEF ApiInv, SameStatus
<1> QED
  BY <1>1, ApiInvariance, PTL

\* A correlation id the client sent is on its row and on its response, and the
\* middleware and the use case never replace it.
THEOREM IdKept == Spec => []ClientIdIsKept
<1>1. ApiInv => ClientIdIsKept
  BY Chain!HttpInvImplies, Operations!HttpInvImplies DEF ApiInv, ClientIdIsKept
<1> QED
  BY <1>1, ApiInvariance, PTL

\* A request refused with a client error has written no row.
THEOREM RefusalsAreClean == Spec => []RefusedWroteNothing
<1>1. ApiInv => RefusedWroteNothing
  BY Chain!HttpInvImplies, Operations!HttpInvImplies DEF ApiInv, RefusedWroteNothing
<1> QED
  BY <1>1, ApiInvariance, PTL

\* The hub's two maps are each other's inverse and hold no connection that is
\* gone, however Subscribe, UnsubscribeAll and failed sends interleave.
THEOREM HubAgrees == Spec => []IndexesAgree
<1>1. ApiInv => IndexesAgree
  BY Feed!FeedInvImplies DEF ApiInv, IndexesAgree
<1> QED
  BY <1>1, ApiInvariance, PTL

\* A client receives the updates in the order of publication, none twice.
THEOREM FeedOrdered == Spec => []InOrder
<1>1. ApiInv => InOrder
  BY Feed!FeedInvImplies DEF ApiInv, InOrder
<1> QED
  BY <1>1, ApiInvariance, PTL

\* After it has unsubscribed a client receives at most the one update that was
\* being broadcast.
THEOREM OneLateUpdate == Spec => []AtMostOneLate
<1>1. ApiInv => AtMostOneLate
  BY Feed!FeedInvImplies DEF ApiInv, AtMostOneLate
<1> QED
  BY <1>1, ApiInvariance, PTL

\* Every stored template renders when its variables are supplied, however creates
\* and the two statements of replacements fall: Render's parse error is unreachable.
THEOREM TemplatesRender == Spec => []StoredBodiesRender
<1>1. ApiInv => StoredBodiesRender
  BY DEF ApiInv, LibraryInv, BodiesParse, StoredBodiesRender, Library!StoredBodiesRender,
         Library!Renders
<1> QED
  BY <1>1, ApiInvariance, PTL

\* A template that was deleted stays deleted: the UPDATE of a PUT that read it
\* before matches no row.
THEOREM NoResurrection == Spec => DeletedStaysDeleted
<1>1. [Next]_vars => [\A id \in allocated \ Library!Live : id \notin DOMAIN templates']_libraryVars
  BY EachMoves, NoneComesBack
<1> QED
  BY <1>1, PTL DEF Spec, DeletedStaysDeleted, Library!DeletedStaysDeleted,
                   Library!vars, libraryVars

\* Each page of a walk lies below the pages before it, and a walk that has ended
\* has listed every row that matched its filter all the while, whatever was
\* inserted or changed between two pages.
THEOREM PagesComplete == Spec => []ListedOnce
<1>1. ApiInv => ListedOnce
  BY ApiAssumption, List!ListInvImplies DEF ApiInv, ApiAssumption, ListedOnce
<1> QED
  BY <1>1, ApiInvariance, PTL

\* Where every endpoint stores the key with its row, as the creation of a
\* notification does, the middleware, Redis and the unique index implement the
\* promise of one effect per key.
THEOREM OneEffectPerKey ==
    ASSUME Guarded = Endpoints
    PROVE  Spec => ImplementsOncePerKey
<1> DEFINE I == Keyed!KeyedInv
           O == Keyed!OwnerIsRow
<1>0. Keyed!AllGuarded
  BY ApiAssumption DEF ApiAssumption, Keyed!AllGuarded
<1>1. Init => I /\ Keyed!Abstract!Init
  BY <1>0, Keyed!KeyedInit, Keyed!KeyedStart DEF Init
<1>2. I /\ [Next]_vars => I'
  BY <1>0, EachMoves, Keyed!KeyedNext
<1>3. I => O
  BY Keyed!OwnerFacts
<1>4. I /\ O /\ O' /\ [Next]_vars => [Keyed!Abstract!Next]_(Keyed!Abstract!vars)
  BY <1>0, EachMoves, Keyed!KeyedStep
<1> QED
  BY <1>1, <1>2, <1>3, <1>4, PTL
     DEF Spec, ImplementsOncePerKey, Keyed!ImplementsOncePerKey, Keyed!Abstract!Spec
=============================================================================
