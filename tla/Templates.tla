----------------------------- MODULE Templates -----------------------------
(***************************************************************************)
(* The template resource: the five verbs of /api/v1/templates, and the     *)
(* creation of a notification from a template.  Postgres executes one      *)
(* statement at a time; a request that makes two of them (PUT reads then   *)
(* updates, a templated create reads then inserts) lets every other        *)
(* request in between.  Identifiers are allocated by the server and never  *)
(* reused.  A body is a name: Malformed are the ones text/template does not *)
(* parse, Parametric the ones that refer to a variable.                    *)
(***************************************************************************)
CONSTANTS
    Requests,    \* the requests clients send, each of them once
    Ids,         \* template identifiers the server can allocate
    Names,       \* values of the unique column name
    Bodies,      \* template bodies
    Malformed,   \* the bodies that do not parse
    Parametric   \* the bodies that refer to a variable

BodyAssumption == Malformed \subseteq Bodies /\ Parametric \subseteq Bodies

VARIABLES
    templates,   \* the table: a row for every identifier in its domain
    allocated,   \* the identifiers that have been given to a template
    notes,       \* template_id of notifications, by the request that created them
    requests     \* where each request stands and what it has read

vars == <<templates, allocated, notes, requests>>

Null == "null"

Rows == [name : Names, body : Bodies]

Live == DOMAIN templates

Idle == [stage |-> "idle"]

(* A table with row y under key x. *)
Put(f, x, y) == [z \in DOMAIN f \cup {x} |-> IF z = x THEN y ELSE f[z]]

(* The answer to a request. *)
Reply(r, status) ==
    requests' = [requests EXCEPT ![r] = [stage |-> "done", status |-> status]]

(* NewTemplate parses the body, so that only a body that parses is stored. *)
NewTemplate(body) == body \notin Malformed

(* The unique index over name. *)
NameTaken(name, id) == \E other \in Live \ {id} : templates[other].name = name

(* CreateTemplate: validation, then one INSERT under a fresh identifier.   *)
CreateTemplate(r, id, name, body) ==
    /\ requests[r] = Idle
    /\ id \notin allocated
    /\ LET row == [name |-> name, body |-> body]
       IN  IF ~NewTemplate(body)
           THEN Reply(r, 400) /\ UNCHANGED <<templates, allocated>>
           ELSE IF NameTaken(name, id)
           THEN Reply(r, 500) /\ UNCHANGED <<templates, allocated>>
           ELSE /\ templates' = Put(templates, id, row)
                /\ allocated' = allocated \cup {id}
                /\ Reply(r, 201)
    /\ UNCHANGED notes

(* GetTemplate: one SELECT. *)
GetTemplate(r, id) ==
    /\ requests[r] = Idle
    /\ IF id \in Live THEN Reply(r, 200) ELSE Reply(r, 404)
    /\ UNCHANGED <<templates, allocated, notes>>

(* ListTemplates: one SELECT of a page. *)
ListTemplates(r) ==
    /\ requests[r] = Idle
    /\ Reply(r, 200)
    /\ UNCHANGED <<templates, allocated, notes>>

\* Mutant: the row that was read is given its new columns, unvalidated.
ReplaceUnchecked(r, id, name, body) ==
    /\ requests[r] = Idle
    /\ IF id \notin Live
       THEN Reply(r, 404)
       ELSE requests' = [requests EXCEPT ![r] =
                [stage |-> "replacing", id |-> id, row |-> [name |-> name, body |-> body]]]
    /\ UNCHANGED <<templates, allocated, notes>>

(* ReplaceTemplate, first statement: read the row, then validate the new   *)
(* one.                                                                    *)
ReplaceGet(r, id, name, body) ==
    /\ requests[r] = Idle
    /\ IF id \notin Live
       THEN Reply(r, 404)
       ELSE IF ~NewTemplate(body)
       THEN Reply(r, 400)
       ELSE requests' = [requests EXCEPT ![r] =
                [stage |-> "replacing", id |-> id, row |-> [name |-> name, body |-> body]]]
    /\ UNCHANGED <<templates, allocated, notes>>

\* Mutant: the UPDATE is an upsert.
ReplaceUpserts(r) ==
    /\ requests[r].stage = "replacing"
    /\ LET id == requests[r].id
           row == requests[r].row
       IN  IF NameTaken(row.name, id)
           THEN Reply(r, 500) /\ UNCHANGED templates
           ELSE /\ templates' = Put(templates, id, row)
                /\ Reply(r, 200)
    /\ UNCHANGED <<allocated, notes>>

(* ReplaceTemplate, second statement.  UPDATE is an :exec query: that it   *)
(* matched no row is not an error, and the handler answers 200 either way. *)
ReplaceUpdate(r) ==
    /\ requests[r].stage = "replacing"
    /\ LET id == requests[r].id
           row == requests[r].row
       IN  IF id \in Live /\ NameTaken(row.name, id)
           THEN Reply(r, 500) /\ UNCHANGED templates
           ELSE /\ templates' = IF id \in Live
                                THEN [templates EXCEPT ![id] = row]
                                ELSE templates
                /\ Reply(r, 200)
    /\ UNCHANGED <<allocated, notes>>

(* notifications.template_id REFERENCES templates(id) ON DELETE SET NULL.  *)
SetNull(id) ==
    [r \in DOMAIN notes |-> IF notes[r] = id THEN Null ELSE notes[r]]

(* DeleteTemplate: one DELETE, whose row count nobody reads. *)
DeleteTemplate(r, id) ==
    /\ requests[r] = Idle
    /\ templates' = [other \in Live \ {id} |-> templates[other]]
    /\ notes' = SetNull(id)
    /\ Reply(r, 204)
    /\ UNCHANGED allocated

(* Template.Render fails when the body does not parse or refers to a       *)
(* variable the client did not supply (missingkey=error).                  *)
Renders(body, supplied) == body \notin Malformed /\ (body \in Parametric => supplied)

(* CreateNotification with a template_id, up to the domain object: the     *)
(* content is rendered from the row as it is now.                          *)
RenderTemplate(r, id, supplied) ==
    /\ requests[r] = Idle
    /\ IF id \notin Live
       THEN Reply(r, 404)
       ELSE IF ~Renders(templates[id].body, supplied)
       THEN Reply(r, 400)
       ELSE requests' = [requests EXCEPT ![r] =
                [stage |-> "rendered", id |-> id]]
    /\ UNCHANGED <<templates, allocated, notes>>

(* CreateNotification, INSERT: the foreign key refuses a template that was *)
(* deleted since it was read.                                              *)
InsertNotification(r) ==
    /\ requests[r].stage = "rendered"
    /\ IF requests[r].id \in Live
       THEN /\ notes' = Put(notes, r, requests[r].id)
            /\ Reply(r, 202)
       ELSE Reply(r, 500) /\ UNCHANGED notes
    /\ UNCHANGED <<templates, allocated>>

(* A statement fails: the request is answered 500 and has no effect. *)
Fault(r) ==
    /\ requests[r].stage # "done"
    /\ Reply(r, 500)
    /\ UNCHANGED <<templates, allocated, notes>>

Init ==
    /\ templates = <<>>
    /\ allocated = {}
    /\ notes = <<>>
    /\ requests = [r \in Requests |-> Idle]

Next ==
    \/ \E r \in Requests :
        \/ \E id \in Ids, name \in Names, body \in Bodies :
            CreateTemplate(r, id, name, body) \/ ReplaceGet(r, id, name, body)
        \/ \E id \in Ids : GetTemplate(r, id) \/ DeleteTemplate(r, id)
        \/ \E id \in Ids, supplied \in BOOLEAN : RenderTemplate(r, id, supplied)
        \/ ListTemplates(r)
        \/ ReplaceUpdate(r) \/ InsertNotification(r) \/ Fault(r)

Spec == Init /\ [][Next]_vars

-----------------------------------------------------------------------------
(* Every row, notification and request is well formed. *)
TypeOK ==
    /\ Live \subseteq allocated /\ allocated \subseteq Ids
    /\ \A id \in Live : templates[id] \in Rows
    /\ \A r \in DOMAIN notes : notes[r] \in Ids \cup {Null}
    /\ \A r \in Requests : requests[r].stage \in {"idle", "replacing", "rendered", "done"}

(* The defensive branch of Template.Render is never taken: whatever        *)
(* creates and two-step replacements stored a body, it parses, so a client *)
(* that supplies the variables is not refused for somebody else's body.    *)
StoredBodiesRender == \A id \in Live : Renders(templates[id].body, TRUE)

(* A deleted template does not come back: a PUT that read its row before   *)
(* the delete does not recreate it.                                        *)
DeletedStaysDeleted ==
    [][\A id \in allocated \ Live : id \notin DOMAIN templates']_vars

=============================================================================
