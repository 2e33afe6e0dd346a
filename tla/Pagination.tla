----------------------------- MODULE Pagination -----------------------------
(***************************************************************************)
(* GET /api/v1/notifications: a client walks the list page by page, each   *)
(* page one query below the cursor of the page before it, while rows are   *)
(* inserted and change status.  A row's created_at is read from the        *)
(* clock before its INSERT commits, so a row can appear anywhere in the    *)
(* order; identifiers break ties.  The filter is the same on every page: a *)
(* row matches it or not, and a status filter makes that change.           *)
(***************************************************************************)
EXTENDS Naturals, FiniteSets

CONSTANTS
    Ids,               \* notification identifiers; naturals, for their order
    MaxTime,           \* bound on created_at
    DefaultListLimit, MaxListLimit

PaginationAssumption ==
    /\ Ids \subseteq Nat
    /\ MaxTime \in Nat
    /\ {DefaultListLimit, MaxListLimit} \subseteq Nat \ {0}
    /\ DefaultListLimit <= MaxListLimit

VARIABLES
    table,    \* notifications: id to created_at and whether the filter matches
    walk,     \* the client: its limit, the cursor, the last page, those before
    steady    \* the rows that have matched the filter since the walk began

vars == <<table, walk, steady>>

Rows == DOMAIN table
Matching == {id \in Rows : table[id].matches}

(* The keyset of a row, and the composite order (created_at, id). *)
Key(id) == <<table[id].created, id>>
Less(k, l) == k[1] < l[1] \/ (k[1] = l[1] /\ k[2] < l[2])

NoCursor == <<>>

\* Mutant: no upper bound.
ClampedFromBelow(limit) == IF limit <= 0 THEN DefaultListLimit ELSE limit

(* ListNotifications.Execute snaps an out-of-range limit to the default. *)
Clamped(limit) == IF limit <= 0 \/ limit > MaxListLimit THEN DefaultListLimit ELSE limit

\* Mutant: the cursor compares created_at alone.
BelowInTime(k, cursor) == cursor = NoCursor \/ k[1] < cursor[1]

(* The predicate on the cursor. *)
Below(k, cursor) == cursor = NoCursor \/ Less(k, cursor)

(* ORDER BY created_at DESC, id DESC LIMIT n over a set of rows. *)
Top(ids, n) == {id \in ids : Cardinality({o \in ids : Less(Key(id), Key(o))}) < n}

(* The query, and the limit + 1 rows it is asked for. *)
ListQuery(cursor, limit) ==
    Top({id \in Matching : Below(Key(id), cursor)}, limit + 1)

(* paginate: the limit-th row's keyset is the next cursor when there is a  *)
(* row behind it, and an empty cursor means the end.                       *)
NextCursor(items, limit) ==
    IF Cardinality(items) <= limit THEN NoCursor
    ELSE CHOOSE k \in {Key(id) : id \in Top(items, limit)} :
            \A id \in Top(items, limit) : ~Less(Key(id), k)

(* One answered page. *)
Answer(cursor, limit, before) ==
    LET items == ListQuery(cursor, limit)
        next == NextCursor(items, limit)
    IN  walk' = [stage |-> IF next = NoCursor THEN "ended" ELSE "walking",
                 limit |-> limit, cursor |-> next,
                 page |-> Top(items, limit), before |-> before]

FirstPage(asked) ==
    /\ walk.stage = "idle"
    /\ Answer(NoCursor, Clamped(asked), {})
    /\ steady' = Matching
    /\ UNCHANGED table

NextPage ==
    /\ walk.stage = "walking"
    /\ Answer(walk.cursor, walk.limit, walk.before \cup walk.page)
    /\ UNCHANGED <<table, steady>>

(* A cursor decodeCursor or parseUUID cannot read is an unmapped error:    *)
(* the client is answered 500.                                             *)
UnreadableCursor ==
    /\ walk.stage \in {"idle", "walking"}
    /\ walk' = [walk EXCEPT !.stage = "refused"]
    /\ UNCHANGED <<table, steady>>

(* A create, or a batch of which this row is a member, commits. *)
Insert(id, created, matches) ==
    /\ id \notin Rows
    /\ table' = [other \in Rows \cup {id} |->
                    IF other = id THEN [created |-> created, matches |-> matches]
                                  ELSE table[other]]
    /\ UNCHANGED <<walk, steady>>

(* A row takes a status on the other side of the filter. *)
ChangeStatus(id) ==
    /\ id \in Rows
    /\ table' = [table EXCEPT ![id].matches = ~@]
    /\ steady' = steady \ {id}
    /\ UNCHANGED walk

Init ==
    /\ table = <<>>
    /\ walk = [stage |-> "idle", limit |-> 0, cursor |-> NoCursor, page |-> {}, before |-> {}]
    /\ steady = {}

Next ==
    \/ \E asked \in 0 .. MaxListLimit + 1 : FirstPage(asked)
    \/ NextPage
    \/ UnreadableCursor
    \/ \E id \in Ids, created \in 0 .. MaxTime, matches \in BOOLEAN :
        Insert(id, created, matches)
    \/ \E id \in Ids : ChangeStatus(id)

Spec == Init /\ [][Next]_vars

-----------------------------------------------------------------------------
(* Rows, keys and pages are well formed; a page is no longer than its      *)
(* limit, which is never above the ceiling.                                *)
TypeOK ==
    /\ Rows \subseteq Ids
    /\ \A id \in Rows : table[id] \in [created : 0 .. MaxTime, matches : BOOLEAN]
    /\ walk.stage \in {"idle", "walking", "ended", "refused"}
    /\ walk.page \subseteq Rows /\ walk.before \subseteq Rows /\ steady \subseteq Rows
    /\ walk.limit <= MaxListLimit
    /\ Cardinality(walk.page) <= walk.limit

(* "Survives concurrent writes": whatever is inserted between two pages,   *)
(* each page lies wholly below those before it, so that no notification is *)
(* listed twice, and a walk that has ended has listed every row that       *)
(* matched its filter all the while (the keyset of List and paginate).     *)
ListedOnce ==
    /\ \A earlier \in walk.before, id \in walk.page : Less(Key(id), Key(earlier))
    /\ walk.stage = "ended" => steady \subseteq walk.page \cup walk.before
=============================================================================
