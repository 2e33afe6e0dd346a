-------------------------- MODULE PaginationProofs --------------------------
(***************************************************************************)
(* A walk through the pages lists every steady row once, for any table,    *)
(* any limit and any writes between two pages.                             *)
(*                                                                         *)
(* The cursor is a line through the order of the rows: what has been       *)
(* listed lies on or above it, and every steady row that has not been      *)
(* listed lies below it.  That the rows of a page are a top segment of     *)
(* what is below the line, and that a page without a successor is all of   *)
(* it, are facts about finite sets, proved from the cardinalities of the   *)
(* sets of rows above a row.                                               *)
(***************************************************************************)
EXTENDS Pagination, FiniteSetTheorems, WellFoundedInduction, TLAPS

Walks == [stage : {"idle", "walking", "ended", "refused"}, limit : 0 .. MaxListLimit,
          cursor : {NoCursor} \cup (Nat \X Nat), page : SUBSET Ids, before : SUBSET Ids]

\* The table and the walk are well formed; the table is finite.
Typed ==
    /\ IsFiniteSet(Rows) /\ Rows \subseteq Ids
    /\ table = [id \in Rows |-> table[id]]
    /\ \A id \in Rows : table[id] \in [created : 0 .. MaxTime, matches : BOOLEAN]
    /\ walk \in Walks
    /\ walk.page \subseteq Rows /\ walk.before \subseteq Rows /\ steady \subseteq Matching
    /\ Cardinality(walk.page) <= walk.limit

Listed == walk.page \cup walk.before

\* Nothing is listed before the first page.
NothingYet == walk.stage = "idle" => Listed = {}

\* The cursor parts what has been listed from the steady rows that have not.
CursorParts ==
    walk.stage = "walking" =>
        /\ walk.limit > 0
        /\ walk.cursor \in Nat \X Nat
        /\ \A id \in Listed : ~Less(Key(id), walk.cursor)
        /\ \A id \in steady \ Listed : Less(Key(id), walk.cursor)

ListInv == Typed /\ NothingYet /\ CursorParts /\ ListedOnce

-----------------------------------------------------------------------------
(***************************************************************************)
(* The order of rows                                                       *)
(***************************************************************************)

\* (created_at, id) is compared as a strict total order.
LEMMA Strict ==
    ASSUME NEW j \in Nat \X Nat, NEW k \in Nat \X Nat, NEW l \in Nat \X Nat
    PROVE  /\ ~Less(k, k)
           /\ Less(j, k) /\ Less(k, l) => Less(j, l)
           /\ Less(j, k) /\ ~Less(l, k) => Less(j, l)
           /\ ~Less(j, k) /\ ~Less(k, j) => j = k
<1>1. PICK a, b \in Nat : j = <<a, b>>
  OBVIOUS
<1>2. PICK c, d \in Nat : k = <<c, d>>
  OBVIOUS
<1>3. PICK e, f \in Nat : l = <<e, f>>
  OBVIOUS
<1> QED
  BY <1>1, <1>2, <1>3 DEF Less

\* A row's keyset is a pair of numbers, and names the row.
LEMMA KeyFacts ==
    ASSUME PaginationAssumption, Typed
    PROVE  /\ \A id \in Rows : Key(id) \in Nat \X Nat /\ Key(id) # NoCursor
           /\ \A id, o \in Rows : Key(id) = Key(o) => id = o
<1>1. \A id \in Rows : id \in Nat /\ table[id].created \in Nat
  BY DEF PaginationAssumption, Typed
<1> QED
  BY <1>1 DEF Key, NoCursor

\* A nonempty set of numbers has a least one.
LEMMA NatMin ==
    ASSUME NEW N \in SUBSET Nat, N # {}
    PROVE  \E m \in N : \A n \in N : m <= n
<1> DEFINE R == OpToRel(<, Nat)
<1>1. IsWellFoundedOn(R, Nat)
  BY NatLessThanWellFounded, Zenon
<1>2. PICK m \in N : \A n \in N : <<n, m>> \notin R
  <2> HIDE DEF R
  <2> QED BY <1>1, WFMin
<1>3. \A n \in N : ~(n < m)
  BY <1>2 DEF OpToRel
<1> QED
  BY <1>3

\* The rows of S above a row.
Above(S, id) == {o \in S : Less(Key(id), Key(o))}

\* A set of rows is finite, and so is what lies above a row of it.
LEMMA AboveFinite ==
    ASSUME Typed, NEW S \in SUBSET Rows
    PROVE  /\ IsFiniteSet(S) /\ Cardinality(S) \in Nat
           /\ \A id : /\ IsFiniteSet(Above(S, id)) /\ Cardinality(Above(S, id)) \in Nat
                      /\ Above(S, id) \in SUBSET S
<1>1. IsFiniteSet(S) /\ Cardinality(S) \in Nat
  BY FS_Subset, FS_CardinalityType DEF Typed
<1>2. ASSUME NEW id
      PROVE  /\ IsFiniteSet(Above(S, id)) /\ Cardinality(Above(S, id)) \in Nat
             /\ Above(S, id) \in SUBSET S
  <2>1. Above(S, id) \in SUBSET S
    BY DEF Above
  <2> QED BY <1>1, <2>1, FS_Subset, FS_CardinalityType
<1> QED
  BY <1>1, <1>2

\* A smaller set of rows has no more members.
LEMMA FewerRows ==
    ASSUME Typed, NEW S \in SUBSET Rows, NEW T \in SUBSET S
    PROVE  /\ Cardinality(T) \in Nat /\ Cardinality(S) \in Nat
           /\ Cardinality(T) <= Cardinality(S)
           /\ T # S => Cardinality(T) < Cardinality(S)
<1>1. IsFiniteSet(S) /\ IsFiniteSet(T) /\ Cardinality(T) \in Nat /\ Cardinality(S) \in Nat
  BY AboveFinite
<1>2. Cardinality(T) <= Cardinality(S) /\ (Cardinality(S) = Cardinality(T) => S = T)
  BY <1>1, FS_Subset
<1> QED
  BY <1>1, <1>2

\* Less is above a higher row.
LEMMA AboveShrinks ==
    ASSUME PaginationAssumption, Typed, NEW S \in SUBSET Rows,
           NEW x \in Rows, NEW y \in Rows
    PROVE  /\ ~Less(Key(y), Key(x)) => Above(S, y) \subseteq Above(S, x)
           /\ y \in S /\ Less(Key(x), Key(y))
                => Cardinality(Above(S, y)) < Cardinality(Above(S, x))
<1>1. \A o \in S : Key(o) \in Nat \X Nat
  BY KeyFacts
<1>2. Key(x) \in Nat \X Nat /\ Key(y) \in Nat \X Nat
  BY KeyFacts
<1>3. ~Less(Key(y), Key(x)) => Above(S, y) \subseteq Above(S, x)
  <2> SUFFICES ASSUME ~Less(Key(y), Key(x)), NEW o \in Above(S, y)
               PROVE  o \in Above(S, x)
    OBVIOUS
  <2>1. o \in S /\ Less(Key(y), Key(o))
    BY DEF Above
  <2>2. CASE Key(x) = Key(y)
    BY <2>1, <2>2 DEF Above
  <2>3. CASE Less(Key(x), Key(y))
    BY <1>1, <1>2, <2>1, <2>3, Strict DEF Above
  <2> QED BY <1>2, <2>2, <2>3, Strict
<1>4. ASSUME y \in S, Less(Key(x), Key(y))
      PROVE  Cardinality(Above(S, y)) < Cardinality(Above(S, x))
  <2>1. Above(S, y) \subseteq Above(S, x)
    BY <1>2, <1>3, <1>4, Strict
  <2>2. y \in Above(S, x) /\ y \notin Above(S, y)
    BY <1>2, <1>4, Strict DEF Above
  <2>3. Above(S, x) \in SUBSET Rows
    BY DEF Above
  <2> QED BY <2>1, <2>2, <2>3, FewerRows
<1> QED
  BY <1>3, <1>4

\* A nonempty set of rows has a highest member.
LEMMA Highest ==
    ASSUME PaginationAssumption, Typed, NEW S \in SUBSET Rows, S # {}
    PROVE  \E x \in S : \A y \in S : ~Less(Key(x), Key(y))
<1> DEFINE N == {Cardinality(Above(S, x)) : x \in S}
<1>1. N \in SUBSET Nat /\ N # {}
  BY AboveFinite
<1>2. PICK m \in N : \A n \in N : m <= n
  <2> HIDE DEF N
  <2> QED BY <1>1, NatMin
<1>3. PICK x \in S : m = Cardinality(Above(S, x))
  OBVIOUS
<1>4. ASSUME NEW y \in S, Less(Key(x), Key(y)) PROVE FALSE
  <2>1. Cardinality(Above(S, y)) < Cardinality(Above(S, x))
    BY <1>4, AboveShrinks
  <2>2. m <= Cardinality(Above(S, y))
    BY <1>2
  <2> QED BY <1>3, <2>1, <2>2, AboveFinite
<1> QED
  BY <1>4

\* And a lowest one.
LEMMA Lowest ==
    ASSUME PaginationAssumption, Typed, NEW S \in SUBSET Rows, S # {}
    PROVE  \E x \in S : \A y \in S : ~Less(Key(y), Key(x))
<1> DEFINE N == {Cardinality(S) - Cardinality(Above(S, x)) : x \in S}
<1>1. \A x \in S : Cardinality(Above(S, x)) \in Nat /\ Cardinality(S) \in Nat
                   /\ Cardinality(Above(S, x)) <= Cardinality(S)
  BY AboveFinite, FewerRows
<1>2. N \in SUBSET Nat /\ N # {}
  BY <1>1
<1>3. PICK m \in N : \A n \in N : m <= n
  <2> HIDE DEF N
  <2> QED BY <1>2, NatMin
<1>4. PICK x \in S : m = Cardinality(S) - Cardinality(Above(S, x))
  OBVIOUS
<1>5. ASSUME NEW y \in S, Less(Key(y), Key(x)) PROVE FALSE
  <2>1. Cardinality(Above(S, x)) < Cardinality(Above(S, y))
    BY <1>5, AboveShrinks
  <2>2. m <= Cardinality(S) - Cardinality(Above(S, y))
    BY <1>3
  <2> QED BY <1>1, <1>4, <2>1, <2>2
<1> QED
  BY <1>5

-----------------------------------------------------------------------------
(***************************************************************************)
(* ORDER BY ... LIMIT n                                                    *)
(***************************************************************************)

\* The rows of a page: with a row, every row above it.
LEMMA TopFacts ==
    ASSUME PaginationAssumption, Typed, NEW S \in SUBSET Rows, NEW n \in Nat
    PROVE  /\ Top(S, n) \in SUBSET S
           /\ \A id \in S : id \in Top(S, n) <=> Cardinality(Above(S, id)) < n
           /\ \A x \in Top(S, n), y \in S : ~Less(Key(y), Key(x)) => y \in Top(S, n)
<1>1. Top(S, n) \in SUBSET S
  BY DEF Top
<1>2. \A id \in S : id \in Top(S, n) <=> Cardinality(Above(S, id)) < n
  BY DEF Top, Above
<1>3. ASSUME NEW x \in Top(S, n), NEW y \in S, ~Less(Key(y), Key(x))
      PROVE  y \in Top(S, n)
  <2>1. Above(S, y) \subseteq Above(S, x)
    BY <1>1, <1>3, AboveShrinks
  <2>2. Above(S, x) \in SUBSET Rows
    BY DEF Above
  <2>3. /\ Cardinality(Above(S, y)) <= Cardinality(Above(S, x))
        /\ Cardinality(Above(S, y)) \in Nat /\ Cardinality(Above(S, x)) \in Nat
    BY <2>1, <2>2, FewerRows
  <2> QED BY <1>1, <1>2, <1>3, <2>3
<1> QED
  BY <1>1, <1>2, <1>3

\* LIMIT n returns at most n rows.
LEMMA TopBounded ==
    ASSUME PaginationAssumption, Typed, NEW S \in SUBSET Rows, NEW n \in Nat
    PROVE  Cardinality(Top(S, n)) <= n
<1> DEFINE T == Top(S, n)
<1>0. T \in SUBSET Rows /\ T \in SUBSET S
  BY TopFacts
<1>1. CASE T = {}
  BY <1>1, FS_EmptySet
<1>2. CASE T # {}
  <2>1. PICK x \in T : \A y \in T : ~Less(Key(y), Key(x))
    <3> HIDE DEF T
    <3> QED BY <1>0, <1>2, Lowest
  <2>2. T \subseteq Above(S, x) \cup {x}
    <3> SUFFICES ASSUME NEW y \in T, y # x PROVE Less(Key(x), Key(y))
      BY <1>0 DEF Above
    <3>1. y \in Rows /\ x \in Rows
      BY <1>0
    <3>2. Key(x) # Key(y) /\ Key(x) \in Nat \X Nat /\ Key(y) \in Nat \X Nat
      BY <3>1, KeyFacts
    <3> QED BY <2>1, <3>2, Strict
  <2>3. Cardinality(Above(S, x)) < n /\ Cardinality(Above(S, x)) \in Nat
        /\ IsFiniteSet(Above(S, x))
    BY <1>0, <2>1, TopFacts, AboveFinite
  <2>4. Cardinality(Above(S, x) \cup {x}) <= Cardinality(Above(S, x)) + 1
    <3> DEFINE A == Above(S, x)
    <3>1. Cardinality(A \cup {x}) = IF x \in A THEN Cardinality(A) ELSE Cardinality(A) + 1
      <4> HIDE DEF A
      <4> QED BY <2>3, FS_AddElement DEF A
    <3> QED BY <2>3, <3>1
  <2>5. Above(S, x) \cup {x} \in SUBSET Rows
    BY <1>0 DEF Above
  <2>6. Cardinality(T) <= Cardinality(Above(S, x) \cup {x})
        /\ Cardinality(T) \in Nat /\ Cardinality(Above(S, x) \cup {x}) \in Nat
    <3> HIDE DEF T
    <3> QED BY <2>2, <2>5, FewerRows
  <2> QED BY <2>3, <2>4, <2>6
<1> QED
  BY <1>1, <1>2

\* The first n of the first n + 1 rows are the first n.
LEMMA TopOfTop ==
    ASSUME PaginationAssumption, Typed, NEW S \in SUBSET Rows, NEW n \in Nat
    PROVE  Top(Top(S, n + 1), n) = Top(S, n)
<1> DEFINE T == Top(S, n + 1)
<1>0. n + 1 \in Nat /\ T \in SUBSET S /\ T \in SUBSET Rows
  BY TopFacts
<1>1. ASSUME NEW id \in T PROVE Above(T, id) = Above(S, id)
  <2>1. ASSUME NEW o \in Above(S, id) PROVE o \in T
    <3>1. o \in S /\ Less(Key(id), Key(o)) /\ id \in Rows
      BY <1>0, <2>1 DEF Above
    <3>2. ~Less(Key(o), Key(id))
      BY <3>1, KeyFacts, Strict
    <3> QED BY <1>0, <1>1, <3>1, <3>2, TopFacts
  <2> QED BY <1>0, <2>1 DEF Above
<1>2. \A id \in S : Cardinality(Above(S, id)) \in Nat
  BY AboveFinite
<1>3. \A id \in S : id \in Top(S, n) => id \in T
  BY <1>0, <1>2, TopFacts
<1>4. \A id \in T : id \in Top(T, n) <=> Cardinality(Above(T, id)) < n
  <2> HIDE DEF T
  <2> QED BY <1>0, TopFacts
<1>5. \A id \in T : id \in Top(T, n) <=> id \in Top(S, n)
  BY <1>0, <1>1, <1>4, TopFacts
<1>6. Top(T, n) \in SUBSET T /\ Top(S, n) \in SUBSET S
  BY <1>0, TopFacts
<1> QED
  BY <1>0, <1>3, <1>5, <1>6

\* A query for n + 1 rows that returns at most n has returned all of them.
LEMMA NothingBehind ==
    ASSUME PaginationAssumption, Typed, NEW S \in SUBSET Rows, NEW n \in Nat,
           Cardinality(Top(S, n + 1)) <= n
    PROVE  Top(S, n) = S
<1> DEFINE T == Top(S, n + 1)
           Rest == S \ T
<1>0. n + 1 \in Nat /\ T \in SUBSET S /\ T \in SUBSET Rows /\ Rest \in SUBSET Rows
  BY TopFacts
<1>1. ASSUME Rest # {} PROVE FALSE
  <2>1. PICK x \in Rest : \A y \in Rest : ~Less(Key(x), Key(y))
    <3> HIDE DEF Rest
    <3> QED BY <1>0, <1>1, Highest
  <2>2. Above(S, x) \in SUBSET T
    BY <2>1 DEF Above
  <2>3. Cardinality(Above(S, x)) <= Cardinality(T)
        /\ Cardinality(Above(S, x)) \in Nat /\ Cardinality(T) \in Nat
    <3> HIDE DEF T
    <3> QED BY <1>0, <2>2, FewerRows
  <2> QED BY <1>0, <2>1, <2>3, TopFacts
<1>2. T = S
  BY <1>0, <1>1
<1>3. ASSUME NEW id \in S PROVE id \in Top(S, n)
  <2>1. id \notin Above(S, id) /\ Above(S, id) \in SUBSET S
    BY KeyFacts, Strict DEF Above
  <2>2. Cardinality(Above(S, id)) < Cardinality(S) /\ Cardinality(S) \in Nat
        /\ Cardinality(Above(S, id)) \in Nat
    BY <2>1, FewerRows
  <2> QED BY <1>2, <2>2, TopFacts
<1> QED
  BY <1>3, TopFacts

\* A page of a nonempty result is not empty.
LEMMA TopNonempty ==
    ASSUME PaginationAssumption, Typed, NEW S \in SUBSET Rows, S # {}, NEW n \in Nat \ {0}
    PROVE  Top(S, n) # {}
<1>1. PICK x \in S : \A y \in S : ~Less(Key(x), Key(y))
  BY Highest
<1>2. Above(S, x) = {}
  BY <1>1 DEF Above
<1> QED
  BY <1>1, <1>2, TopFacts, FS_EmptySet

-----------------------------------------------------------------------------
(***************************************************************************)
(* The walk                                                                *)
(***************************************************************************)

\* The rows a query below the cursor ranges over.
Candidates(cursor) == {id \in Matching : Below(Key(id), cursor)}

\* One answer of paginate: the page is the top of the candidates; either it is
\* all of them, or the new cursor is its lowest row and the rest lies below.
LEMMA PageFacts ==
    ASSUME PaginationAssumption, Typed, NEW cursor, NEW limit \in 1 .. MaxListLimit,
           NEW before, Answer(cursor, limit, before)
    PROVE  /\ walk' = [stage |-> walk'.stage, limit |-> limit, cursor |-> walk'.cursor,
                       page |-> walk'.page, before |-> before]
           /\ walk'.page \in SUBSET Candidates(cursor)
           /\ Cardinality(walk'.page) <= limit
           /\ \/ /\ walk'.stage = "ended" /\ walk'.cursor = NoCursor
                 /\ walk'.page = Candidates(cursor)
              \/ /\ walk'.stage = "walking" /\ walk'.cursor \in Nat \X Nat
                 /\ \E x \in walk'.page : walk'.cursor = Key(x)
                 /\ \A id \in walk'.page : ~Less(Key(id), walk'.cursor)
                 /\ \A id \in Candidates(cursor) \ walk'.page : Less(Key(id), walk'.cursor)
<1> DEFINE S == Candidates(cursor)
           items == Top(S, limit + 1)
           page == Top(items, limit)
           next == NextCursor(items, limit)
<1>0. limit \in Nat \ {0} /\ limit + 1 \in Nat
  BY DEF PaginationAssumption
<1>1. S \in SUBSET Rows
  BY DEF Candidates, Matching
<1>2. items \in SUBSET S /\ items \in SUBSET Rows
  <2> HIDE DEF S
  <2> QED BY <1>0, <1>1, TopFacts
<1>3. page = Top(S, limit) /\ page \in SUBSET S /\ Cardinality(page) <= limit
  <2> HIDE DEF S
  <2>1. page = Top(S, limit)
    BY <1>0, <1>1, TopOfTop
  <2> QED BY <1>0, <1>1, <2>1, TopFacts, TopBounded
<1>4. walk' = [stage |-> IF next = NoCursor THEN "ended" ELSE "walking", limit |-> limit,
               cursor |-> next, page |-> page, before |-> before]
  BY DEF Answer, ListQuery, Candidates
<1>5. CASE Cardinality(items) <= limit
  <2>1. next = NoCursor
    BY <1>5 DEF NextCursor
  <2>2. page = S
    <3> HIDE DEF S
    <3> QED BY <1>0, <1>1, <1>3, <1>5, NothingBehind
  <2> HIDE DEF page, next, S
  <2> QED BY <1>3, <1>4, <2>1, <2>2 DEF S
<1>6. CASE ~(Cardinality(items) <= limit)
  <2>1. page # {}
    <3>1. items # {}
      BY <1>0, <1>6, FS_EmptySet
    <3> HIDE DEF items
    <3> QED BY <1>0, <1>2, <3>1, TopNonempty
  <2>2. page \in SUBSET Rows
    BY <1>1, <1>3
  <2>3. PICK x \in page : \A y \in page : ~Less(Key(y), Key(x))
    <3> HIDE DEF page
    <3> QED BY <2>1, <2>2, Lowest
  <2>4. /\ next \in {Key(id) : id \in page}
        /\ \A id \in page : ~Less(Key(id), next)
    <3>1. next = CHOOSE k \in {Key(id) : id \in page} : \A id \in page : ~Less(Key(id), k)
      BY <1>6 DEF NextCursor
    <3>2. \E k \in {Key(id) : id \in page} : \A id \in page : ~Less(Key(id), k)
      BY <2>3
    <3> HIDE DEF page, next
    <3> QED BY <3>1, <3>2
  <2>5. PICK y \in page : next = Key(y)
    BY <2>4
  <2>6. next \in Nat \X Nat /\ next # NoCursor
    BY <2>2, <2>5, KeyFacts
  <2>7. ASSUME NEW id \in S \ page PROVE Less(Key(id), next)
    <3>1. y \in Top(S, limit) /\ id \notin Top(S, limit)
      BY <1>3
    <3> HIDE DEF S, page, next
    <3> QED BY <1>0, <1>1, <2>5, <2>7, <3>1, TopFacts
  <2> HIDE DEF page, next, S
  <2> QED BY <1>3, <1>4, <2>4, <2>5, <2>6, <2>7 DEF S
<1> QED
  BY <1>5, <1>6

\* The table and the rows that have matched all the while stay well formed.
LEMMA PageTyped ==
    ASSUME PaginationAssumption, ListInv, NEW cursor, NEW limit \in 1 .. MaxListLimit,
           NEW before \in SUBSET Rows, Answer(cursor, limit, before),
           table' = table, steady' \subseteq Matching
    PROVE  Typed'
<1>1. /\ walk'.page \in SUBSET Rows /\ walk'.stage \in {"walking", "ended"}
      /\ walk'.cursor \in {NoCursor} \cup (Nat \X Nat)
      /\ Cardinality(walk'.page) <= limit
      /\ walk' = [stage |-> walk'.stage, limit |-> limit, cursor |-> walk'.cursor,
                  page |-> walk'.page, before |-> before]
  BY PageFacts DEF ListInv, Candidates, Matching
<1>2. limit \in 0 .. MaxListLimit /\ walk'.page \in SUBSET Ids /\ before \in SUBSET Ids
  BY <1>1 DEF ListInv, Typed, PaginationAssumption
<1>3. walk' \in Walks
  BY <1>1, <1>2 DEF Walks
<1>4. /\ walk'.page \subseteq Rows' /\ walk'.before \subseteq Rows'
      /\ Rows' = Rows /\ Matching' = Matching /\ walk'.limit = limit
  BY <1>1 DEF Rows, Matching
<1> QED
  BY <1>1, <1>3, <1>4 DEF ListInv, Typed

\* The first page: above it there is nothing, and what matches is on it or
\* below.
LEMMA FirstPageInv ==
    ASSUME PaginationAssumption, ListInv, NEW asked \in 0 .. MaxListLimit + 1,
           FirstPage(asked)
    PROVE  ListInv'
<1> DEFINE limit == Clamped(asked)
<1>1. limit \in 1 .. MaxListLimit
  BY DEF Clamped, PaginationAssumption
<1>2. Answer(NoCursor, limit, {}) /\ table' = table /\ steady' = Matching
  BY DEF FirstPage
<1>3. Candidates(NoCursor) = Matching
  BY DEF Candidates, Below
<1> HIDE DEF limit
<1>4. Typed'
  BY <1>1, <1>2, PageTyped
<1>5. /\ walk'.limit = limit /\ walk'.before = {} /\ walk'.stage \in {"walking", "ended"}
      /\ walk'.stage = "ended" => walk'.page = Matching
      /\ walk'.stage = "walking" =>
            /\ walk'.cursor \in Nat \X Nat
            /\ \A id \in walk'.page : ~Less(Key(id), walk'.cursor)
            /\ \A id \in Matching \ walk'.page : Less(Key(id), walk'.cursor)
  BY <1>1, <1>2, <1>3, PageFacts DEF ListInv
<1>6. \A id : Key(id)' = Key(id)
  BY <1>2 DEF Key
<1>7. NothingYet' /\ ListedOnce'
  BY <1>2, <1>5 DEF NothingYet, ListedOnce
<1>8. CursorParts'
  BY <1>1, <1>2, <1>5, <1>6 DEF CursorParts, Listed, PaginationAssumption
<1> QED
  BY <1>4, <1>7, <1>8 DEF ListInv

\* The next page: it lies below the cursor, the pages before it do not.
LEMMA NextPageInv ==
    ASSUME PaginationAssumption, ListInv, NextPage
    PROVE  ListInv'
<1>1. /\ walk.stage = "walking" /\ walk.limit \in 1 .. MaxListLimit
      /\ Answer(walk.cursor, walk.limit, walk.before \cup walk.page)
      /\ table' = table /\ steady' = steady
  BY DEF NextPage, ListInv, Typed, Walks, CursorParts, PaginationAssumption
<1>2. /\ walk.cursor \in Nat \X Nat /\ walk.cursor # NoCursor
      /\ \A id \in Listed : ~Less(Key(id), walk.cursor)
      /\ \A id \in steady \ Listed : Less(Key(id), walk.cursor)
  <2>1. \A a, b \in Nat : <<a, b>> # NoCursor
    BY DEF NoCursor
  <2> QED BY <1>1, <2>1 DEF ListInv, CursorParts
<1>3. Listed \in SUBSET Rows /\ Listed = walk.before \cup walk.page /\ steady \subseteq Matching
  BY DEF ListInv, Typed, Listed
<1>4. /\ \A id \in Candidates(walk.cursor) : id \in Rows /\ Less(Key(id), walk.cursor)
      /\ \A id \in steady \ Listed : id \in Candidates(walk.cursor)
  BY <1>2, <1>3 DEF Candidates, Below, Matching
<1>5. Typed'
  BY <1>1, <1>3, PageTyped
<1>6. /\ walk'.page \in SUBSET Candidates(walk.cursor) /\ walk'.before = Listed
      /\ walk'.limit = walk.limit /\ walk'.stage \in {"walking", "ended"}
      /\ walk'.stage = "ended" => walk'.page = Candidates(walk.cursor)
      /\ walk'.stage = "walking" =>
            /\ walk'.cursor \in Nat \X Nat
            /\ \E x \in walk'.page : walk'.cursor = Key(x)
            /\ \A id \in walk'.page : ~Less(Key(id), walk'.cursor)
            /\ \A id \in Candidates(walk.cursor) \ walk'.page : Less(Key(id), walk'.cursor)
  <2>1. walk' = [stage |-> walk'.stage, limit |-> walk.limit, cursor |-> walk'.cursor,
                 page |-> walk'.page, before |-> walk.before \cup walk.page]
    BY <1>1, PageFacts DEF ListInv
  <2>2. walk'.before = Listed /\ walk'.limit = walk.limit
    BY <1>3, <2>1
  <2> QED BY <1>1, <2>2, PageFacts DEF ListInv
<1>7. \A id : Key(id)' = Key(id)
  BY <1>1 DEF Key
<1>8. ASSUME NEW e \in Listed, NEW id \in walk'.page PROVE Less(Key(id), Key(e))
  <2>1. Less(Key(id), walk.cursor) /\ ~Less(Key(e), walk.cursor) /\ id \in Rows /\ e \in Rows
    BY <1>2, <1>3, <1>4, <1>6, <1>8
  <2>2. Key(id) \in Nat \X Nat /\ Key(e) \in Nat \X Nat
    BY <2>1, KeyFacts DEF ListInv
  <2> QED BY <1>2, <2>1, <2>2, Strict
<1>9. ListedOnce'
  BY <1>1, <1>4, <1>6, <1>7, <1>8 DEF ListedOnce
<1>10. ASSUME walk'.stage = "walking", NEW e \in Listed
       PROVE  ~Less(Key(e), walk'.cursor)
  <2>1. PICK x \in walk'.page : walk'.cursor = Key(x)
    BY <1>6, <1>10
  <2>2. Less(Key(x), Key(e)) /\ x \in Rows /\ e \in Rows
    BY <1>3, <1>4, <1>6, <1>8
  <2>3. Key(x) \in Nat \X Nat /\ Key(e) \in Nat \X Nat
    BY <2>2, KeyFacts DEF ListInv
  <2> QED BY <2>1, <2>2, <2>3, Strict
<1>11. CursorParts'
  BY <1>1, <1>2, <1>4, <1>6, <1>7, <1>10 DEF CursorParts, Listed
<1>12. NothingYet'
  BY <1>6 DEF NothingYet
<1> QED
  BY <1>5, <1>9, <1>11, <1>12 DEF ListInv

-----------------------------------------------------------------------------
(***************************************************************************)
(* What happens between two pages                                          *)
(***************************************************************************)

\* Between two pages nothing else of the walk changes, the rows there are keep
\* their keyset, and no row becomes steady.
LEMMA Between ==
    ASSUME ListInv, walk' = walk, steady' \subseteq steady,
           \A id \in Rows : Key(id)' = Key(id)
    PROVE  NothingYet' /\ CursorParts' /\ ListedOnce'
<1>1. walk.page \subseteq Rows /\ walk.before \subseteq Rows /\ steady \subseteq Rows
  BY DEF ListInv, Typed, Matching
<1>2. NothingYet'
  BY DEF ListInv, NothingYet, Listed
<1>3. CursorParts'
  BY <1>1 DEF ListInv, CursorParts, Listed
<1>4. ListedOnce'
  BY <1>1 DEF ListInv, ListedOnce
<1> QED
  BY <1>2, <1>3, <1>4

\* A row is inserted anywhere in the order: it is not steady.
LEMMA InsertInv ==
    ASSUME PaginationAssumption, ListInv, NEW id \in Ids, NEW created \in 0 .. MaxTime,
           NEW matches \in BOOLEAN, Insert(id, created, matches)
    PROVE  ListInv'
<1>1. /\ id \notin Rows /\ Rows' = Rows \cup {id}
      /\ table'[id] = [created |-> created, matches |-> matches]
      /\ \A o \in Rows : table'[o] = table[o]
      /\ table' = [o \in Rows' |-> table'[o]]
      /\ walk' = walk /\ steady' = steady
  BY DEF Insert, Rows
<1>2. \A o \in Rows : Key(o)' = Key(o)
  BY <1>1 DEF Key
<1>3. IsFiniteSet(Rows')
  BY <1>1, FS_AddElement DEF ListInv, Typed
<1>4. \A o \in Rows' : table'[o] \in [created : 0 .. MaxTime, matches : BOOLEAN]
  BY <1>1 DEF ListInv, Typed
<1>5. Matching \subseteq Matching'
  BY <1>1 DEF Matching
<1>6. Typed'
  BY <1>1, <1>3, <1>4, <1>5 DEF ListInv, Typed
<1> QED
  BY <1>1, <1>2, <1>6, Between DEF ListInv

\* A row that changes sides of the filter is no longer steady.
LEMMA ChangeStatusInv ==
    ASSUME PaginationAssumption, ListInv, NEW id \in Ids, ChangeStatus(id)
    PROVE  ListInv'
<1>1. /\ id \in Rows /\ Rows' = Rows /\ walk' = walk /\ steady' = steady \ {id}
      /\ \A o \in Rows : o # id => table'[o] = table[o]
      /\ table' = [o \in Rows' |-> table'[o]]
      /\ table'[id] = [table[id] EXCEPT !.matches = ~@]
  BY DEF ChangeStatus, Rows
<1>2. /\ table'[id] \in [created : 0 .. MaxTime, matches : BOOLEAN]
      /\ table'[id].created = table[id].created
  BY <1>1 DEF ListInv, Typed
<1>3. \A o \in Rows : Key(o)' = Key(o)
  BY <1>1, <1>2 DEF Key
<1>4. steady' \subseteq Matching'
  BY <1>1 DEF ListInv, Typed, Matching
<1>5. Typed'
  BY <1>1, <1>2, <1>4 DEF ListInv, Typed
<1>6. steady' \subseteq steady
  BY <1>1
<1> QED
  BY <1>1, <1>3, <1>5, <1>6, Between DEF ListInv

\* A refused page leaves what was listed as it is.
LEMMA UnreadableInv ==
    ASSUME ListInv, UnreadableCursor
    PROVE  ListInv'
<1>1. /\ walk' = [walk EXCEPT !.stage = "refused"] /\ walk \in Walks
      /\ table' = table /\ steady' = steady
  BY DEF UnreadableCursor, ListInv, Typed
<1>2. /\ walk' \in Walks /\ walk'.stage = "refused" /\ walk'.limit = walk.limit
      /\ walk'.page = walk.page /\ walk'.before = walk.before
  BY <1>1 DEF Walks
<1>3. Rows' = Rows /\ Matching' = Matching /\ \A id : Key(id)' = Key(id)
  BY <1>1 DEF Rows, Matching, Key
<1>4. Typed'
  BY <1>1, <1>2, <1>3 DEF ListInv, Typed
<1>5. NothingYet' /\ CursorParts' /\ ListedOnce'
  BY <1>2, <1>3 DEF ListInv, NothingYet, CursorParts, ListedOnce
<1> QED
  BY <1>4, <1>5 DEF ListInv

-----------------------------------------------------------------------------

\* An empty table and a walk that has not begun.
LEMMA ListInit == PaginationAssumption /\ Init => ListInv
<1> SUFFICES ASSUME PaginationAssumption, Init PROVE ListInv
  OBVIOUS
<1>1. Rows = {} /\ Matching = {} /\ IsFiniteSet({}) /\ Cardinality({}) = 0
  BY FS_EmptySet DEF Init, Rows, Matching
<1>2. walk \in Walks
  BY DEF Init, Walks, PaginationAssumption
<1>3. table = [id \in Rows |-> table[id]]
  BY <1>1 DEF Init
<1>4. Typed
  BY <1>1, <1>2, <1>3 DEF Init, Typed
<1> QED
  BY <1>4 DEF Init, ListInv, NothingYet, CursorParts, ListedOnce, Listed

\* Every page and every write keeps the invariant.
LEMMA ListNext == PaginationAssumption /\ ListInv /\ [Next]_vars => ListInv'
<1> SUFFICES ASSUME PaginationAssumption, ListInv, [Next]_vars PROVE ListInv'
  OBVIOUS
<1>1. CASE UNCHANGED vars
  <2>1. walk' = walk /\ steady' = steady /\ table' = table
    BY <1>1 DEF vars
  <2> QED BY <2>1 DEF ListInv, Typed, NothingYet, CursorParts, ListedOnce, Listed,
                      Rows, Matching, Key
<1> QED
  BY <1>1, FirstPageInv, NextPageInv, UnreadableInv, InsertInv, ChangeStatusInv DEF Next

\* The invariant says what the runs check of the listing.
LEMMA ListInvImplies == PaginationAssumption /\ ListInv => TypeOK /\ ListedOnce
  BY DEF ListInv, Typed, Walks, TypeOK, Matching, PaginationAssumption

\* For any table, limit and writes between two pages: every page lies below the
\* pages before it, and a walk that has ended has listed every row that matched
\* its filter all the while.
THEOREM ListInvariance ==
    ASSUME PaginationAssumption
    PROVE  Spec => [](TypeOK /\ ListedOnce)
<1>1. Init => ListInv
  BY ListInit
<1>2. ListInv /\ [Next]_vars => ListInv'
  BY ListNext
<1>3. ListInv => TypeOK /\ ListedOnce
  BY ListInvImplies
<1> QED
  BY <1>1, <1>2, <1>3, PTL DEF Spec
=============================================================================
