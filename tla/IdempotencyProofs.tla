-------------------------- MODULE IdempotencyProofs --------------------------
(***************************************************************************)
(* The idempotency middleware, its Redis store and the unique index        *)
(* together implement OncePerKey, for any number of requests, keys and     *)
(* bodies, lost and expired entries and failures of the handlers, where    *)
(* every endpoint stores the key with its row.                             *)
(*                                                                         *)
(* The refinement mapping takes the owner of a key from the stored rows    *)
(* with CHOOSE, so the heart of the argument is that there is one row to   *)
(* choose, and that an entry in Redis never names another.                 *)
(***************************************************************************)
EXTENDS Idempotency, TLAPS

\* A request has been read once it has arrived; what looks up or caches has a key.
Arrived ==
    \A r \in Requests :
        /\ rpc[r] = "idle" <=> req[r] = None
        /\ rpc[r] \in {"lookup", "cache"} => req[r].key # None

\* The row is there from the commit on, and only then.
Committed ==
    \A r \in Requests :
        /\ rpc[r] \in {"finish", "cache"} => r \in stored
        /\ r \in stored => rpc[r] \in {"finish", "cache", "accepted", "error"}

\* No answer before the handler has returned or an entry was found.
Unanswered ==
    \A r \in Requests :
        rpc[r] \in {"idle", "lookup", "commit", "finish"} => answer[r] = None

\* idx_notifications_idempotency_key: one row for a key.
OneRowPerKey == \A q1, q2 \in Keyed : KeyOf(q1) = KeyOf(q2) => q1 = q2

\* An entry names the row that is stored under its key, and that row's body.
EntryOfRow ==
    \A k \in Keys : cache[k] # None =>
        /\ cache[k].from \in Keyed
        /\ KeyOf(cache[k].from) = k
        /\ cache[k].from # Old => cache[k].hash = req[cache[k].from].body

KeyedInv ==
    TypeOK /\ Arrived /\ Committed /\ Unanswered /\ OneRowPerKey /\ EntryOfRow

\* Every endpoint stores the key with its row, as the creation of a
\* notification does.
AllGuarded == IdempotencyAssumption /\ Guarded = Endpoints

-----------------------------------------------------------------------------
(* Keyed rows *)

\* Where every endpoint is guarded, a stored row is keyed when its request was.
LEMMA KeyedRows ==
    ASSUME AllGuarded, TypeOK, Arrived, Committed
    PROVE  /\ \A q \in stored : q # Old => q \in Requests /\ req[q] \in Asked
           /\ Keyed = {q \in stored : q = Old \/ req[q].key # None}
           /\ \A r \in Requests : rpc[r] # "idle" => req[r] \in Asked
<1>1. \A r \in Requests : rpc[r] # "idle" => req[r] \in Asked
  BY DEF TypeOK, Arrived
<1>2. \A q \in stored : q # Old => q \in Requests /\ req[q] \in Asked
  BY <1>1 DEF TypeOK, Committed
<1>3. \A q \in stored : q # Old => req[q].endpoint \in Guarded
  BY <1>2 DEF AllGuarded, Asked
<1> QED
  BY <1>1, <1>2, <1>3 DEF Keyed

\* A step that stores nothing and leaves the stored requests alone leaves the
\* keyed rows and their keys alone.
LEMMA KeyedSame ==
    ASSUME stored' = stored, \A q \in stored : q # Old => req'[q] = req[q]
    PROVE  Keyed' = Keyed /\ \A q \in Keyed : KeyOf(q)' = KeyOf(q)
  BY DEF Keyed, KeyOf

\* What the entries say stays true while rows and entries stay.
LEMMA RowsSame ==
    ASSUME TypeOK, OneRowPerKey, EntryOfRow, cache' = cache, stored' = stored,
           \A q \in stored : q # Old => req'[q] = req[q]
    PROVE  OneRowPerKey' /\ EntryOfRow'
<1>1. Keyed' = Keyed /\ \A q \in Keyed : KeyOf(q)' = KeyOf(q)
  BY KeyedSame
<1>2. \A q \in Keyed : q \in stored
  BY DEF Keyed
<1>3. OneRowPerKey'
  BY <1>1 DEF OneRowPerKey
<1>4. ASSUME NEW k \in Keys, cache'[k] # None
      PROVE  /\ cache'[k].from \in Keyed'
             /\ KeyOf(cache[k].from)' = k
             /\ cache'[k].from # Old => cache'[k].hash = req'[cache'[k].from].body
  BY <1>1, <1>2, <1>4 DEF EntryOfRow
<1> QED
  BY <1>3, <1>4 DEF EntryOfRow

-----------------------------------------------------------------------------
(* The steps *)

\* A step that only moves the request on: a miss, a mismatch, a row the index
\* refuses, a fault of the handler or of the store.
Moves(r, to) ==
    /\ rpc[r] # "idle"
    /\ rpc' = [rpc EXCEPT ![r] = to]
    /\ \/ rpc[r] = "lookup" /\ to \in {"commit", "mismatch"}
       \/ rpc[r] = "commit" /\ to \in {"duplicate", "error"}
       \/ rpc[r] = "finish" /\ to = "error"
       \/ rpc[r] = "cache" /\ to = "accepted"
    /\ faults' \in 0..MaxFaults
    /\ UNCHANGED <<req, cache, stored, answer, expiries>>

\* The steps that only move a request on keep the invariant.
LEMMA MovesInv ==
    ASSUME AllGuarded, KeyedInv, NEW r \in Requests, NEW to, Moves(r, to)
    PROVE  KeyedInv'
<1> USE DEF KeyedInv
<1>1. TypeOK'
  BY DEF Moves, TypeOK, Steps, Answers
<1>2. Arrived'
  BY DEF Moves, Arrived, TypeOK
<1>3. Committed'
  BY DEF Moves, Committed, TypeOK
<1>4. Unanswered'
  BY DEF Moves, Unanswered, TypeOK
<1>5. OneRowPerKey' /\ EntryOfRow'
  BY RowsSame DEF Moves
<1> QED
  BY <1>1, <1>2, <1>3, <1>4, <1>5

\* A request arrives, with or without a key.
LEMMA ArriveInv ==
    ASSUME AllGuarded, KeyedInv, NEW r \in Requests, NEW a \in Asked, Arrive(r, a)
    PROVE  KeyedInv'
<1> USE DEF KeyedInv
<1>0. /\ rpc[r] = "idle" /\ r \notin stored /\ a # None
      /\ \E to \in {"commit", "lookup", "rejected"} :
            /\ rpc' = [rpc EXCEPT ![r] = to]
            /\ to = "lookup" => a.key # None
      /\ req' = [req EXCEPT ![r] = a]
      /\ UNCHANGED <<cache, stored, answer, faults, expiries>>
  BY DEF Arrive, Goto, Committed, AllGuarded, IdempotencyAssumption
<1>1. TypeOK'
  BY <1>0 DEF TypeOK, Steps, Answers
<1>2. Arrived'
  BY <1>0 DEF Arrived, TypeOK
<1>3. Committed'
  BY <1>0 DEF Committed, TypeOK
<1>4. Unanswered'
  BY <1>0 DEF Unanswered, TypeOK
<1>5. OneRowPerKey' /\ EntryOfRow'
  <2>1. \A q \in stored : q # Old => req'[q] = req[q]
    BY <1>0 DEF TypeOK
  <2> QED BY <1>0, <2>1, RowsSame
<1> QED
  BY <1>1, <1>2, <1>3, <1>4, <1>5

\* A replay answers with the response of the row the entry names.
LEMMA ReplayInv ==
    ASSUME AllGuarded, KeyedInv, NEW r \in Requests, ReplayCachedEntry(r)
    PROVE  KeyedInv'
<1> USE DEF KeyedInv
<1>0. /\ rpc[r] = "lookup" /\ rpc' = [rpc EXCEPT ![r] = "replayed"]
      /\ answer' = [answer EXCEPT ![r] = cache[req[r].key].from]
      /\ cache[req[r].key] # None
      /\ UNCHANGED <<req, cache, stored, faults, expiries>>
  BY DEF ReplayCachedEntry, Goto, Hit
<1>1. TypeOK'
  <2>1. req[r] \in Asked /\ req[r].key # None
    BY <1>0, KeyedRows DEF Arrived
  <2>2. req[r].key \in Keys
    BY <2>1 DEF Asked
  <2>3. cache[req[r].key] \in Entries
    BY <1>0, <2>2 DEF TypeOK
  <2>4. cache[req[r].key].from \in Requests \cup {Old}
    BY <2>3 DEF Entries
  <2> QED BY <1>0, <2>4 DEF TypeOK, Steps, Answers
<1>2. Arrived'
  BY <1>0 DEF Arrived, TypeOK
<1>3. Committed'
  BY <1>0 DEF Committed, TypeOK
<1>4. Unanswered'
  BY <1>0 DEF Unanswered, TypeOK
<1>5. OneRowPerKey' /\ EntryOfRow'
  BY <1>0, RowsSame
<1> QED
  BY <1>1, <1>2, <1>3, <1>4, <1>5

\* The index lets a row in only when no other carries its key.
LEMMA CommitInv ==
    ASSUME AllGuarded, KeyedInv, NEW r \in Requests, Commit(r)
    PROVE  /\ KeyedInv'
           /\ Keyed' = IF req[r].key # None THEN Keyed \cup {r} ELSE Keyed
           /\ \A q \in Keyed' : KeyOf(q)' = KeyOf(q)
<1> USE DEF KeyedInv
<1>0. /\ rpc[r] = "commit" /\ rpc' = [rpc EXCEPT ![r] = "finish"]
      /\ ~KeyTaken(r) /\ stored' = stored \cup {r}
      /\ UNCHANGED <<req, cache, answer, faults, expiries>>
  BY DEF Commit, Goto
<1>a. /\ req[r] \in Asked /\ req[r].endpoint \in Guarded /\ r # Old
      /\ r \notin stored
  <2>1. req[r] \in Asked
    BY <1>0, KeyedRows
  <2>2. r # Old /\ r \notin stored
    BY <1>0 DEF AllGuarded, IdempotencyAssumption, Committed
  <2> QED BY <2>1, <2>2 DEF AllGuarded, Asked
<1>1. TypeOK'
  BY <1>0 DEF TypeOK, Steps, Answers
<1>2. Arrived'
  BY <1>0 DEF Arrived, TypeOK
<1>3. Committed'
  BY <1>0 DEF Committed, TypeOK
<1>4. Unanswered'
  BY <1>0 DEF Unanswered, TypeOK
<1>5. \A q : KeyOf(q)' = KeyOf(q)
  BY <1>0 DEF KeyOf
<1>6. Keyed' = IF req[r].key # None THEN Keyed \cup {r} ELSE Keyed
  BY <1>0, <1>a DEF Keyed
<1>7. OneRowPerKey'
  <2>1. req[r].key # None => \A q \in Keyed : KeyOf(q) # req[r].key
    BY <1>0, <1>a DEF KeyTaken
  <2>2. KeyOf(r) = req[r].key
    BY <1>a DEF KeyOf
  <2>3. CASE req[r].key = None
    BY <1>5, <1>6, <2>3 DEF OneRowPerKey
  <2>4. CASE req[r].key # None
    BY <1>5, <1>6, <2>1, <2>2, <2>4 DEF OneRowPerKey
  <2> QED BY <2>3, <2>4
<1>8. EntryOfRow'
  <2>1. Keyed \subseteq Keyed'
    BY <1>6
  <2> QED BY <1>0, <1>5, <2>1 DEF EntryOfRow
<1> QED
  BY <1>1, <1>2, <1>3, <1>4, <1>5, <1>6, <1>7, <1>8

\* The handler's answer is the request's own row.
LEMMA RespondInv ==
    ASSUME AllGuarded, KeyedInv, NEW r \in Requests, Respond(r)
    PROVE  KeyedInv'
<1> USE DEF KeyedInv
<1>0. /\ rpc[r] = "finish"
      /\ rpc' = [rpc EXCEPT ![r] = IF req[r].key = None THEN "accepted" ELSE "cache"]
      /\ answer' = [answer EXCEPT ![r] = r]
      /\ UNCHANGED <<req, cache, stored, faults, expiries>>
  BY DEF Respond
<1>1. TypeOK'
  BY <1>0 DEF TypeOK, Steps, Answers
<1>2. Arrived'
  BY <1>0 DEF Arrived, TypeOK
<1>3. Committed'
  BY <1>0 DEF Committed, TypeOK
<1>4. Unanswered'
  BY <1>0 DEF Unanswered, TypeOK
<1>5. OneRowPerKey' /\ EntryOfRow'
  BY <1>0, RowsSame
<1> QED
  BY <1>1, <1>2, <1>3, <1>4, <1>5

\* The entry that is written names the row stored under its key.
LEMMA CacheInv ==
    ASSUME AllGuarded, KeyedInv, NEW r \in Requests, Cache(r)
    PROVE  KeyedInv'
<1> USE DEF KeyedInv
<1> DEFINE e == [from |-> r, hash |-> req[r].body]
<1>0. /\ rpc[r] = "cache" /\ rpc' = [rpc EXCEPT ![r] = "accepted"]
      /\ cache' = [cache EXCEPT ![req[r].key] = e]
      /\ UNCHANGED <<req, stored, answer, faults, expiries>>
  BY DEF Cache, Goto
<1>a. /\ req[r] \in Asked /\ r \in stored /\ r # Old
      /\ req[r].key # None /\ req[r].key \in Keys /\ req[r].body \in Bodies
  <2>1. req[r] \in Asked /\ req[r].key # None
    BY <1>0, KeyedRows DEF Arrived
  <2> QED
    BY <1>0, <2>1 DEF Asked, Committed, AllGuarded, IdempotencyAssumption
<1>b. r \in Keyed /\ KeyOf(r) = req[r].key
  BY <1>a, KeyedRows DEF KeyOf
<1>1. TypeOK'
  <2>1. e \in Entries
    BY <1>a DEF Entries
  <2> HIDE DEF e
  <2> QED BY <1>0, <1>a, <2>1 DEF TypeOK, Steps, Answers
<1>2. Arrived'
  BY <1>0 DEF Arrived, TypeOK
<1>3. Committed'
  BY <1>0 DEF Committed, TypeOK
<1>4. Unanswered'
  BY <1>0 DEF Unanswered, TypeOK
<1>5. Keyed' = Keyed /\ \A q : KeyOf(q)' = KeyOf(q)
  BY <1>0 DEF Keyed, KeyOf
<1>6. OneRowPerKey'
  BY <1>5 DEF OneRowPerKey
<1>7. EntryOfRow'
  <2>1. ASSUME NEW k \in Keys, cache'[k] # None
        PROVE  /\ cache'[k].from \in Keyed /\ KeyOf(cache'[k].from) = k
               /\ cache'[k].from # Old => cache'[k].hash = req[cache'[k].from].body
    <3>1. CASE k = req[r].key
      <4>1. cache'[k].from = r /\ cache'[k].hash = req[r].body
        BY <1>0, <1>a, <3>1 DEF TypeOK
      <4> QED BY <1>b, <3>1, <4>1
    <3>2. CASE k # req[r].key
      BY <1>0, <2>1, <3>2 DEF EntryOfRow, TypeOK
    <3> QED BY <3>1, <3>2
  <2>2. ASSUME NEW k \in Keys PROVE KeyOf(cache[k].from)' = KeyOf(cache'[k].from)
    BY <1>0 DEF KeyOf
  <2> QED BY <1>0, <1>5, <2>1, <2>2 DEF EntryOfRow
<1> QED
  BY <1>1, <1>2, <1>3, <1>4, <1>6, <1>7

\* Redis drops an entry; the row stays.
LEMMA ExpireInv ==
    ASSUME AllGuarded, KeyedInv, NEW k \in Keys, Expire(k)
    PROVE  KeyedInv'
<1> USE DEF KeyedInv
<1>0. /\ expiries' \in 0..MaxExpiries
      /\ cache' = [cache EXCEPT ![k] = None]
      /\ UNCHANGED <<rpc, req, stored, answer, faults>>
  BY DEF Expire, TypeOK, AllGuarded, IdempotencyAssumption
<1>1. TypeOK'
  BY <1>0 DEF TypeOK
<1>2. Arrived' /\ Committed' /\ Unanswered'
  BY <1>0 DEF Arrived, Committed, Unanswered
<1>3. Keyed' = Keyed /\ \A q : KeyOf(q)' = KeyOf(q)
  BY <1>0 DEF Keyed, KeyOf
<1>4. OneRowPerKey'
  BY <1>3 DEF OneRowPerKey
<1>5. EntryOfRow'
  <2>1. \A j \in Keys : cache'[j] # None => cache'[j] = cache[j]
    BY <1>0 DEF TypeOK
  <2>2. ASSUME NEW j \in Keys PROVE KeyOf(cache[j].from)' = KeyOf(cache'[j].from)
    BY <1>0 DEF KeyOf
  <2> QED BY <1>0, <1>3, <2>1, <2>2 DEF EntryOfRow
<1> QED
  BY <1>1, <1>2, <1>4, <1>5

-----------------------------------------------------------------------------
(* The invariant *)

\* Nothing is stored at first, or one row of an earlier deployment, with or
\* without its entry.
LEMMA KeyedInit == AllGuarded /\ Init => KeyedInv
<1> SUFFICES ASSUME AllGuarded, Init PROVE KeyedInv
  OBVIOUS
<1>0. Old \notin Requests /\ None # Old
  BY DEF AllGuarded, IdempotencyAssumption
<1>1. TypeOK
  <2>1. [from |-> Old, hash |-> None] \in Entries
    BY DEF Entries
  <2> QED BY <2>1 DEF Init, TypeOK, Steps, AllGuarded, IdempotencyAssumption
<1>2. Arrived /\ Committed /\ Unanswered
  BY <1>0 DEF Init, Arrived, Committed, Unanswered
<1>3. Keyed = stored /\ stored \subseteq {Old}
  BY DEF Init, Keyed
<1>4. OneRowPerKey
  BY <1>3 DEF OneRowPerKey
<1>5. EntryOfRow
  <2>1. ASSUME NEW k \in Keys, cache[k] # None
        PROVE  cache[k].from = Old /\ k = OldKey /\ Old \in stored
    BY <2>1 DEF Init
  <2> QED BY <1>3, <2>1 DEF EntryOfRow, KeyOf
<1> QED
  BY <1>1, <1>2, <1>4, <1>5 DEF KeyedInv

\* The steps that only move a request on, by name.
LEMMA MovesSteps ==
    ASSUME AllGuarded, TypeOK, NEW r \in Requests,
           \/ Miss(r) \/ FailOpen(r) \/ RespondWithKeyMismatch(r)
           \/ Duplicate(r) \/ HandlerFault(r) \/ CacheFails(r)
    PROVE  \E to \in Steps : Moves(r, to)
<1>0. faults \in 0..MaxFaults /\ (Fault => faults' \in 0..MaxFaults)
  BY DEF TypeOK, Fault, AllGuarded, IdempotencyAssumption
<1> USE DEF Goto, Moves, Steps, Answers
<1>1. CASE Miss(r)
  <2>1. Moves(r, "commit") BY <1>0, <1>1 DEF Miss
  <2> QED BY <2>1
<1>2. CASE FailOpen(r)
  <2>1. Moves(r, "commit") BY <1>0, <1>2 DEF FailOpen
  <2> QED BY <2>1
<1>3. CASE RespondWithKeyMismatch(r)
  <2>1. Moves(r, "mismatch") BY <1>0, <1>3 DEF RespondWithKeyMismatch
  <2> QED BY <2>1
<1>4. CASE Duplicate(r)
  <2>1. Moves(r, "duplicate") BY <1>0, <1>4 DEF Duplicate
  <2> QED BY <2>1
<1>5. CASE HandlerFault(r)
  <2>1. Moves(r, "error") BY <1>0, <1>5 DEF HandlerFault
  <2> QED BY <2>1
<1>6. CASE CacheFails(r)
  <2>1. Moves(r, "accepted") BY <1>0, <1>6 DEF CacheFails
  <2> QED BY <2>1
<1> QED
  BY <1>1, <1>2, <1>3, <1>4, <1>5, <1>6

\* Every step of the middleware, the handlers and Redis keeps the invariant.
LEMMA KeyedNext == AllGuarded /\ KeyedInv /\ [Next]_vars => KeyedInv'
<1> SUFFICES ASSUME AllGuarded, KeyedInv, [Next]_vars PROVE KeyedInv'
  OBVIOUS
<1>1. CASE UNCHANGED vars
  BY <1>1 DEF vars, KeyedInv, TypeOK, Arrived, Committed, Unanswered, OneRowPerKey,
              EntryOfRow, Keyed, KeyOf
<1>2. ASSUME NEW r \in Requests, NEW a \in Asked, Arrive(r, a) PROVE KeyedInv'
  BY <1>2, ArriveInv
<1>3. ASSUME NEW r \in Requests, ReplayCachedEntry(r) PROVE KeyedInv'
  BY <1>3, ReplayInv
<1>4. ASSUME NEW r \in Requests, Commit(r) PROVE KeyedInv'
  BY <1>4, CommitInv
<1>5. ASSUME NEW r \in Requests, Respond(r) PROVE KeyedInv'
  BY <1>5, RespondInv
<1>6. ASSUME NEW r \in Requests, Cache(r) PROVE KeyedInv'
  BY <1>6, CacheInv
<1>7. ASSUME NEW k \in Keys, Expire(k) PROVE KeyedInv'
  BY <1>7, ExpireInv
<1>8. ASSUME NEW r \in Requests,
             \/ Miss(r) \/ FailOpen(r) \/ RespondWithKeyMismatch(r)
             \/ Duplicate(r) \/ HandlerFault(r) \/ CacheFails(r)
      PROVE  KeyedInv'
  BY <1>8, MovesSteps, MovesInv DEF KeyedInv
<1> QED
  BY <1>1, <1>2, <1>3, <1>4, <1>5, <1>6, <1>7, <1>8 DEF Next, Progress

-----------------------------------------------------------------------------
(* The refinement *)

\* The owner of a key is the row stored under it, if there is one.
OwnerIsRow ==
    /\ DOMAIN owner = Keys
    /\ \A k \in Keys :
          /\ \A q \in Keyed : KeyOf(q) = k => owner[k] = q
          /\ (\A q \in Keyed : KeyOf(q) # k) => owner[k] = None

\* One row per key makes the choice of the refinement mapping a function.
LEMMA OwnerFacts == KeyedInv => OwnerIsRow
<1> SUFFICES ASSUME KeyedInv PROVE OwnerIsRow
  OBVIOUS
<1>1. DOMAIN owner = Keys
  BY DEF owner
<1>2. ASSUME NEW k \in Keys, NEW q \in Keyed, KeyOf(q) = k PROVE owner[k] = q
  <2> DEFINE p == CHOOSE q2 \in Keyed : KeyOf(q2) = k
  <2>1. owner[k] = p
    BY <1>2 DEF owner
  <2>2. p \in Keyed /\ KeyOf(p) = k
    BY <1>2
  <2> HIDE DEF p
  <2> QED BY <1>2, <2>1, <2>2 DEF KeyedInv, OneRowPerKey
<1>3. ASSUME NEW k \in Keys, \A q \in Keyed : KeyOf(q) # k PROVE owner[k] = None
  BY <1>3 DEF owner
<1> QED
  BY <1>1, <1>2, <1>3 DEF OwnerIsRow

\* The owners stay while the keyed rows and their keys stay.
LEMMA OwnersSame ==
    ASSUME OwnerIsRow, OwnerIsRow', Keyed' = Keyed,
           \A q \in Keyed : KeyOf(q)' = KeyOf(q)
    PROVE  owner' = owner
<1>1. owner = [k \in Keys |-> owner[k]]
  BY DEF owner
<1>2. owner' = [k \in Keys |-> owner'[k]]
  BY DEF owner
<1>3. ASSUME NEW k \in Keys PROVE owner'[k] = owner[k]
  <2>1. CASE \E q \in Keyed : KeyOf(q) = k
    BY <2>1 DEF OwnerIsRow
  <2>2. CASE \A q \in Keyed : KeyOf(q) # k
    BY <2>2 DEF OwnerIsRow
  <2> QED BY <2>1, <2>2
<1> QED
  BY <1>1, <1>2, <1>3

\* A step that changes no request, answer or stored row changes nothing of the
\* promise.
LEMMA PromiseSame ==
    ASSUME OwnerIsRow, OwnerIsRow', UNCHANGED <<req, stored, answer>>
    PROVE  UNCHANGED Abstract!vars
<1>1. Keyed' = Keyed /\ \A q \in Keyed : KeyOf(q)' = KeyOf(q)
  BY KeyedSame
<1>2. owner' = owner
  BY <1>1, OwnersSame
<1>3. asked' = asked /\ reply' = reply
  BY DEF asked, reply
<1> QED
  BY <1>2, <1>3 DEF Abstract!vars

\* An arrival under a key asks; one without a key is no concern of the promise.
LEMMA ArriveAsks ==
    ASSUME AllGuarded, KeyedInv, OwnerIsRow, OwnerIsRow',
           NEW r \in Requests, NEW a \in Asked, Arrive(r, a)
    PROVE  [Abstract!Next]_(Abstract!vars)
<1>0. /\ rpc[r] = "idle" /\ r \notin stored /\ req[r] = None /\ a # None
      /\ req' = [req EXCEPT ![r] = a] /\ req \in [Requests -> Asked \cup {None}]
      /\ answer[r] = None
      /\ UNCHANGED <<stored, answer>>
  BY DEF Arrive, Goto, KeyedInv, Committed, Arrived, Unanswered, TypeOK, AllGuarded,
         IdempotencyAssumption
<1>1. \A q \in stored : q # Old => req'[q] = req[q]
  BY <1>0 DEF KeyedInv, TypeOK
<1>2. owner' = owner
  BY <1>0, <1>1, KeyedSame, OwnersSame
<1>3. reply' = reply
  BY <1>0 DEF reply
<1>4. CASE a.key = None
  <2>1. asked' = asked
    BY <1>0, <1>4 DEF asked
  <2> QED BY <1>2, <1>3, <2>1 DEF Abstract!vars
<1>5. CASE a.key # None
  <2> DEFINE ask == [key |-> a.key, body |-> a.body]
  <2>1. ask \in [key : Keys, body : Bodies]
    BY <1>5 DEF Asked
  <2>2. asked[r] = None
    BY <1>0 DEF asked
  <2>3. asked' = [asked EXCEPT ![r] = ask]
    BY <1>0, <1>5 DEF asked
  <2> HIDE DEF ask
  <2>4. Abstract!Ask(r, ask)
    BY <1>2, <1>3, <2>2, <2>3 DEF Abstract!Ask
  <2> QED BY <2>1, <2>4 DEF Abstract!Next, Abstract!Asks
<1> QED
  BY <1>4, <1>5

\* A request under a key has asked for its body.
LEMMA AskedFacts ==
    ASSUME AllGuarded, NEW r \in Requests, req[r] \in Asked, req[r].key # None
    PROVE  /\ req[r].key \in Keys
           /\ asked[r] # None
           /\ asked[r].key = req[r].key /\ asked[r].body = req[r].body
<1>1. req[r].key \in Keys /\ req[r].body \in Bodies
  BY DEF Asked
<1>2. req[r] # None
  BY DEF AllGuarded, IdempotencyAssumption
<1>3. asked[r] = [key |-> req[r].key, body |-> req[r].body]
  BY <1>2 DEF asked
<1>4. [key |-> req[r].key, body |-> req[r].body] \in [key : Keys, body : Bodies]
  BY <1>1
<1>5. asked[r] # None
  BY <1>3, <1>4 DEF AllGuarded, IdempotencyAssumption
<1> QED
  BY <1>1, <1>3, <1>5

\* A commit under a key makes the request the owner of a key nobody owns.
LEMMA CommitOwns ==
    ASSUME AllGuarded, KeyedInv, OwnerIsRow, OwnerIsRow', NEW r \in Requests, Commit(r)
    PROVE  [Abstract!Next]_(Abstract!vars)
<1>0. /\ rpc[r] = "commit" /\ ~KeyTaken(r)
      /\ UNCHANGED <<req, answer>>
  BY DEF Commit, Goto
<1>1. /\ Keyed' = IF req[r].key # None THEN Keyed \cup {r} ELSE Keyed
      /\ \A q \in Keyed' : KeyOf(q)' = KeyOf(q)
  BY CommitInv
<1>2. asked' = asked /\ reply' = reply
  BY <1>0 DEF asked, reply
<1>3. req[r] \in Asked /\ r # Old
  BY <1>0, KeyedRows DEF KeyedInv, AllGuarded, IdempotencyAssumption
<1>4. CASE req[r].key = None
  <2>1. owner' = owner
    BY <1>1, <1>4, OwnersSame
  <2> QED BY <1>2, <2>1 DEF Abstract!vars
<1>5. CASE req[r].key # None
  <2> DEFINE k == req[r].key
  <2>1. k \in Keys /\ asked[r] # None /\ asked[r].key = k
    BY <1>3, <1>5, AskedFacts
  <2>2. \A q \in Keyed : KeyOf(q) # k
    BY <1>0, <1>3, <1>5 DEF KeyTaken, AllGuarded, Asked
  <2>3. owner[k] = None
    BY <2>1, <2>2 DEF OwnerIsRow
  <2>4. KeyOf(r) = k /\ Keyed' = Keyed \cup {r}
    BY <1>1, <1>3, <1>5 DEF KeyOf
  <2> HIDE DEF k
  <2>5. owner' = [owner EXCEPT ![k] = r]
    <3>1. owner = [j \in Keys |-> owner[j]] /\ owner' = [j \in Keys |-> owner'[j]]
      BY DEF owner
    <3>2. owner'[k] = r
      BY <1>1, <2>1, <2>4 DEF OwnerIsRow
    <3>3. ASSUME NEW j \in Keys, j # k PROVE owner'[j] = owner[j]
      <4>1. CASE \E q \in Keyed : KeyOf(q) = j
        BY <1>1, <2>4, <3>3, <4>1 DEF OwnerIsRow
      <4>2. CASE \A q \in Keyed : KeyOf(q) # j
        BY <1>1, <2>4, <3>3, <4>2 DEF OwnerIsRow
      <4> QED BY <4>1, <4>2
    <3> QED BY <2>1, <3>1, <3>2, <3>3
  <2>6. Abstract!Own(r)
    BY <1>2, <2>1, <2>3, <2>5 DEF Abstract!Own
  <2> QED BY <2>6 DEF Abstract!Next
<1> QED
  BY <1>4, <1>5

\* Whoever is told of a row under its key is told of the owner's, and asked for
\* what the owner asked for.
LEMMA AnswerAccepts ==
    ASSUME AllGuarded, KeyedInv, OwnerIsRow, OwnerIsRow',
           NEW r \in Requests, req[r] \in Asked, req[r].key # None, answer[r] = None,
           NEW q \in Keyed, KeyOf(q) = req[r].key,
           q # Old => req[q].body = req[r].body,
           answer' = [answer EXCEPT ![r] = q], UNCHANGED <<req, stored>>
    PROVE  [Abstract!Next]_(Abstract!vars)
<1> DEFINE k == req[r].key
<1>1. k \in Keys /\ asked[r] # None /\ asked[r].key = k /\ asked[r].body = req[r].body
  BY AskedFacts
<1>2. owner[k] = q
  BY <1>1 DEF OwnerIsRow
<1>3. q # None
  BY DEF KeyedInv, TypeOK, Keyed, AllGuarded, IdempotencyAssumption
<1>4. q # Old => asked[q].body = asked[r].body
  <2>1. ASSUME q # Old
        PROVE  q \in Requests /\ req[q] \in Asked /\ req[q].key # None
    BY <2>1, KeyedRows DEF KeyedInv
  <2> QED BY <1>1, <2>1, AskedFacts
<1>5. req[r] # None
  BY DEF AllGuarded, IdempotencyAssumption
<1>6. reply[r] = None
  BY <1>5 DEF reply
<1>7. reply' = [reply EXCEPT ![r] = q]
  BY <1>5 DEF reply, KeyedInv, TypeOK
<1>8. asked' = asked
  BY DEF asked
<1>9. owner' = owner
  BY KeyedSame, OwnersSame
<1>10. Abstract!Accept(r)
  BY <1>1, <1>2, <1>3, <1>4, <1>6, <1>7, <1>8, <1>9 DEF Abstract!Accept
<1> QED
  BY <1>10 DEF Abstract!Next

\* The handler's success: the request owns its key.
LEMMA RespondAccepts ==
    ASSUME AllGuarded, KeyedInv, OwnerIsRow, OwnerIsRow', NEW r \in Requests, Respond(r)
    PROVE  [Abstract!Next]_(Abstract!vars)
<1>0. /\ rpc[r] = "finish" /\ answer' = [answer EXCEPT ![r] = r]
      /\ UNCHANGED <<req, cache, stored>>
  BY DEF Respond
<1>1. req[r] \in Asked /\ r \in stored /\ answer[r] = None /\ r # Old
  BY <1>0, KeyedRows DEF KeyedInv, Committed, Unanswered, AllGuarded,
                         IdempotencyAssumption
<1>2. CASE req[r].key = None
  <2>1. reply' = reply
    BY <1>0, <1>2 DEF reply, KeyedInv, TypeOK
  <2>2. asked' = asked
    BY <1>0 DEF asked
  <2>3. owner' = owner
    BY <1>0, KeyedSame, OwnersSame
  <2> QED BY <2>1, <2>2, <2>3 DEF Abstract!vars
<1>3. CASE req[r].key # None
  <2>1. r \in Keyed /\ KeyOf(r) = req[r].key
    BY <1>1, <1>3, KeyedRows DEF KeyOf, KeyedInv
  <2> QED BY <1>0, <1>1, <1>3, <2>1, AnswerAccepts
<1> QED
  BY <1>2, <1>3

\* A replay: the entry names the owner, and its fingerprint is the request's or
\* unknown.
LEMMA ReplayAccepts ==
    ASSUME AllGuarded, KeyedInv, OwnerIsRow, OwnerIsRow', NEW r \in Requests,
           ReplayCachedEntry(r)
    PROVE  [Abstract!Next]_(Abstract!vars)
<1> DEFINE e == cache[req[r].key]
<1>0. /\ rpc[r] = "lookup" /\ answer' = [answer EXCEPT ![r] = e.from]
      /\ e # None /\ (e.hash = None \/ e.hash = req[r].body)
      /\ UNCHANGED <<req, cache, stored>>
  BY DEF ReplayCachedEntry, Goto, Hit, RequestHashMismatched
<1>1. req[r] \in Asked /\ req[r].key # None /\ answer[r] = None
  BY <1>0, KeyedRows DEF KeyedInv, Arrived, Unanswered
<1>2. req[r].key \in Keys
  BY <1>1 DEF Asked
<1>3. /\ e.from \in Keyed /\ KeyOf(e.from) = req[r].key
      /\ e.from # Old => e.hash = req[e.from].body
  BY <1>0, <1>2 DEF KeyedInv, EntryOfRow
<1>4. e.from # Old => req[e.from].body = req[r].body
  <2>1. ASSUME e.from # Old PROVE req[e.from].body \in Bodies
    BY <1>3, <2>1, KeyedRows DEF KeyedInv, Asked
  <2> QED BY <1>0, <1>3, <2>1 DEF AllGuarded, IdempotencyAssumption
<1> HIDE DEF e
<1> QED
  BY <1>0, <1>1, <1>3, <1>4, AnswerAccepts

\* Every step is a step of the promise, or nothing it speaks of.
LEMMA KeyedStep ==
    AllGuarded /\ KeyedInv /\ OwnerIsRow /\ OwnerIsRow' /\ [Next]_vars
        => [Abstract!Next]_(Abstract!vars)
<1> SUFFICES ASSUME AllGuarded, KeyedInv, OwnerIsRow, OwnerIsRow', [Next]_vars
             PROVE  [Abstract!Next]_(Abstract!vars)
  OBVIOUS
<1>1. CASE UNCHANGED <<req, stored, answer>>
  BY <1>1, PromiseSame
<1>2. ASSUME NEW r \in Requests, NEW a \in Asked, Arrive(r, a)
      PROVE  [Abstract!Next]_(Abstract!vars)
  BY <1>2, ArriveAsks
<1>3. ASSUME NEW r \in Requests, Commit(r) PROVE [Abstract!Next]_(Abstract!vars)
  BY <1>3, CommitOwns
<1>4. ASSUME NEW r \in Requests, Respond(r) PROVE [Abstract!Next]_(Abstract!vars)
  BY <1>4, RespondAccepts
<1>5. ASSUME NEW r \in Requests, ReplayCachedEntry(r)
      PROVE  [Abstract!Next]_(Abstract!vars)
  BY <1>5, ReplayAccepts
<1> QED
  BY <1>1, <1>2, <1>3, <1>4, <1>5
     DEF Next, Progress, vars, Miss, RespondWithKeyMismatch, Duplicate, Cache,
         FailOpen, HandlerFault, CacheFails, Expire

\* At first a key is owned by the row of an earlier deployment, or by nobody.
LEMMA KeyedStart == AllGuarded /\ Init => Abstract!Init
<1> SUFFICES ASSUME AllGuarded, Init PROVE Abstract!Init
  OBVIOUS
<1>1. asked = [r \in Requests |-> None]
  BY DEF Init, asked
<1>2. reply = [r \in Requests |-> None]
  BY DEF Init, reply
<1>3. Keyed \subseteq {Old}
  BY DEF Init, Keyed
<1>4. KeyedInv
  BY KeyedInit
<1>5. \A k \in Keys : owner[k] \in {Old, None}
  <2>1. OwnerIsRow
    BY <1>4, OwnerFacts
  <2>2. TAKE k \in Keys
  <2>3. CASE \E q \in Keyed : KeyOf(q) = k
    BY <1>3, <2>1, <2>3 DEF OwnerIsRow
  <2>4. CASE \A q \in Keyed : KeyOf(q) # k
    BY <2>1, <2>4 DEF OwnerIsRow
  <2> QED BY <2>3, <2>4
<1>6. owner \in [Keys -> {Old, None}]
  BY <1>5 DEF owner
<1> QED
  BY <1>1, <1>2, <1>6 DEF Abstract!Init

-----------------------------------------------------------------------------
(* Types, whichever endpoints are guarded *)

\* Types need to know of a request only that it has been read.
KeyedTypes == TypeOK /\ Arrived

\* The types hold at first.
LEMMA TypesInit == IdempotencyAssumption /\ Init => KeyedTypes
<1> SUFFICES ASSUME IdempotencyAssumption, Init PROVE KeyedTypes
  OBVIOUS
<1>1. [from |-> Old, hash |-> None] \in Entries
  BY DEF Entries
<1>2. TypeOK
  BY <1>1 DEF Init, TypeOK, Steps, IdempotencyAssumption
<1>3. Arrived
  BY DEF Init, Arrived
<1> QED
  BY <1>2, <1>3 DEF KeyedTypes

\* Every step keeps them.
LEMMA TypesNext == IdempotencyAssumption /\ KeyedTypes /\ [Next]_vars => KeyedTypes'
<1> SUFFICES ASSUME IdempotencyAssumption, KeyedTypes, [Next]_vars PROVE KeyedTypes'
  OBVIOUS
<1> USE DEF KeyedTypes
<1>1. CASE UNCHANGED vars
  BY <1>1 DEF vars, TypeOK, Arrived
<1>2. ASSUME NEW r \in Requests, NEW a \in Asked, Arrive(r, a) PROVE KeyedTypes'
  <2>1. a # None /\ rpc[r] = "idle"
    BY <1>2 DEF IdempotencyAssumption, Arrive, Goto
  <2>2. TypeOK'
    BY <1>2 DEF TypeOK, Arrive, Goto, Steps, Answers
  <2>3. Arrived'
    BY <1>2, <2>1 DEF TypeOK, Arrived, Arrive, Goto
  <2> QED BY <2>2, <2>3
<1>3. faults \in 0..MaxFaults /\ (Fault => faults' \in 0..MaxFaults)
  BY DEF TypeOK, Fault, IdempotencyAssumption
<1>4. ASSUME NEW r \in Requests, NEW to \in Steps \ {"idle", "lookup"}, rpc[r] # "idle",
             rpc' = [rpc EXCEPT ![r] = to], to = "cache" => req[r].key # None, req' = req
      PROVE  Arrived' /\ rpc' \in [Requests -> Steps]
  BY <1>4 DEF Arrived, TypeOK
<1>5. ASSUME NEW r \in Requests,
             \/ Miss(r) \/ FailOpen(r) \/ RespondWithKeyMismatch(r) \/ Commit(r)
             \/ Duplicate(r) \/ HandlerFault(r) \/ CacheFails(r)
      PROVE  KeyedTypes'
  <2>1. /\ UNCHANGED <<req, cache, answer, expiries>> /\ faults' \in 0..MaxFaults
        /\ stored' \subseteq stored \cup {r} /\ rpc[r] # "idle"
    BY <1>3, <1>5 DEF Miss, FailOpen, RespondWithKeyMismatch, Commit, Duplicate,
                      HandlerFault, CacheFails, Goto
  <2>2. \E to \in {"commit", "mismatch", "finish", "duplicate", "error", "accepted"} :
           rpc' = [rpc EXCEPT ![r] = to]
    BY <1>5 DEF Miss, FailOpen, RespondWithKeyMismatch, Commit, Duplicate,
                HandlerFault, CacheFails, Goto
  <2>3. Arrived' /\ rpc' \in [Requests -> Steps]
    BY <1>4, <2>1, <2>2 DEF Steps, Answers
  <2> QED BY <2>1, <2>3 DEF TypeOK
<1>6. ASSUME NEW r \in Requests, Respond(r) PROVE KeyedTypes'
  <2>1. Arrived' /\ rpc' \in [Requests -> Steps]
    BY <1>4, <1>6 DEF Respond, Steps, Answers
  <2> QED BY <1>6, <2>1 DEF Respond, TypeOK
<1>7. ASSUME NEW r \in Requests, ReplayCachedEntry(r) PROVE KeyedTypes'
  <2>1. Arrived' /\ rpc' \in [Requests -> Steps]
    BY <1>4, <1>7 DEF ReplayCachedEntry, Goto, Steps, Answers
  <2>2. req[r] \in Asked /\ req[r].key \in Keys
    BY <1>7 DEF ReplayCachedEntry, Goto, TypeOK, Arrived, Asked
  <2>3. cache[req[r].key].from \in Requests \cup {Old}
    BY <1>7, <2>2 DEF ReplayCachedEntry, Hit, TypeOK, Entries
  <2> QED BY <1>7, <2>1, <2>3 DEF ReplayCachedEntry, TypeOK
<1>8. ASSUME NEW r \in Requests, Cache(r) PROVE KeyedTypes'
  <2>1. Arrived' /\ rpc' \in [Requests -> Steps]
    BY <1>4, <1>8 DEF Cache, Goto, Steps, Answers
  <2>2. req[r] \in Asked
    BY <1>8 DEF Cache, Goto, TypeOK, Arrived
  <2>3. [from |-> r, hash |-> req[r].body] \in Entries
    BY <2>2 DEF Asked, Entries
  <2> QED BY <1>8, <2>1, <2>3 DEF Cache, TypeOK
<1>9. ASSUME NEW k \in Keys, Expire(k) PROVE KeyedTypes'
  BY <1>9 DEF Expire, TypeOK, Arrived, IdempotencyAssumption
<1> QED
  BY <1>1, <1>2, <1>5, <1>6, <1>7, <1>8, <1>9 DEF Next, Progress

-----------------------------------------------------------------------------

\* The middleware, Redis and the unique index implement one effect per key:
\* however requests under a key interleave, entries expire and calls fail, the
\* key has one stored row and every success under it names that row.
THEOREM KeyedImplements ==
    ASSUME AllGuarded
    PROVE  Spec => ImplementsOncePerKey
<1>1. Init => KeyedInv
  BY KeyedInit
<1>2. KeyedInv /\ [Next]_vars => KeyedInv'
  BY KeyedNext
<1>3. KeyedInv => OwnerIsRow
  BY OwnerFacts
<1>4. Init => Abstract!Init
  BY KeyedStart
<1>5. KeyedInv /\ OwnerIsRow /\ OwnerIsRow' /\ [Next]_vars
        => [Abstract!Next]_(Abstract!vars)
  BY KeyedStep
<1> QED
  BY <1>1, <1>2, <1>3, <1>4, <1>5, PTL DEF Spec, ImplementsOncePerKey, Abstract!Spec

=============================================================================
