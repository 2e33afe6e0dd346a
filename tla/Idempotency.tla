---------------------------- MODULE Idempotency ----------------------------
(***************************************************************************)
(* The idempotency middleware in front of the write endpoints, its Redis   *)
(* store, and the partial unique index that stands behind it.  A request   *)
(* is a goroutine of some API replica: it looks its key up, runs the       *)
(* handler and caches a success, each of them one step, so that requests   *)
(* with one key interleave between any two of them.                        *)
(*                                                                         *)
(* A body is its fingerprint.  A response is the request whose handler     *)
(* produced it: a replay answers with another request's response.          *)
(***************************************************************************)
EXTENDS Naturals

CONSTANTS Requests,     \* requests that may arrive, retries included
          Keys,         \* Idempotency-Key header values
          Bodies,       \* request bodies, told apart by their fingerprints
          Endpoints,    \* method and path of the write endpoints
          Guarded,      \* the endpoints that store the key with their row
          Old,          \* a creation of a deployment without fingerprints
          None,
          MaxFaults,    \* failed calls of one behaviour
          MaxExpiries   \* entries that outlive their 24 h in one behaviour

Asked == [key : Keys \cup {None}, body : Bodies, endpoint : Endpoints]
Entries == [from : Requests \cup {Old}, hash : Bodies \cup {None}]

\* None is the nil pointer: no request, entry, key, body or answer.
IdempotencyAssumption ==
    /\ Guarded \subseteq Endpoints
    /\ Old \notin Requests
    /\ None \notin Requests \cup Keys \cup Bodies \cup {Old}
    /\ None \notin Asked /\ None \notin Entries /\ None \notin [key : Keys, body : Bodies]
    /\ MaxFaults \in Nat
    /\ MaxExpiries \in Nat

VARIABLES rpc,       \* [Requests -> Steps]
          req,       \* the request's key, body and endpoint, or None
          cache,     \* Redis: [Keys -> entry or None]
          stored,    \* requests whose handler committed its writes
          answer,    \* whose response a request was answered with, or None
          faults,    \* failures so far
          expiries   \* entries expired so far

vars == <<rpc, req, cache, stored, answer, faults, expiries>>

\* Between the steps a request is about to look its key up, to commit, to
\* finish its handler or to cache the response.  The rest are its answers:
\* "accepted" by its own handler, "replayed", "mismatch" (409), "rejected"
\* (413 or 400 before the store is touched), "duplicate" (the index refused
\* the row, 500) and "error" (any other failure of the handler, 409 or 500).
Answers == {"accepted", "replayed", "mismatch", "rejected", "duplicate", "error"}
Steps == {"idle", "lookup", "commit", "finish", "cache"} \cup Answers

TypeOK ==
    /\ rpc \in [Requests -> Steps]
    /\ req \in [Requests -> Asked \cup {None}]
    /\ cache \in [Keys -> Entries \cup {None}]
    /\ stored \subseteq Requests \cup {Old}
    /\ answer \in [Requests -> Requests \cup {Old, None}]
    /\ faults \in 0..MaxFaults
    /\ expiries \in 0..MaxExpiries

\* The key of the row that the earlier deployment left behind.
OldKey == CHOOSE k \in Keys : TRUE

\* An entry without a fingerprint may wait for its key in Redis, with its row.
Init ==
    /\ rpc = [r \in Requests |-> "idle"]
    /\ req = [r \in Requests |-> None]
    /\ \/ /\ stored = {}
          /\ cache = [k \in Keys |-> None]
       \/ /\ stored = {Old}
          /\ cache = [k \in Keys |-> IF k = OldKey THEN [from |-> Old, hash |-> None]
                                                   ELSE None]
    /\ answer = [r \in Requests |-> None]
    /\ faults = 0
    /\ expiries = 0

Fault ==
    /\ faults < MaxFaults
    /\ faults' = faults + 1

Goto(r, from, to) ==
    /\ rpc[r] = from
    /\ rpc' = [rpc EXCEPT ![r] = to]

-----------------------------------------------------------------------------

\* serveIdempotent up to store.Get: without a key the handler runs at once; a
\* body over the limit, or one that cannot be read, is refused.
Arrive(r, a) ==
    /\ \/ Goto(r, "idle", IF a.key = None THEN "commit" ELSE "lookup")
       \/ a.key # None /\ Goto(r, "idle", "rejected")
    /\ req' = [req EXCEPT ![r] = a]
    /\ UNCHANGED <<cache, stored, answer, faults, expiries>>

\* An entry without a fingerprint is replayed whatever the body.
RequestHashMismatched(e, body) == e.hash # None /\ e.hash # body

Hit(r) == cache[req[r].key] # None

Miss(r) ==
    /\ Goto(r, "lookup", "commit")
    /\ ~Hit(r)
    /\ UNCHANGED <<req, cache, stored, answer, faults, expiries>>

\* store.Get fails: the handler runs as if the key had not been seen.
FailOpen(r) ==
    /\ Goto(r, "lookup", "commit")
    /\ Fault
    /\ UNCHANGED <<req, cache, stored, answer, expiries>>

RespondWithKeyMismatch(r) ==
    /\ Goto(r, "lookup", "mismatch")
    /\ Hit(r)
    /\ RequestHashMismatched(cache[req[r].key], req[r].body)
    /\ UNCHANGED <<req, cache, stored, answer, faults, expiries>>

ReplayCachedEntry(r) ==
    /\ Goto(r, "lookup", "replayed")
    /\ Hit(r)
    /\ ~RequestHashMismatched(cache[req[r].key], req[r].body)
    /\ answer' = [answer EXCEPT ![r] = cache[req[r].key].from]
    /\ UNCHANGED <<req, cache, stored, faults, expiries>>

-----------------------------------------------------------------------------

KeyOf(q) == IF q = Old THEN OldKey ELSE req[q].key

\* Stored rows that carry a key: those of the guarded endpoints.
Keyed == {q \in stored : q = Old \/ (req[q].endpoint \in Guarded /\ req[q].key # None)}

\* Mutant: the index is not unique.
NeverTaken(r) == FALSE

\* idx_notifications_idempotency_key refuses a second row with r's key.
KeyTaken(r) ==
    /\ req[r].endpoint \in Guarded
    /\ req[r].key # None
    /\ \E q \in Keyed : KeyOf(q) = req[r].key

\* The handler's first write commits; until then a failure leaves no trace.
Commit(r) ==
    /\ Goto(r, "commit", "finish")
    /\ ~KeyTaken(r)
    /\ stored' = stored \cup {r}
    /\ UNCHANGED <<req, cache, answer, faults, expiries>>

\* The violation is no error WriteError knows: 500, and nothing is cached.
Duplicate(r) ==
    /\ Goto(r, "commit", "duplicate")
    /\ KeyTaken(r)
    /\ UNCHANGED <<req, cache, stored, answer, faults, expiries>>

\* The handler returns an error or panics, before its first write or after
\* it; a client that hangs up cancels the context of every call still to come.
HandlerFault(r) ==
    /\ \E from \in {"commit", "finish"} : Goto(r, from, "error")
    /\ Fault
    /\ UNCHANGED <<req, cache, stored, answer, expiries>>

\* The handler's 2xx goes through the capturing writer to the client.
Respond(r) ==
    /\ rpc[r] = "finish"
    /\ rpc' = [rpc EXCEPT ![r] = IF req[r].key = None THEN "accepted" ELSE "cache"]
    /\ answer' = [answer EXCEPT ![r] = r]
    /\ UNCHANGED <<req, cache, stored, faults, expiries>>

\* The tail of runAndCache, after the client has its answer.
Cache(r) ==
    /\ Goto(r, "cache", "accepted")
    /\ cache' = [cache EXCEPT ![req[r].key] = [from |-> r, hash |-> req[r].body]]
    /\ UNCHANGED <<req, stored, answer, faults, expiries>>

\* store.Set fails; the error is logged.
CacheFails(r) ==
    /\ Goto(r, "cache", "accepted")
    /\ Fault
    /\ UNCHANGED <<req, cache, stored, answer, expiries>>

\* Redis drops an entry at the end of its time to live.
Expire(k) ==
    /\ cache[k] # None
    /\ expiries < MaxExpiries
    /\ expiries' = expiries + 1
    /\ cache' = [cache EXCEPT ![k] = None]
    /\ UNCHANGED <<rpc, req, stored, answer, faults>>

-----------------------------------------------------------------------------

Progress(r) ==
    \/ Miss(r) \/ RespondWithKeyMismatch(r) \/ ReplayCachedEntry(r)
    \/ Commit(r) \/ Duplicate(r) \/ Respond(r) \/ Cache(r)

Next ==
    \/ \E r \in Requests :
          \/ \E a \in Asked : Arrive(r, a)
          \/ Progress(r)
          \/ FailOpen(r) \/ HandlerFault(r) \/ CacheFails(r)
    \/ \E k \in Keys : Expire(k)

\* A request that has arrived is a running goroutine.
Spec == Init /\ [][Next]_vars /\ \A r \in Requests : WF_vars(Progress(r))

-----------------------------------------------------------------------------

\* Creations implement the promise of OncePerKey: the stored row is the owner.
asked == [r \in Requests |-> IF req[r] = None \/ req[r].key = None THEN None
                             ELSE [key |-> req[r].key, body |-> req[r].body]]
owner == [k \in Keys |-> IF \E q \in Keyed : KeyOf(q) = k
                         THEN CHOOSE q \in Keyed : KeyOf(q) = k ELSE None]
reply == [r \in Requests |-> IF req[r] = None \/ req[r].key = None THEN None
                             ELSE answer[r]]

Abstract == INSTANCE OncePerKey WITH asked <- asked, owner <- owner, reply <- reply

\* A creation under a key is stored once, and every success under the key,
\* fresh or replayed, concurrent or after the entry expired, names that one
\* notification: Redis and the unique index together implement OncePerKey.
ImplementsOncePerKey == Abstract!Spec

-----------------------------------------------------------------------------

\* "Repeated requests with the same key within 24 hours return the cached
\* response": no two requests with one key and body both take effect.
KeyTakesEffectOnce ==
    \A q, r \in stored \ {Old} :
        (q # r /\ req[q] = req[r] /\ req[q].key # None) => expiries > 0

=============================================================================
