----------------------------- MODULE OncePerKey -----------------------------
(***************************************************************************)
(* What the idempotency layers promise of creations: a key has one owner,  *)
(* the request whose notification was stored under it, and whoever is told *)
(* of success under that key is told of the owner's notification, having   *)
(* asked for the same thing.  Nothing is promised about being told.        *)
(***************************************************************************)

CONSTANTS Requests, Keys, Bodies,
          Old,      \* stands for a creation of an earlier deployment
          None      \* no request, no entry, no answer

VARIABLES asked,    \* what each request asked for, and under which key
          owner,    \* [Keys -> Requests \cup {Old, None}]
          reply     \* whose notification a request was answered with

vars == <<asked, owner, reply>>

Asks == [key : Keys, body : Bodies]

Init ==
    /\ asked = [r \in Requests |-> None]
    /\ owner \in [Keys -> {Old, None}]
    /\ reply = [r \in Requests |-> None]

Ask(r, a) ==
    /\ asked[r] = None
    /\ asked' = [asked EXCEPT ![r] = a]
    /\ UNCHANGED <<owner, reply>>

Own(r) ==
    /\ asked[r] # None
    /\ owner[asked[r].key] = None
    /\ owner' = [owner EXCEPT ![asked[r].key] = r]
    /\ UNCHANGED <<asked, reply>>

\* The owner asked for the same body; of an old owner's body nothing is known.
Accept(r) ==
    /\ asked[r] # None
    /\ reply[r] = None
    /\ LET q == owner[asked[r].key] IN
           /\ q # None
           /\ q # Old => asked[q].body = asked[r].body
           /\ reply' = [reply EXCEPT ![r] = q]
    /\ UNCHANGED <<asked, owner>>

Next == \E r \in Requests : Own(r) \/ Accept(r) \/ \E a \in Asks : Ask(r, a)

Spec == Init /\ [][Next]_vars

=============================================================================
