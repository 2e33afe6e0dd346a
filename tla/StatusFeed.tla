----------------------------- MODULE StatusFeed -----------------------------
(***************************************************************************)
(* The live feed of one API instance: workers publish status updates to    *)
(* Redis, the consumer goroutine takes them one by one and broadcasts each *)
(* through the hub, connections subscribe and leave.  The hub's lock makes *)
(* Subscribe, Unsubscribe, UnsubscribeAll and the snapshot of Broadcast    *)
(* atomic; sends happen outside it.  The client gauge is left out: it is   *)
(* written and never read.                                                 *)
(*                                                                         *)
(* An update is its number in the order of publication, with the           *)
(* notification it is about.                                               *)
(***************************************************************************)
EXTENDS Naturals, Sequences

CONSTANTS Conns,         \* connections a client may open, each used once
          Notifs,
          Garbage,       \* a payload that does not decode, or names nothing
          MaxPublished,  \* updates of one behaviour
          Capacity       \* updates go-redis buffers for the consumer

StatusFeedAssumption ==
    /\ Garbage \notin Notifs
    /\ {MaxPublished, Capacity} \subseteq Nat \ {0}

VARIABLES published,    \* updates published so far
          buffer,       \* updates waiting for the consumer
          consumer,     \* "starting", "ready", "stopped"
          casting,      \* broadcasts under way: the update, who is left to send to
          subscribers,  \* [Notifs -> SUBSET Conns], the hub's first map
          clientSubs,   \* [Conns -> SUBSET Notifs], the hub's second map
          conn,         \* "new", "open", "stuck" (peer not reading), "closed"
                        \*   (a write failed, the reader lives), "gone"
          inbox,        \* what each client received
          late          \* updates received since the client last unsubscribed

hubVars == <<subscribers, clientSubs>>
vars == <<published, buffer, consumer, casting, hubVars, conn, inbox, late>>

Updates == [n : Notifs \cup {Garbage}, seq : 1..MaxPublished]

TypeOK ==
    /\ published \in 0..MaxPublished
    /\ buffer \in Seq(Updates) /\ Len(buffer) <= Capacity
    /\ consumer \in {"starting", "ready", "stopped"}
    /\ casting \subseteq [u : Updates, left : SUBSET Conns]
    /\ subscribers \in [Notifs -> SUBSET Conns]
    /\ clientSubs \in [Conns -> SUBSET Notifs]
    /\ conn \in [Conns -> {"new", "open", "stuck", "closed", "gone"}]
    /\ inbox \in [Conns -> Seq(Updates)]
    /\ late \in [Conns -> [Notifs -> Nat]]

Init ==
    /\ published = 0 /\ buffer = <<>> /\ consumer = "starting" /\ casting = {}
    /\ subscribers = [n \in Notifs |-> {}]
    /\ clientSubs = [c \in Conns |-> {}]
    /\ conn = [c \in Conns |-> "new"]
    /\ inbox = [c \in Conns |-> <<>>]
    /\ late = [c \in Conns |-> [n \in Notifs |-> 0]]

-----------------------------------------------------------------------------
(* Redis and the consumer *)

\* StatusBroadcaster.Publish.  Without a subscription the update is lost; when
\* the buffer stays full go-redis drops it.
Publish(n) ==
    /\ published < MaxPublished
    /\ published' = published + 1
    /\ buffer' = IF consumer = "ready" /\ Len(buffer) < Capacity
                 THEN Append(buffer, [n |-> n, seq |-> published + 1]) ELSE buffer
    /\ UNCHANGED <<consumer, casting, hubVars, conn, inbox, late>>

\* Redis confirms the subscription.
Ready ==
    /\ consumer = "starting"
    /\ consumer' = "ready"
    /\ UNCHANGED <<published, buffer, casting, hubVars, conn, inbox, late>>

\* Run returns: the context is cancelled, or the subscription cannot be made or
\* is closed.  Nothing runs it again.
Stop ==
    /\ consumer # "stopped"
    /\ casting = {}
    /\ consumer' = "stopped"
    /\ buffer' = <<>>
    /\ UNCHANGED <<published, casting, hubVars, conn, inbox, late>>

\* Mutant: each update is broadcast from a goroutine of its own.
FreeAnyway == consumer = "ready"

\* Run's loop calls dispatch and waits for it.
Free == consumer = "ready" /\ casting = {}

\* Consumer.dispatch drops what it cannot decode; Broadcast takes its snapshot
\* of the recipients under the read lock.
Dispatch ==
    /\ Free
    /\ buffer # <<>>
    /\ buffer' = Tail(buffer)
    /\ LET u == Head(buffer) IN
       casting' = IF u.n = Garbage \/ subscribers[u.n] = {} THEN casting
                  ELSE casting \cup {[u |-> u, left |-> subscribers[u.n]]}
    /\ UNCHANGED <<published, consumer, hubVars, conn, inbox, late>>

\* Broadcast b has sent to c, one way or the other.
Sent(b, c) ==
    casting' = (casting \ {b}) \cup
               IF b.left = {c} THEN {} ELSE {[b EXCEPT !.left = @ \ {c}]}

\* connClient.Send, to a connection the peer reads.
Send(b, c) ==
    /\ c \in b.left
    /\ conn[c] = "open"
    /\ Sent(b, c)
    /\ inbox' = [inbox EXCEPT ![c] = Append(@, b.u)]
    /\ late' = IF c \in subscribers[b.u.n] THEN late
               ELSE [late EXCEPT ![c][b.u.n] = @ + 1]
    /\ UNCHANGED <<published, buffer, consumer, hubVars, conn>>

-----------------------------------------------------------------------------
(* The hub *)

\* removeLocked for each of ns.
Removed(c, ns) ==
    /\ subscribers' = [n \in Notifs |-> IF n \in ns THEN subscribers[n] \ {c}
                                                   ELSE subscribers[n]]
    /\ clientSubs' = [clientSubs EXCEPT ![c] = @ \ ns]

UnsubscribeAll(c) == Removed(c, clientSubs[c])

\* Mutant: the first failed send ends the broadcast.
SendFailsAborts(b, c) ==
    /\ c \in b.left
    /\ conn[c] \in {"stuck", "closed", "gone"}
    /\ casting' = casting \ {b}
    /\ conn' = IF conn[c] = "stuck" THEN [conn EXCEPT ![c] = "closed"] ELSE conn
    /\ UnsubscribeAll(c)
    /\ UNCHANGED <<published, buffer, consumer, inbox, late>>

\* The write times out after 5 s or fails, or the client is marked closed: the
\* client loses all its subscriptions, while its reader may live on.
SendFails(b, c) ==
    /\ c \in b.left
    /\ conn[c] \in {"stuck", "closed", "gone"}
    /\ Sent(b, c)
    /\ conn' = IF conn[c] = "stuck" THEN [conn EXCEPT ![c] = "closed"] ELSE conn
    /\ UnsubscribeAll(c)
    /\ UNCHANGED <<published, buffer, consumer, inbox, late>>

-----------------------------------------------------------------------------
(* A connection's reader goroutine *)

Reading(c) == conn[c] \in {"open", "stuck", "closed"}

Accept(c) ==
    /\ conn[c] = "new"
    /\ conn' = [conn EXCEPT ![c] = "open"]
    /\ UNCHANGED <<published, buffer, consumer, casting, hubVars, inbox, late>>

Subscribe(c, n) ==
    /\ Reading(c)
    /\ subscribers' = [subscribers EXCEPT ![n] = @ \cup {c}]
    /\ clientSubs' = [clientSubs EXCEPT ![c] = @ \cup {n}]
    /\ late' = [late EXCEPT ![c][n] = 0]
    /\ UNCHANGED <<published, buffer, consumer, casting, conn, inbox>>

Unsubscribe(c, n) ==
    /\ Reading(c)
    /\ Removed(c, {n})
    /\ late' = [late EXCEPT ![c][n] = 0]
    /\ UNCHANGED <<published, buffer, consumer, casting, conn, inbox>>

\* Mutant: the connection is closed and its subscriptions are left behind.
DisconnectLeaks(c) ==
    /\ Reading(c)
    /\ conn' = [conn EXCEPT ![c] = "gone"]
    /\ UNCHANGED <<published, buffer, consumer, casting, hubVars, inbox, late>>

\* The read fails and ServeHTTP returns through its deferred function.
Disconnect(c) ==
    /\ Reading(c)
    /\ conn' = [conn EXCEPT ![c] = "gone"]
    /\ UnsubscribeAll(c)
    /\ UNCHANGED <<published, buffer, consumer, casting, inbox, late>>

\* The peer stops reading and the connection's buffers fill up.
Hang(c) ==
    /\ conn[c] = "open"
    /\ conn' = [conn EXCEPT ![c] = "stuck"]
    /\ UNCHANGED <<published, buffer, consumer, casting, hubVars, inbox, late>>

-----------------------------------------------------------------------------

Casts == \E b \in casting : \E c \in b.left : Send(b, c) \/ SendFails(b, c)

Next ==
    \/ \E n \in Notifs \cup {Garbage} : Publish(n)
    \/ Ready \/ Stop \/ Dispatch \/ Casts
    \/ \E c \in Conns : Accept(c) \/ Disconnect(c) \/ Hang(c)
    \/ \E c \in Conns, n \in Notifs : Subscribe(c, n) \/ Unsubscribe(c, n)

\* The goroutines run; the write timeout ends a send to a stuck peer.
Fairness == WF_vars(Dispatch) /\ WF_vars(Casts)

Spec == Init /\ [][Next]_vars /\ Fairness

-----------------------------------------------------------------------------

\* The hub's two maps are each other's inverse, through failed sends that race
\* the reader's own calls, and neither holds a connection that is gone.
IndexesAgree ==
    /\ \A c \in Conns, n \in Notifs : (c \in subscribers[n]) <=> (n \in clientSubs[c])
    /\ \A c \in Conns : conn[c] \in {"new", "gone"} => clientSubs[c] = {}

\* A client receives updates in the order of publication, none of them twice.
InOrder ==
    \A c \in Conns : \A i, j \in 1..Len(inbox[c]) :
        i < j => inbox[c][i].seq < inbox[c][j].seq

\* Broadcast sends to a snapshot, so a client that has unsubscribed may still
\* receive the update being broadcast, and no more than that one.
AtMostOneLate == \A c \in Conns, n \in Notifs : late[c][n] <= 1

\* An update in the consumer's hands reaches every client that is subscribed
\* and reading, whatever other clients do, unless the client leaves or hangs or
\* the consumer stops.
Hears(c) ==
    \A n \in Notifs, s \in 1..MaxPublished :
        (/\ \E i \in 1..Len(buffer) : buffer[i] = [n |-> n, seq |-> s]
         /\ n \in clientSubs[c] /\ conn[c] = "open")
        ~> (\/ \E i \in 1..Len(inbox[c]) : inbox[c][i].seq = s
            \/ n \notin clientSubs[c] \/ conn[c] # "open" \/ consumer = "stopped")
SubscriberHears == \A c \in Conns : Hears(c)

=============================================================================
