-------------------------- MODULE StatusFeedProofs --------------------------
(***************************************************************************)
(* The status feed keeps its promises for any number of connections,       *)
(* notifications and updates.                                              *)
(*                                                                         *)
(* Order and lateness both rest on the consumer's loop, which waits for a  *)
(* broadcast before it takes the next update: at most one is under way,    *)
(* and it is older than everything that waits in the buffer and newer than *)
(* everything its remaining recipients have received.                      *)
(***************************************************************************)
EXTENDS StatusFeed, TLAPS

\* Run waits for dispatch, and dispatch drops what names no notification.
OneBroadcast ==
    /\ \A b1, b2 \in casting : b1 = b2
    /\ \A b \in casting : b.u.n \in Notifs

\* Redis hands the updates to the consumer in the order of publication.
BufferOrdered ==
    /\ \A i \in 1..Len(buffer) : buffer[i].seq <= published
    /\ \A i, j \in 1..Len(buffer) : i < j => buffer[i].seq < buffer[j].seq

\* The broadcast under way is older than the updates that wait.
CastBeforeBuffer ==
    \A b \in casting :
        /\ b.u.seq <= published
        /\ \A i \in 1..Len(buffer) : b.u.seq < buffer[i].seq

\* What a client has received is older than the updates that wait, and than
\* the one a broadcast is still to send it.
InboxBefore ==
    \A c \in Conns : \A k \in 1..Len(inbox[c]) :
        /\ inbox[c][k].seq <= published
        /\ \A i \in 1..Len(buffer) : inbox[c][k].seq < buffer[i].seq
        /\ \A b \in casting : c \in b.left => inbox[c][k].seq < b.u.seq

\* A client that has had its late update is neither subscribed nor on the list
\* of a broadcast about that notification.
LateOnce ==
    \A c \in Conns, n \in Notifs :
        /\ late[c][n] <= 1
        /\ late[c][n] = 1 =>
             /\ c \notin subscribers[n]
             /\ \A b \in casting : b.u.n = n => c \notin b.left

FeedInv ==
    /\ TypeOK /\ IndexesAgree
    /\ OneBroadcast /\ BufferOrdered /\ CastBeforeBuffer /\ InboxBefore /\ InOrder
    /\ LateOnce

-----------------------------------------------------------------------------
(* Sequences *)

\* Appending an update keeps what was there and puts it last.
LEMMA AppendFacts ==
    ASSUME NEW S, NEW s \in Seq(S), NEW e \in S
    PROVE  /\ Append(s, e) \in Seq(S)
           /\ Len(s) \in Nat
           /\ Len(Append(s, e)) = Len(s) + 1
           /\ \A i \in 1..Len(s) : Append(s, e)[i] = s[i]
           /\ Append(s, e)[Len(s) + 1] = e
  OBVIOUS

\* Taking the first update of the buffer moves every other one up.
LEMMA TailFacts ==
    ASSUME NEW S, NEW s \in Seq(S), s # <<>>
    PROVE  /\ Tail(s) \in Seq(S)
           /\ Len(s) \in Nat \ {0}
           /\ Len(Tail(s)) = Len(s) - 1
           /\ \A i \in 1..Len(Tail(s)) : Tail(s)[i] = s[i + 1]
           /\ Head(s) \in S /\ Head(s) = s[1]
  OBVIOUS
-----------------------------------------------------------------------------
(* The broadcast under way *)

\* Sent leaves the broadcast with one recipient fewer, or ends it.
LEMMA SentFacts ==
    ASSUME TypeOK, OneBroadcast, NEW b \in casting, NEW c \in b.left, Sent(b, c)
    PROVE  /\ c \in Conns
           /\ b.u \in Updates /\ b.u.n \in Notifs
           /\ casting' \subseteq [u : Updates, left : SUBSET Conns]
           /\ \A b2 \in casting' : b2.u = b.u /\ b2.left = b.left \ {c}
           /\ OneBroadcast'
<1>1. b \in [u : Updates, left : SUBSET Conns]
  BY DEF TypeOK
<1>2. casting = {b}
  BY DEF OneBroadcast
<1> DEFINE rest == [b EXCEPT !.left = @ \ {c}]
<1>3. /\ rest \in [u : Updates, left : SUBSET Conns]
      /\ rest.u = b.u /\ rest.left = b.left \ {c}
  BY <1>1
<1>4. casting' \subseteq {rest}
  BY <1>2 DEF Sent
<1>5. b.u \in Updates /\ b.u.n \in Notifs /\ c \in Conns
  BY <1>1 DEF OneBroadcast
<1>6. /\ casting' \subseteq [u : Updates, left : SUBSET Conns]
      /\ \A b2 \in casting' : b2.u = b.u /\ b2.left = b.left \ {c}
      /\ \A b1, b2 \in casting' : b1 = b2
  <2> HIDE DEF rest
  <2> QED BY <1>3, <1>4
<1> QED
  BY <1>5, <1>6 DEF OneBroadcast

\* Dispatch takes the head of the buffer, and starts a broadcast to whoever is
\* subscribed to it at that moment.
LEMMA DispatchFacts ==
    ASSUME StatusFeedAssumption, TypeOK, Dispatch
    PROVE  /\ casting = {}
           /\ buffer # <<>> /\ buffer' = Tail(buffer)
           /\ casting' \subseteq [u : Updates, left : SUBSET Conns]
           /\ \A b \in casting' : /\ b.u = Head(buffer) /\ b.u.n \in Notifs
                                  /\ b.left = subscribers[b.u.n]
           /\ OneBroadcast'
<1> DEFINE u == Head(buffer)
           b == [u |-> u, left |-> subscribers[u.n]]
<1>1. /\ casting = {} /\ buffer # <<>> /\ buffer' = Tail(buffer)
      /\ casting' = IF u.n = Garbage \/ subscribers[u.n] = {} THEN {} ELSE {b}
  BY DEF Dispatch, Free
<1>2. u \in Updates
  BY <1>1, TailFacts DEF TypeOK
<1>3. u.n \in Notifs \cup {Garbage}
  BY <1>2 DEF Updates
<1> HIDE DEF u
<1>4. CASE u.n = Garbage \/ subscribers[u.n] = {}
  BY <1>1, <1>4 DEF OneBroadcast, u
<1>5. CASE ~(u.n = Garbage \/ subscribers[u.n] = {})
  <2>1. casting' = {b}
    BY <1>1, <1>5
  <2>2. u.n \in Notifs
    BY <1>3, <1>5
  <2>3. b \in [u : Updates, left : SUBSET Conns]
    BY <1>2, <2>2 DEF TypeOK
  <2>4. b.u = u /\ b.left = subscribers[b.u.n] /\ b.u.n \in Notifs
    BY <2>2
  <2>5. \A b2 \in casting' : /\ b2.u = u /\ b2.u.n \in Notifs
                             /\ b2.left = subscribers[b2.u.n]
    BY <2>1, <2>4
  <2> QED
    BY <1>1, <2>1, <2>3, <2>5 DEF OneBroadcast, u
<1> QED
  BY <1>4, <1>5
-----------------------------------------------------------------------------
(* Types *)

\* The state stays well formed; at most one broadcast is under way.
LEMMA FeedTypeNext ==
    ASSUME StatusFeedAssumption, TypeOK, OneBroadcast, [Next]_vars
    PROVE  TypeOK' /\ OneBroadcast'
<1> USE DEF TypeOK, OneBroadcast
<1>1. CASE UNCHANGED vars
  BY <1>1 DEF vars, hubVars
<1>2. ASSUME NEW n \in Notifs \cup {Garbage}, Publish(n)
      PROVE  TypeOK' /\ OneBroadcast'
  <2>1. published' \in 0..MaxPublished
    BY <1>2 DEF Publish, StatusFeedAssumption
  <2>2. [n |-> n, seq |-> published + 1] \in Updates
    BY <1>2 DEF Publish, Updates, StatusFeedAssumption
  <2>3. buffer' \in Seq(Updates) /\ Len(buffer') <= Capacity
    <3>1. CASE consumer = "ready" /\ Len(buffer) < Capacity
      BY <1>2, <2>2, <3>1, AppendFacts DEF Publish, StatusFeedAssumption
    <3>2. CASE ~(consumer = "ready" /\ Len(buffer) < Capacity)
      BY <1>2, <3>2 DEF Publish
    <3> QED BY <3>1, <3>2
  <2> QED
    BY <1>2, <2>1, <2>3 DEF Publish, hubVars
<1>3. CASE Ready
  BY <1>3 DEF Ready, hubVars
<1>4. CASE Stop
  BY <1>4 DEF Stop, hubVars, StatusFeedAssumption
<1>5. CASE Dispatch
  <2>1. buffer' \in Seq(Updates) /\ Len(buffer') <= Capacity
    <3>1. buffer # <<>> /\ buffer' = Tail(buffer)
      BY <1>5, DispatchFacts
    <3>2. buffer \in Seq(Updates) /\ Len(buffer) <= Capacity /\ Capacity \in Nat
      BY DEF StatusFeedAssumption
    <3> HIDE DEF TypeOK, OneBroadcast
    <3> QED BY <3>1, <3>2, TailFacts
  <2> QED
    BY <1>5, <2>1, DispatchFacts DEF Dispatch, hubVars
<1>6. ASSUME NEW b \in casting, NEW c \in b.left, Send(b, c)
      PROVE  TypeOK' /\ OneBroadcast'
  <2>1. Sent(b, c)
    BY <1>6 DEF Send
  <2>2. c \in Conns /\ b.u \in Updates /\ b.u.n \in Notifs
    BY <2>1, SentFacts
  <2>3. inbox' \in [Conns -> Seq(Updates)]
    <3>1. Append(inbox[c], b.u) \in Seq(Updates)
      BY <2>2
    <3> QED BY <1>6, <2>2, <3>1 DEF Send
  <2>4. late' \in [Conns -> [Notifs -> Nat]]
    <3> DEFINE m == b.u.n
    <3>1. m \in Notifs
      BY <2>2
    <3>2. late' = late \/ late' = [late EXCEPT ![c][m] = @ + 1]
      BY <1>6 DEF Send
    <3>3. late \in [Conns -> [Notifs -> Nat]]
      OBVIOUS
    <3> HIDE DEF m, TypeOK, OneBroadcast
    <3>4. [late[c] EXCEPT ![m] = @ + 1] \in [Notifs -> Nat]
      BY <2>2, <3>1, <3>3
    <3> QED BY <2>2, <3>2, <3>3, <3>4
  <2> QED
    BY <1>6, <2>1, <2>3, <2>4, SentFacts DEF Send, hubVars
<1>7. ASSUME NEW b \in casting, NEW c \in b.left, SendFails(b, c)
      PROVE  TypeOK' /\ OneBroadcast'
  <2>1. Sent(b, c)
    BY <1>7 DEF SendFails
  <2>2. c \in Conns
    BY <2>1, SentFacts
  <2> QED
    BY <1>7, <2>1, <2>2, SentFacts DEF SendFails, UnsubscribeAll, Removed
<1>8. ASSUME NEW c \in Conns, Accept(c) PROVE TypeOK' /\ OneBroadcast'
  BY <1>8 DEF Accept, hubVars
<1>9. ASSUME NEW c \in Conns, Disconnect(c) PROVE TypeOK' /\ OneBroadcast'
  BY <1>9 DEF Disconnect, UnsubscribeAll, Removed
<1>10. ASSUME NEW c \in Conns, Hang(c) PROVE TypeOK' /\ OneBroadcast'
  BY <1>10 DEF Hang, hubVars
<1>11. ASSUME NEW c \in Conns, NEW n \in Notifs, Subscribe(c, n)
       PROVE  TypeOK' /\ OneBroadcast'
  BY <1>11 DEF Subscribe
<1>12. ASSUME NEW c \in Conns, NEW n \in Notifs, Unsubscribe(c, n)
       PROVE  TypeOK' /\ OneBroadcast'
  BY <1>12 DEF Unsubscribe, Removed
<1> QED
  BY <1>1, <1>2, <1>3, <1>4, <1>5, <1>6, <1>7, <1>8, <1>9, <1>10, <1>11, <1>12
     DEF Next, Casts

-----------------------------------------------------------------------------
(* The hub's two maps *)

\* removeLocked takes the client out of both maps, for the same notifications.
LEMMA RemovedAgrees ==
    ASSUME TypeOK, IndexesAgree, NEW c \in Conns, NEW ns \in SUBSET Notifs,
           Removed(c, ns)
    PROVE  /\ \A d \in Conns, n \in Notifs :
                 (d \in subscribers'[n]) <=> (n \in clientSubs'[d])
           /\ \A d \in Conns : d # c => clientSubs'[d] = clientSubs[d]
           /\ clientSubs'[c] = clientSubs[c] \ ns
           /\ \A n \in Notifs : subscribers'[n] \subseteq subscribers[n]
<1>1. /\ \A n \in Notifs : subscribers'[n] = IF n \in ns THEN subscribers[n] \ {c}
                                                         ELSE subscribers[n]
      /\ clientSubs'[c] = clientSubs[c] \ ns
      /\ \A d \in Conns : d # c => clientSubs'[d] = clientSubs[d]
  BY DEF TypeOK, Removed
<1> QED
  BY <1>1, ZenonT(60) DEF IndexesAgree

\* Every call of the hub keeps its two maps each other's inverse.
LEMMA IndexesNext ==
    ASSUME TypeOK, OneBroadcast, IndexesAgree, [Next]_vars
    PROVE  IndexesAgree'
<1>1. CASE UNCHANGED <<hubVars, conn>>
  BY <1>1 DEF IndexesAgree, hubVars
<1>2. ASSUME NEW b \in casting, NEW c \in b.left, SendFails(b, c)
      PROVE  IndexesAgree'
  <2>1. c \in Conns
    BY <1>2, SentFacts DEF SendFails
  <2>2. Removed(c, clientSubs[c]) /\ clientSubs[c] \in SUBSET Notifs
    BY <1>2, <2>1 DEF SendFails, UnsubscribeAll, TypeOK
  <2>3. \A d \in Conns : conn'[d] \in {"new", "gone"} => conn[d] = conn'[d]
    BY <1>2, <2>1 DEF SendFails, TypeOK
  <2> QED
    BY <2>1, <2>2, <2>3, RemovedAgrees DEF IndexesAgree
<1>3. ASSUME NEW c \in Conns, Accept(c) PROVE IndexesAgree'
  BY <1>3 DEF Accept, IndexesAgree, TypeOK, hubVars
<1>4. ASSUME NEW c \in Conns, Disconnect(c) PROVE IndexesAgree'
  <2>1. Removed(c, clientSubs[c]) /\ clientSubs[c] \in SUBSET Notifs
    BY <1>4 DEF Disconnect, UnsubscribeAll, TypeOK
  <2>2. \A d \in Conns : d # c => conn'[d] = conn[d]
    BY <1>4 DEF Disconnect, TypeOK
  <2> QED
    BY <2>1, <2>2, RemovedAgrees DEF IndexesAgree
<1>5. ASSUME NEW c \in Conns, Hang(c) PROVE IndexesAgree'
  BY <1>5 DEF Hang, IndexesAgree, TypeOK, hubVars
<1>6. ASSUME NEW c \in Conns, NEW n \in Notifs, Subscribe(c, n)
      PROVE  IndexesAgree'
  BY <1>6 DEF Subscribe, Reading, IndexesAgree, TypeOK
<1>7. ASSUME NEW c \in Conns, NEW n \in Notifs, Unsubscribe(c, n)
      PROVE  IndexesAgree'
  <2>1. Removed(c, {n}) /\ conn' = conn
    BY <1>7 DEF Unsubscribe
  <2> QED
    BY <2>1, RemovedAgrees DEF IndexesAgree
<1> QED
  BY <1>1, <1>2, <1>3, <1>4, <1>5, <1>6, <1>7
     DEF Next, Casts, vars, Publish, Ready, Stop, Dispatch, Send
-----------------------------------------------------------------------------
(* Order *)

Order == BufferOrdered /\ CastBeforeBuffer /\ InboxBefore /\ InOrder

\* Updates keep the order of publication from the buffer through the broadcast
\* to every client.
LEMMA OrderNext ==
    ASSUME StatusFeedAssumption, TypeOK, OneBroadcast, Order, [Next]_vars
    PROVE  Order'
<1>0. /\ published \in Nat /\ Len(buffer) \in Nat
      /\ \A i \in 1..Len(buffer) : buffer[i].seq \in Nat
      /\ \A b \in casting : b.u.seq \in Nat
      /\ \A c \in Conns : /\ Len(inbox[c]) \in Nat
                          /\ \A k \in 1..Len(inbox[c]) : inbox[c][k].seq \in Nat
  <2>1. \A u \in Updates : u.seq \in Nat
    BY DEF Updates, StatusFeedAssumption
  <2>2. buffer \in Seq(Updates) /\ inbox \in [Conns -> Seq(Updates)]
    BY DEF TypeOK
  <2>3. \A b \in casting : b.u \in Updates
    BY DEF TypeOK
  <2>4. published \in Nat
    BY DEF TypeOK, StatusFeedAssumption
  <2> QED BY <2>1, <2>2, <2>3, <2>4
<1>1. CASE UNCHANGED <<published, buffer, casting, inbox>>
  BY <1>1 DEF Order, BufferOrdered, CastBeforeBuffer, InboxBefore, InOrder
<1>2. ASSUME NEW n \in Notifs \cup {Garbage}, Publish(n) PROVE Order'
  <2> DEFINE u == [n |-> n, seq |-> published + 1]
  <2>1. /\ published' = published + 1
        /\ buffer' = buffer \/ buffer' = Append(buffer, u)
        /\ casting' = casting /\ inbox' = inbox
    BY <1>2 DEF Publish
  <2>2. CASE buffer' = buffer
    <3>1. published' = published + 1 /\ UNCHANGED <<buffer, casting, inbox>>
      BY <2>1, <2>2
    <3>2. BufferOrdered'
      BY <1>0, <3>1 DEF Order, BufferOrdered
    <3>3. CastBeforeBuffer'
      BY <1>0, <3>1 DEF Order, CastBeforeBuffer
    <3>4. InboxBefore' /\ InOrder'
      BY <1>0, <3>1 DEF Order, InboxBefore, InOrder
    <3> QED BY <3>2, <3>3, <3>4 DEF Order
  <2>3. CASE buffer' = Append(buffer, u)
    <3>1. u \in Updates /\ u.seq = published + 1
      BY <1>2 DEF Publish, Updates, TypeOK, StatusFeedAssumption
    <3>2. buffer \in Seq(Updates)
      BY DEF TypeOK
    <3> HIDE DEF u
    <3>3. /\ Len(buffer') = Len(buffer) + 1
          /\ \A i \in 1..Len(buffer) : buffer'[i] = buffer[i]
          /\ buffer'[Len(buffer) + 1].seq = published + 1
      BY <2>3, <3>1, <3>2, AppendFacts
    <3>4. \A i \in 1..Len(buffer') :
             \/ i \in 1..Len(buffer) /\ buffer'[i].seq = buffer[i].seq
             \/ i = Len(buffer) + 1 /\ buffer'[i].seq = published + 1
      BY <1>0, <3>3
    <3>5. BufferOrdered'
      <4>1. ASSUME NEW i \in 1..Len(buffer') PROVE buffer'[i].seq <= published'
        BY <1>0, <2>1, <3>4 DEF Order, BufferOrdered
      <4>2. ASSUME NEW i \in 1..Len(buffer'), NEW j \in 1..Len(buffer'), i < j
            PROVE  buffer'[i].seq < buffer'[j].seq
        <5>1. i \in 1..Len(buffer) /\ buffer'[i].seq = buffer[i].seq
          BY <1>0, <3>3, <3>4, <4>2
        <5>2. buffer[i].seq <= published /\ buffer[i].seq \in Nat
          BY <1>0, <5>1 DEF Order, BufferOrdered
        <5> QED
          BY <1>0, <3>4, <4>2, <5>1, <5>2 DEF Order, BufferOrdered
      <4> QED BY <4>1, <4>2 DEF BufferOrdered
    <3>6. CastBeforeBuffer'
      BY <1>0, <2>1, <3>4 DEF Order, CastBeforeBuffer
    <3>7. InboxBefore'
      BY <1>0, <2>1, <3>4, SMTT(20) DEF Order, InboxBefore
    <3> QED
      BY <2>1, <3>5, <3>6, <3>7 DEF Order, InOrder
  <2> QED BY <2>1, <2>2, <2>3
<1>3. CASE Stop
  <2>1. Len(buffer') = 0 /\ published' = published /\ casting' = casting
        /\ inbox' = inbox
    BY <1>3 DEF Stop
  <2> QED
    BY <2>1 DEF Order, BufferOrdered, CastBeforeBuffer, InboxBefore, InOrder
<1>4. CASE Dispatch
  <2>1. /\ published' = published /\ inbox' = inbox
        /\ \A b \in casting' : b.u = Head(buffer)
    BY <1>4, DispatchFacts DEF Dispatch
  <2>2. buffer \in Seq(Updates) /\ buffer # <<>> /\ buffer' = Tail(buffer)
    BY <1>4, DispatchFacts DEF TypeOK
  <2>3. /\ Len(buffer) \in Nat \ {0} /\ Len(buffer') = Len(buffer) - 1
        /\ \A i \in 1..Len(buffer') : buffer'[i] = buffer[i + 1]
        /\ \A b \in casting' : b.u = buffer[1]
    BY <2>1, <2>2, TailFacts
  <2>4. \A i \in 1..Len(buffer') : i + 1 \in 1..Len(buffer) /\ 1 \in 1..Len(buffer)
    BY <2>3
  <2>5. BufferOrdered'
    <3>1. ASSUME NEW i \in 1..Len(buffer') PROVE buffer'[i].seq <= published'
      BY <2>1, <2>3, <2>4 DEF Order, BufferOrdered
    <3>2. ASSUME NEW i \in 1..Len(buffer'), NEW j \in 1..Len(buffer'), i < j
          PROVE  buffer'[i].seq < buffer'[j].seq
      <4>1. i + 1 \in 1..Len(buffer) /\ j + 1 \in 1..Len(buffer) /\ i + 1 < j + 1
        BY <2>4, <3>2
      <4>2. buffer[i + 1].seq < buffer[j + 1].seq
        BY <4>1 DEF Order, BufferOrdered
      <4> QED BY <2>3, <4>2
    <3> QED BY <3>1, <3>2 DEF BufferOrdered
  <2>6. CastBeforeBuffer'
    <3>1. ASSUME NEW b \in casting', NEW i \in 1..Len(buffer')
          PROVE  b.u.seq < buffer'[i].seq
      <4>1. 1 \in 1..Len(buffer) /\ i + 1 \in 1..Len(buffer) /\ 1 < i + 1
        BY <2>4
      <4>2. buffer[1].seq < buffer[i + 1].seq
        BY <4>1 DEF Order, BufferOrdered
      <4> QED BY <2>3, <4>2
    <3>2. 1 \in 1..Len(buffer)
      BY <2>3
    <3>3. ASSUME NEW b \in casting' PROVE b.u.seq <= published'
      BY <2>1, <2>3, <3>2 DEF Order, BufferOrdered
    <3> QED BY <3>1, <3>3 DEF CastBeforeBuffer
  <2>7. InboxBefore'
    <3>1. 1 \in 1..Len(buffer)
      BY <2>3
    <3>2. ASSUME NEW c \in Conns, NEW k \in 1..Len(inbox'[c])
          PROVE  /\ inbox'[c][k].seq <= published'
                 /\ \A i \in 1..Len(buffer') : inbox'[c][k].seq < buffer'[i].seq
                 /\ \A b \in casting' : inbox'[c][k].seq < b.u.seq
      <4>1. /\ inbox[c][k].seq <= published
            /\ \A i \in 1..Len(buffer) : inbox[c][k].seq < buffer[i].seq
        BY <2>1, <3>2 DEF Order, InboxBefore
      <4> QED BY <2>1, <2>3, <2>4, <3>1, <4>1
    <3> QED BY <3>2 DEF InboxBefore
  <2> QED
    BY <2>1, <2>5, <2>6, <2>7 DEF Order, InOrder
<1>5. ASSUME NEW b \in casting, NEW c \in b.left, Send(b, c) PROVE Order'
  <2>1. /\ c \in Conns /\ b.u \in Updates
        /\ \A b2 \in casting' : b2.u = b.u /\ b2.left = b.left \ {c}
        /\ published' = published /\ buffer' = buffer
        /\ inbox' = [inbox EXCEPT ![c] = Append(@, b.u)]
    BY <1>5, SentFacts DEF Send
  <2>2. inbox \in [Conns -> Seq(Updates)]
    BY DEF TypeOK
  <2>3. \A d \in Conns : d # c => inbox'[d] = inbox[d]
    BY <2>1, <2>2
  <2>4. inbox'[c] = Append(inbox[c], b.u)
    BY <2>1, <2>2
  <2>5. /\ Len(inbox'[c]) = Len(inbox[c]) + 1
        /\ \A k \in 1..Len(inbox[c]) : inbox'[c][k] = inbox[c][k]
        /\ inbox'[c][Len(inbox[c]) + 1] = b.u
    BY <2>1, <2>2, <2>4, AppendFacts
  <2>6. \A k \in 1..Len(inbox'[c]) :
           \/ k \in 1..Len(inbox[c]) /\ inbox'[c][k] = inbox[c][k]
           \/ k = Len(inbox[c]) + 1 /\ inbox'[c][k] = b.u
    BY <1>0, <2>1, <2>5
  <2>7. BufferOrdered' /\ CastBeforeBuffer'
    BY <2>1 DEF Order, BufferOrdered, CastBeforeBuffer
  <2>8. \A k \in 1..Len(inbox[c]) : inbox[c][k].seq < b.u.seq
    BY <2>1 DEF Order, InboxBefore
  <2>9. InboxBefore'
    <3>1. ASSUME NEW d \in Conns, NEW k \in 1..Len(inbox'[d])
          PROVE  /\ inbox'[d][k].seq <= published'
                 /\ \A i \in 1..Len(buffer') : inbox'[d][k].seq < buffer'[i].seq
                 /\ \A b2 \in casting' : d \in b2.left => inbox'[d][k].seq < b2.u.seq
      <4>1. CASE d = c
        BY <2>1, <2>6, <3>1, <4>1 DEF Order, InboxBefore, CastBeforeBuffer
      <4>2. CASE d # c
        BY <2>1, <2>3, <3>1, <4>2 DEF Order, InboxBefore
      <4> QED BY <4>1, <4>2
    <3> QED BY <3>1 DEF InboxBefore
  <2>10. InOrder'
    <3>1. ASSUME NEW d \in Conns, NEW i \in 1..Len(inbox'[d]),
                 NEW j \in 1..Len(inbox'[d]), i < j
          PROVE  inbox'[d][i].seq < inbox'[d][j].seq
      <4>1. CASE d = c
        <5>1. i \in 1..Len(inbox[c]) /\ inbox'[c][i] = inbox[c][i]
          BY <1>0, <2>1, <2>5, <2>6, <3>1, <4>1
        <5> QED
          BY <2>1, <2>6, <2>8, <3>1, <4>1, <5>1 DEF Order, InOrder
      <4>2. CASE d # c
        BY <2>3, <3>1, <4>2 DEF Order, InOrder
      <4> QED BY <4>1, <4>2
    <3> QED BY <3>1 DEF InOrder
  <2> QED BY <2>7, <2>9, <2>10 DEF Order
<1>6. ASSUME NEW b \in casting, NEW c \in b.left, SendFails(b, c) PROVE Order'
  <2>1. /\ \A b2 \in casting' : b2.u = b.u /\ b2.left = b.left \ {c}
        /\ published' = published /\ buffer' = buffer /\ inbox' = inbox
    BY <1>6, SentFacts DEF SendFails
  <2> QED
    BY <2>1 DEF Order, BufferOrdered, CastBeforeBuffer, InboxBefore, InOrder
<1> QED
  BY <1>1, <1>2, <1>3, <1>4, <1>5, <1>6
     DEF Next, Casts, vars, Ready, Accept, Disconnect, Hang, Subscribe, Unsubscribe

-----------------------------------------------------------------------------
(* Late updates *)

\* A client off the list of the broadcast and out of the map gets nothing.
LEMMA LateNext ==
    ASSUME StatusFeedAssumption, TypeOK, IndexesAgree, OneBroadcast, LateOnce,
           [Next]_vars
    PROVE  LateOnce'
<1>0. late \in [Conns -> [Notifs -> Nat]] /\ subscribers \in [Notifs -> SUBSET Conns]
  BY DEF TypeOK
<1>1. CASE UNCHANGED <<casting, subscribers, late>>
  BY <1>1 DEF LateOnce
<1>2. CASE Dispatch
  <2>1. \A b \in casting' : b.left = subscribers[b.u.n]
    BY <1>2, DispatchFacts
  <2>2. UNCHANGED <<subscribers, late>>
    BY <1>2 DEF Dispatch, hubVars
  <2> QED BY <2>1, <2>2 DEF LateOnce
<1>3. ASSUME NEW b \in casting, NEW c \in b.left, Send(b, c) PROVE LateOnce'
  <2> DEFINE m == b.u.n
  <2>1. /\ c \in Conns /\ m \in Notifs
        /\ \A b2 \in casting' : b2.u = b.u /\ b2.left = b.left \ {c}
        /\ subscribers' = subscribers
    BY <1>3, SentFacts DEF Send, hubVars
  <2>2. late[c][m] = 0
    <3>1. late[c][m] \in Nat /\ late[c][m] <= 1 /\ late[c][m] # 1
      BY <1>0, <2>1 DEF LateOnce
    <3> QED BY <3>1
  <2>3. \/ late' = late
        \/ c \notin subscribers[m] /\ late' = [late EXCEPT ![c][m] = @ + 1]
    BY <1>3 DEF Send
  <2>4. CASE late' = late
    BY <2>1, <2>4 DEF LateOnce
  <2>5. CASE c \notin subscribers[m] /\ late' = [late EXCEPT ![c][m] = @ + 1]
    <3>1. late'[c][m] = 1
      BY <1>0, <2>1, <2>2, <2>5
    <3>2. \A d \in Conns, n \in Notifs :
             d # c \/ n # m => late'[d][n] = late[d][n]
      BY <1>0, <2>1, <2>5
    <3>3. ASSUME NEW d \in Conns, NEW n \in Notifs
          PROVE  /\ late'[d][n] <= 1
                 /\ late'[d][n] = 1 =>
                      /\ d \notin subscribers'[n]
                      /\ \A b2 \in casting' : b2.u.n = n => d \notin b2.left
      <4>1. CASE d = c /\ n = m
        BY <2>1, <2>5, <3>1, <4>1
      <4>2. CASE d # c \/ n # m
        BY <2>1, <3>2, <4>2 DEF LateOnce
      <4> QED BY <4>1, <4>2
    <3> QED BY <3>3 DEF LateOnce
  <2> QED BY <2>3, <2>4, <2>5
<1>4. ASSUME NEW b \in casting, NEW c \in b.left, SendFails(b, c) PROVE LateOnce'
  <2>1. /\ c \in Conns
        /\ \A b2 \in casting' : b2.u = b.u /\ b2.left = b.left \ {c}
        /\ late' = late
    BY <1>4, SentFacts DEF SendFails
  <2>2. \A n \in Notifs : subscribers'[n] \subseteq subscribers[n]
    BY <1>4, <2>1, RemovedAgrees DEF SendFails, UnsubscribeAll, TypeOK
  <2> QED BY <2>1, <2>2 DEF LateOnce
<1>5. ASSUME NEW c \in Conns, Disconnect(c) PROVE LateOnce'
  <2>1. \A n \in Notifs : subscribers'[n] \subseteq subscribers[n]
    BY <1>5, RemovedAgrees DEF Disconnect, UnsubscribeAll, TypeOK
  <2>2. late' = late /\ casting' = casting
    BY <1>5 DEF Disconnect
  <2> QED BY <2>1, <2>2 DEF LateOnce
<1>6. ASSUME NEW c \in Conns, NEW n \in Notifs, Subscribe(c, n) PROVE LateOnce'
  <2>1. /\ casting' = casting
        /\ late'[c][n] = 0
        /\ \A d \in Conns, m \in Notifs : d # c \/ m # n => late'[d][m] = late[d][m]
    BY <1>0, <1>6 DEF Subscribe
  <2>2. \A d \in Conns, m \in Notifs :
           (d # c \/ m # n) /\ d \in subscribers'[m] => d \in subscribers[m]
    BY <1>0, <1>6 DEF Subscribe
  <2> QED BY <2>1, <2>2 DEF LateOnce
<1>7. ASSUME NEW c \in Conns, NEW n \in Notifs, Unsubscribe(c, n) PROVE LateOnce'
  <2>1. /\ casting' = casting
        /\ late'[c][n] = 0
        /\ \A d \in Conns, m \in Notifs : d # c \/ m # n => late'[d][m] = late[d][m]
    BY <1>0, <1>7 DEF Unsubscribe
  <2>2. \A m \in Notifs : subscribers'[m] \subseteq subscribers[m]
    BY <1>7, RemovedAgrees DEF Unsubscribe
  <2> QED BY <2>1, <2>2 DEF LateOnce
<1> QED
  BY <1>1, <1>2, <1>3, <1>4, <1>5, <1>6, <1>7
     DEF Next, Casts, vars, hubVars, Publish, Ready, Stop, Accept, Hang

-----------------------------------------------------------------------------

\* The feed starts in a state of the invariant: nothing published, nobody there.
LEMMA FeedInit == StatusFeedAssumption /\ Init => FeedInv
<1> SUFFICES ASSUME StatusFeedAssumption, Init PROVE FeedInv
  OBVIOUS
<1>1. TypeOK
  BY DEF Init, TypeOK, StatusFeedAssumption
<1>2. IndexesAgree
  BY DEF Init, IndexesAgree
<1>3. Order /\ OneBroadcast /\ LateOnce
  BY DEF Init, Order, BufferOrdered, CastBeforeBuffer, InboxBefore, InOrder,
         OneBroadcast, LateOnce
<1> QED
  BY <1>1, <1>2, <1>3 DEF FeedInv, Order

\* Every step of the feed keeps the invariant.
LEMMA FeedNext == StatusFeedAssumption /\ FeedInv /\ [Next]_vars => FeedInv'
  BY FeedTypeNext, IndexesNext, OrderNext, LateNext DEF FeedInv, Order

\* The invariant says what the runs check of the feed.
LEMMA FeedInvImplies ==
    FeedInv => TypeOK /\ IndexesAgree /\ InOrder /\ AtMostOneLate
  BY DEF FeedInv, LateOnce, AtMostOneLate

\* Whatever the number of connections, notifications and updates: the hub's two
\* maps agree and hold no connection that is gone, every client receives
\* updates in the order of publication and none twice, and at most one after it
\* has unsubscribed.
THEOREM FeedInvariance ==
    ASSUME StatusFeedAssumption
    PROVE  Spec => [](TypeOK /\ IndexesAgree /\ InOrder /\ AtMostOneLate)
<1>1. Init => FeedInv
  BY FeedInit
<1>2. FeedInv /\ [Next]_vars => FeedInv'
  BY FeedNext
<1> QED
  BY <1>1, <1>2, FeedInvImplies, PTL DEF Spec

=============================================================================
