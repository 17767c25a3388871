--------------------------- MODULE DeliveryReached ---------------------------
(***************************************************************************)
(* Delivery leaves nobody out, for any states, clients, channels and       *)
(* links.                                                                  *)
(*                                                                         *)
(* The invariant says of every message, and of everybody whom it is for,   *)
(* where it is on its way to him; and that what this way needs, the link   *)
(* and the rows the message is sent by, is still there.                    *)
(***************************************************************************)
EXTENDS DeliveryProofs

-----------------------------------------------------------------------------
(* The invariant.                                                          *)

\* Nothing is on the wire of a session that is not open.
Silent == \A e \in End : ~Opened(e) => wire[e] = <<>>

\* The session of state s that a row of client c is put down for: its link
\* leads to the state of c and is open.
Over(s, c, e) == e \in End /\ e = <<s, Home[c]>> /\ Opened(e)

RowOver(s, c) == clients[s][c] \in {None, s} \/ Over(s, c, clients[s][c])

RowsOver ==
    /\ \A s \in States, c \in Clients : RowOver(s, c)
    /\ \A s \in States : \A r \in subscriptions[s] : r[1] = s \/ Over(s, r[2], r[1])

\* Message i was the i-th, and is for nobody before it is sent.
Numbered ==
    /\ \A i \in 1..Len(posted) : posted[i].id = i
    /\ \A i \in 1..MaxMessages : audience[i] /= {} => i <= Len(posted)

\* From the state of the sender of m to that of d.
Way(m, d) == <<Home[m.from], Home[d]>>

\* d is there and, if his state is another one than the sender's, linked to it;
\* he is whom the message was sent to, or, for a publication, subscribed to its
\* channel in the table of the sender's state, with no word on its way that
\* he is not.
HeardOf(m, d) ==
    /\ stage[d] = "in"
    /\ Home[d] /= Home[m.from] => Way(m, d) \in End /\ Opened(Way(m, d))
    /\ IF m.kind = "send" THEN m.to = d ELSE d /= m.from
    /\ m.kind = "publish" => Follows(d, m.to, Home[m.from])

Addressees == \A i \in 1..Len(posted) : \A d \in audience[i] : HeardOf(posted[i], d)

\* Where message m is on its way to d: the strand of the sender has still to
\* give it to d or to the session to d's state, it is on the wire there, or the
\* session has still to give it to d.
Got(m, d)    == \E k \in 1..Len(inbox[d]) : inbox[d][k] = m
InHand(a, m) == task[a] /= NoTask /\ task[a].msg = m

ToGive(m, d) ==
    /\ InHand(m.from, m)
    /\ IF Home[d] = Home[m.from]
       THEN task[m.from].step = "clients" /\ d \in todo[m.from]
       ELSE task[m.from].step = "clients" \/ Way(m, d) \in todo[m.from]

Crossing(m, d) ==
    /\ Home[d] /= Home[m.from]
    /\ \/ m \in OnWire(Way(m, d))
       \/ InHand(Peer(Way(m, d)), m) /\ d \in todo[Peer(Way(m, d))]

Reaches(m, d) == Got(m, d) \/ ToGive(m, d) \/ Crossing(m, d)

Reaching == \A i \in 1..Len(posted) : \A d \in audience[i] : Reaches(posted[i], d)

ReachInv == Silent /\ RowsOver /\ Numbered /\ Addressees /\ Reaching

-----------------------------------------------------------------------------
(* Queues as sets.                                                         *)

Elems(q) == {q[i] : i \in 1..Len(q)}

LEMMA ElemsFacts ==
    ASSUME NEW S, NEW q \in Seq(S)
    PROVE  /\ Elems(q) \subseteq S
           /\ q = <<>> => Elems(q) = {}
           /\ q /= <<>> => Elems(q) = {Head(q)} \cup Elems(Tail(q))
           /\ \A x \in S : Elems(Append(q, x)) = Elems(q) \cup {x}
<1>1. /\ Len(q) \in Nat /\ \A i \in 1..Len(q) : q[i] \in S
  BY QueueFacts
<1>2. Elems(q) \subseteq S
  BY <1>1 DEF Elems
<1>3. ASSUME q = <<>> PROVE Elems(q) = {}
  BY <1>3 DEF Elems
<1>4. ASSUME q /= <<>> PROVE Elems(q) = {Head(q)} \cup Elems(Tail(q))
  <2>1. /\ Head(q) = q[1] /\ Len(Tail(q)) = Len(q) - 1 /\ Len(q) \in Nat \ {0}
        /\ \A i \in 1..Len(Tail(q)) : Tail(q)[i] = q[i + 1]
    BY <1>4, QueueFacts
  <2>2. PICK n \in Nat \ {0} : n = Len(q)
    BY <2>1
  <2>3. ASSUME NEW i \in 1..n PROVE q[i] \in {Head(q)} \cup Elems(Tail(q))
    <3>1. CASE i = 1
      BY <2>1, <3>1
    <3>2. CASE i /= 1
      <4>1. i - 1 \in 1..Len(Tail(q)) /\ (i - 1) + 1 = i
        BY <2>1, <2>2, <3>2
      <4>2. Tail(q)[i - 1] = q[i]
        BY <2>1, <4>1
      <4> QED BY <4>1, <4>2 DEF Elems
    <3> QED BY <3>1, <3>2
  <2>4. ASSUME NEW i \in 1..Len(Tail(q)) PROVE Tail(q)[i] \in Elems(q)
    <3>1. i + 1 \in 1..Len(q)
      BY <2>1, <2>2
    <3> QED BY <2>1, <3>1 DEF Elems
  <2>5. Head(q) \in Elems(q)
    <3>1. 1 \in 1..Len(q)
      BY <2>1, <2>2
    <3> QED BY <2>1, <3>1 DEF Elems
  <2>6. Elems(q) \subseteq {Head(q)} \cup Elems(Tail(q))
    BY <2>2, <2>3 DEF Elems
  <2>7. Elems(Tail(q)) \subseteq Elems(q)
    BY <2>4 DEF Elems
  <2> QED BY <2>5, <2>6, <2>7
<1>5. ASSUME NEW x \in S PROVE Elems(Append(q, x)) = Elems(q) \cup {x}
  <2>1. /\ Len(Append(q, x)) = Len(q) + 1 /\ Append(q, x)[Len(q) + 1] = x
        /\ \A i \in 1..Len(q) : Append(q, x)[i] = q[i]
    BY QueueFacts
  <2>2. 1..(Len(q) + 1) = (1..Len(q)) \cup {Len(q) + 1}
    BY <1>1
  <2> QED BY <2>1, <2>2 DEF Elems
<1> QED BY <1>2, <1>3, <1>4, <1>5

\* What is given to d or put on a wire is there.
LEMMA GivenGot ==
    ASSUME BoxType, NEW d \in Clients, NEW m \in Payload,
           inbox' = Given(Home[d], d, m), stage[d] = "in"
    PROVE  Got(m, d)'
<1>1. inbox[d] \in Seq(Payload) /\ inbox'[d] = Append(inbox[d], m)
  BY DEF BoxType, Given
<1>2. /\ Len(inbox'[d]) = Len(inbox[d]) + 1 /\ Len(inbox[d]) \in Nat
      /\ inbox'[d][Len(inbox[d]) + 1] = m
  BY <1>1, QueueFacts
<1>3. Len(inbox[d]) + 1 \in 1..Len(inbox'[d])
  BY <1>2
<1> QED BY <1>2, <1>3 DEF Got

LEMMA AppendedOn ==
    ASSUME WireType, NEW e \in End, NEW m \in Payload \cup News, wire'[e] = Append(wire[e], m)
    PROVE  OnWire(e)' = OnWire(e) \cup {m}
<1>1. wire[e] \in Seq(Payload \cup News)
  BY DEF WireType
<1>2. Elems(wire'[e]) = Elems(wire[e]) \cup {m}
  BY <1>1, ElemsFacts
<1> QED BY <1>2 DEF OnWire, Elems

LEMMA OnWireType == ASSUME WireType, NEW e \in End PROVE OnWire(e) \subseteq Payload \cup News
<1>1. wire[e] \in Seq(Payload \cup News)
  BY DEF WireType
<1>2. Elems(wire[e]) \subseteq Payload \cup News
  BY <1>1, ElemsFacts
<1> QED BY <1>2 DEF OnWire, Elems
-----------------------------------------------------------------------------
(* What a step may do.                                                     *)

\* Links open and close one at a time.
LEMMA LinksStep ==
    ASSUME TableTypes, [Next]_vars
    PROVE  \/ UNCHANGED open
           \/ \E l \in Link : OpenLink(l) \/ CloseLink(l)
BY DEF Next, Client, Task, Read, ReadClient, ReadSubscription, ReadPayload, ReadSend, Accept, Leave,
       Subscribe, Unsubscribe, Broadcast, Publish, Send, GiveClient, GetSessions, GiveSession,
       Finish, vars, tableVars

LEMMA CloseFacts ==
    ASSUME TableTypes, NEW l \in Link, CloseLink(l)
    PROVE  /\ ~Opened(l)' /\ ~Opened(Peer(l))'
           /\ \A e \in End \ {l, Peer(l)} : Opened(e)' <=> Opened(e)
<1> USE Shape
<1>1. open' = open \ {l} /\ open \subseteq Link /\ Peer(l) \notin Link /\ l \in Link
  BY DeliveryAssumption DEF CloseLink, TableTypes, Peer
<1>2. Peer(Peer(l)) = l
  OBVIOUS
<1>3. ~Opened(l)' /\ ~Opened(Peer(l))'
  BY <1>1, <1>2 DEF Opened
<1>4. ASSUME NEW e \in End \ {l, Peer(l)} PROVE Opened(e)' <=> Opened(e)
  <2>1. Peer(e) /= l
    BY <1>4
  <2> QED BY <1>1, <1>4, <2>1 DEF Opened
<1> QED BY <1>3, <1>4

\* A session that is open stays so, unless its link closes.
LEMMA StaysOpen ==
    ASSUME TableTypes, [Next]_vars, NEW e \in End, Opened(e),
           \A l \in Link : CloseLink(l) => e \notin {l, Peer(l)}
    PROVE  Opened(e)'
<1>1. CASE UNCHANGED open
  BY <1>1 DEF Opened
<1>2. ASSUME NEW l \in Link, OpenLink(l) PROVE Opened(e)'
  BY <1>2 DEF OpenLink, Opened
<1>3. ASSUME NEW l \in Link, CloseLink(l) PROVE Opened(e)'
  BY <1>3, CloseFacts
<1> QED BY <1>1, <1>2, <1>3, LinksStep

\* How a step changes what is on the wire of e: it puts a message behind it, if
\* the session is open, takes the first one, or opens or closes the link.
WireStays(e)    == wire'[e] = wire[e]
WireGets(e, m)  == Opened(e) /\ wire'[e] = Append(wire[e], m)
WireGives(e)    == \E m : Reads(Peer(e), m) /\ (\/ ReadClient(Peer(e), m)
                                                \/ ReadSubscription(Peer(e), m)
                                                \/ ReadPayload(Peer(e), m)
                                                \/ ReadSend(Peer(e), m))
WireClosed(e)   == \E l \in Link : CloseLink(l) /\ e \in {l, Peer(l)}

LEMMA WireChange ==
    ASSUME TableTypes, WireType, TaskTypes, PostTypes, [Next]_vars, NEW e \in End
    PROVE  \/ WireStays(e)
           \/ \E m \in Payload : WireGets(e, m)
           \/ \E c \in Clients, m \in News :
                 /\ WireGets(e, m) /\ m.from = c
                 /\ \/ m.kind /= "unsubscribe"
                    \/ \E ch \in Channels : Unsubscribe(c, ch)
           \/ WireGives(e)
           \/ \E l \in Link : OpenLink(l) /\ e = Peer(l)
           \/ WireClosed(e)
<1> DEFINE Goal == \/ WireStays(e)
                   \/ \E m \in Payload : WireGets(e, m)
                   \/ \E c \in Clients, m \in News :
                         /\ WireGets(e, m) /\ m.from = c
                         /\ \/ m.kind /= "unsubscribe"
                            \/ \E ch \in Channels : Unsubscribe(c, ch)
                   \/ WireGives(e)
                   \/ \E l \in Link : OpenLink(l) /\ e = Peer(l)
                   \/ WireClosed(e)
<1> USE Shape
<1>0. DOMAIN wire = End
  BY DEF WireType
<1>a. CASE UNCHANGED wire
  BY <1>a DEF WireStays
<1>b. ASSUME NEW s \in States, NEW m \in News, wire' = Forwarded(s, m)
      PROVE  WireStays(e) \/ WireGets(e, m)
  BY <1>b DEF Forwarded, SessionsOf, WireStays, WireGets
<1>1. ASSUME NEW c \in Clients, Accept(c) \/ Leave(c) PROVE Goal
  <2>1. PICK m \in News : /\ m.from = c /\ m.kind /= "unsubscribe"
                          /\ wire' = Forwarded(Home[c], m)
    BY <1>1, MessageShape DEF Accept, Leave, NewsOf
  <2>2. WireStays(e) \/ WireGets(e, m)
    BY <1>b, <2>1
  <2> QED BY <2>1, <2>2
<1>2. ASSUME NEW c \in Clients, NEW ch \in Channels, Subscribe(c, ch) \/ Unsubscribe(c, ch)
      PROVE  Goal
  <2>1. PICK m \in News : /\ m.from = c /\ (m.kind /= "unsubscribe" \/ Unsubscribe(c, ch))
                          /\ wire' = Forwarded(Home[c], m)
    BY <1>2, MessageShape DEF Subscribe, Unsubscribe, NewsOf
  <2>2. WireStays(e) \/ WireGets(e, m)
    BY <1>b, <2>1
  <2> QED BY <2>1, <2>2
<1>3. ASSUME NEW c \in Clients, NEW d \in Clients, Send(c, d) PROVE Goal
  <2>1. PICK m \in Payload : m = Message("send", c, d)
    BY <1>3, AsksFacts DEF Send, Addressed
  <2>2. PICK via : wire' = IF via \in SessionsOf(Home[c])
                           THEN [wire EXCEPT ![via] = Append(@, m)] ELSE wire
    BY <1>3, <2>1 DEF Send
  <2>3. CASE via \in SessionsOf(Home[c]) /\ e = via
    BY <1>0, <2>2, <2>3 DEF SessionsOf, WireGets
  <2>4. CASE ~(via \in SessionsOf(Home[c]) /\ e = via)
    BY <1>0, <2>2, <2>4 DEF WireStays
  <2> QED BY <2>1, <2>3, <2>4
<1>4. ASSUME NEW a \in Actor, NEW x \in End, GiveSession(a, x) PROVE Goal
  <2>1. task[a].msg \in Payload
    BY <1>4, MessageShape DEF GiveSession, TaskTypes
  <2>2. WireStays(e) \/ WireGets(e, task[a].msg)
    BY <1>0, <1>4 DEF GiveSession, WireStays, WireGets
  <2> QED BY <2>1, <2>2
<1>5. ASSUME NEW x \in End, NEW m,
             \/ ReadClient(x, m) \/ ReadSubscription(x, m) \/ ReadPayload(x, m) \/ ReadSend(x, m)
      PROVE  Goal
  <2>1. Reads(x, m)
    BY <1>5 DEF ReadClient, ReadSubscription, ReadPayload, ReadSend
  <2>2. CASE e = Peer(x)
    <3>1. Peer(e) = x
      BY <2>2
    <3>2. WireGives(e)
      BY <1>5, <2>1, <3>1 DEF WireGives
    <3> QED BY <3>2
  <2>3. CASE e /= Peer(x)
    BY <2>1, <2>3, ReadsFacts DEF WireStays
  <2> QED BY <2>2, <2>3
<1>6. ASSUME NEW l \in Link, OpenLink(l) PROVE Goal
  BY <1>6, OpenLinkFacts DEF WireStays
<1>7. ASSUME NEW l \in Link, CloseLink(l) PROVE Goal
  <2>1. CASE e \in {l, Peer(l)}
    BY <1>7, <2>1 DEF WireClosed
  <2>2. CASE e \notin {l, Peer(l)}
    BY <1>0, <1>7, <2>2 DEF CloseLink, WireStays
  <2> QED BY <2>1, <2>2
<1> HIDE DEF Goal
<1>8. Goal
  BY <1>a, <1>1, <1>2, <1>3, <1>4, <1>5, <1>6, <1>7
     DEF Next, Client, Task, Read, Broadcast, Publish, GiveClient, GetSessions, Finish, vars, Goal
<1> QED BY <1>8 DEF Goal

LEMMA SilentStep ==
    TypeOK /\ Silent /\ [Next]_vars => Silent'
<1> SUFFICES ASSUME TableTypes, WireType, TaskTypes, PostTypes, Silent, [Next]_vars,
                    NEW e \in End, ~Opened(e)'
             PROVE  wire'[e] = <<>>
  BY TypeParts DEF Silent
<1> USE Shape
<1>1. CASE WireClosed(e)
  <2>1. PICK l \in Link : CloseLink(l) /\ e \in {l, Peer(l)}
    BY <1>1 DEF WireClosed
  <2>2. DOMAIN wire = End
    BY DEF WireType
  <2> QED BY <2>1, <2>2 DEF CloseLink
<1>2. CASE ~WireClosed(e)
  <2>1. ~Opened(e)
    BY <1>2, StaysOpen DEF WireClosed
  <2>2. wire[e] = <<>>
    BY <2>1 DEF Silent
  <2>3. ~WireGives(e)
    BY <2>2, ReadsFacts DEF WireGives
  <2>4. ASSUME NEW l \in Link, OpenLink(l), e = Peer(l) PROVE FALSE
    <3>1. Opened(e)'
      BY <2>4 DEF OpenLink, Opened
    <3> QED BY <3>1
  <2>5. WireStays(e)
    BY <1>2, <2>1, <2>3, <2>4, WireChange DEF WireGets
  <2> QED BY <2>2, <2>5 DEF WireStays
<1> QED BY <1>1, <1>2
\* A session that has something to read is open, and it is about a client of
\* the state at the other end.
LEMMA ReadsOver ==
    ASSUME WireType, WireOrigin, Silent, NEW e \in End, NEW m, Reads(e, m)
    PROVE  m.from \in Clients /\ Over(e[1], m.from, e)
<1> USE Shape
<1>1. /\ m = wire[Peer(e)][1] /\ Len(wire[Peer(e)]) \in Nat \ {0} /\ m \in Payload \cup News
      /\ wire[Peer(e)] /= <<>>
  BY ReadsFacts
<1>2. Home[m.from] = e[2] /\ m.from \in Clients
  BY <1>1, MessageShape DEF WireOrigin
<1>3. Opened(e)
  BY <1>1 DEF Silent, Opened
<1>4. e = <<e[1], e[2]>>
  OBVIOUS
<1> QED BY <1>2, <1>3, <1>4 DEF Over

LEMMA OverStays ==
    ASSUME TableTypes, [Next]_vars, NEW s, NEW c, NEW e, Over(s, c, e),
           \A l \in Link : CloseLink(l) => e \notin {l, Peer(l)}
    PROVE  Over(s, c, e)'
BY StaysOpen DEF Over

LEMMA RowsOverStep ==
    TypeOK /\ Origin /\ Silent /\ RowsOver /\ [Next]_vars => RowsOver'
<1> SUFFICES ASSUME TableTypes, WireType, RowsOrigin, WireOrigin, Silent, RowsOver, [Next]_vars
             PROVE  RowsOver'
  BY TypeParts DEF Origin
<1> USE Shape
<1>0. /\ DOMAIN clients = States /\ DOMAIN subscriptions = States
      /\ \A s \in States : DOMAIN clients[s] = Clients
  BY DEF TableTypes
\* The rows are those there were, and rows of the state itself or of a session
\* that is open.
<1>a. ASSUME \A l \in Link : ~CloseLink(l),
             \A s \in States, c \in Clients :
                \/ clients'[s][c] \in {None, s, clients[s][c]}
                \/ Over(s, c, clients'[s][c]),
             \A s \in States : \A r \in subscriptions'[s] :
                r \in subscriptions[s] \/ r[1] = s \/ Over(s, r[2], r[1])
      PROVE  RowsOver'
  <2>1. ASSUME NEW s \in States, NEW c \in Clients
        PROVE  RowOver(s, c)'
    <3>1. PICK e : e = clients'[s][c]
      OBVIOUS
    <3>2. e \in {None, s} \/ Over(s, c, e)
      BY <1>a, <3>1 DEF RowsOver, RowOver
    <3>3. Over(s, c, e) => Over(s, c, e)'
      BY <1>a, OverStays
    <3> QED BY <3>1, <3>2, <3>3 DEF RowOver, Over, Opened
  <2>2. ASSUME NEW s \in States, NEW r \in subscriptions'[s]
        PROVE  r[1] = s \/ Over(s, r[2], r[1])'
    <3>1. r[1] = s \/ Over(s, r[2], r[1])
      BY <1>a, <2>2 DEF RowsOver
    <3>2. Over(s, r[2], r[1]) => Over(s, r[2], r[1])'
      BY <1>a, OverStays
    <3> QED BY <3>1, <3>2
  <2> QED BY <2>1, <2>2 DEF RowsOver
<1>1. ASSUME NEW c \in Clients, Accept(c) \/ Leave(c) PROVE RowsOver'
  <2>1. \A l \in Link : ~CloseLink(l)
    <3>1. UNCHANGED open
      BY <1>1 DEF Accept, Leave
    <3> QED BY <3>1 DEF CloseLink
  <2>2. /\ UNCHANGED subscriptions
        /\ \A s \in States, d \in Clients : clients'[s][d] \in {None, s, clients[s][d]}
    BY <1>0, <1>1 DEF Accept, Leave
  <2> QED BY <1>a, <2>1, <2>2
<1>2. ASSUME NEW c \in Clients, NEW ch \in Channels, Subscribe(c, ch) \/ Unsubscribe(c, ch)
      PROVE  RowsOver'
  <2>1. \A l \in Link : ~CloseLink(l)
    <3>1. UNCHANGED open
      BY <1>2 DEF Subscribe, Unsubscribe
    <3> QED BY <3>1 DEF CloseLink
  <2>2. /\ UNCHANGED clients
        /\ \A s \in States : \A r \in subscriptions'[s] : r \in subscriptions[s] \/ r[1] = s
    BY <1>0, <1>2 DEF Subscribe, Unsubscribe
  <2> QED BY <1>a, <2>1, <2>2
<1>3. ASSUME NEW e \in End, NEW m, ReadClient(e, m) PROVE RowsOver'
  <2>1. \A l \in Link : ~CloseLink(l)
    <3>1. UNCHANGED open
      BY <1>3 DEF ReadClient
    <3> QED BY <3>1 DEF CloseLink
  <2>2. m.from \in Clients /\ Over(e[1], m.from, e)
    BY <1>3, ReadsOver DEF ReadClient
  <2>3. /\ UNCHANGED subscriptions
        /\ clients'[e[1]][m.from] \in {None, e, clients[e[1]][m.from]}
        /\ \A s \in States, c \in Clients :
              s /= e[1] \/ c /= m.from => clients'[s][c] = clients[s][c]
    BY <1>0, <1>3, <2>2 DEF ReadClient
  <2>4. \A s \in States, c \in Clients : \/ clients'[s][c] \in {None, s, clients[s][c]}
                                         \/ Over(s, c, clients'[s][c])
    BY <2>2, <2>3
  <2> QED BY <1>a, <2>1, <2>3, <2>4
<1>4. ASSUME NEW e \in End, NEW m, ReadSubscription(e, m) PROVE RowsOver'
  <2>1. \A l \in Link : ~CloseLink(l)
    <3>1. UNCHANGED open
      BY <1>4 DEF ReadSubscription
    <3> QED BY <3>1 DEF CloseLink
  <2>2. m.from \in Clients /\ Over(e[1], m.from, e)
    BY <1>4, ReadsOver DEF ReadSubscription
  <2>3. /\ UNCHANGED clients
        /\ subscriptions'[e[1]] \subseteq subscriptions[e[1]] \cup {<<e, m.from, m.to>>}
        /\ \A s \in States : s /= e[1] => subscriptions'[s] = subscriptions[s]
    BY <1>0, <1>4 DEF ReadSubscription
  <2>4. \A s \in States : \A r \in subscriptions'[s] :
           r \in subscriptions[s] \/ r[1] = s \/ Over(s, r[2], r[1])
    BY <2>2, <2>3
  <2> QED BY <1>a, <2>1, <2>3, <2>4
<1>5. ASSUME NEW l \in Link, OpenLink(l) PROVE RowsOver'
  <2>1. \A k \in Link : ~CloseLink(k)
    <3>1. open \subseteq open'
      BY <1>5 DEF OpenLink
    <3> QED BY <3>1 DEF CloseLink
  <2>2. UNCHANGED <<clients, subscriptions>>
    BY <1>5 DEF OpenLink
  <2> QED BY <1>a, <2>1, <2>2
<1>6. ASSUME NEW l \in Link, CloseLink(l) PROVE RowsOver'
  <2>1. \A k \in Link : CloseLink(k) => k = l
    BY <1>6 DEF CloseLink
  <2>2. \A s, c, e : Over(s, c, e) /\ e \notin {l, Peer(l)} => Over(s, c, e)'
    BY <2>1, OverStays
  <2>3. ASSUME NEW s \in States, NEW c \in Clients
        PROVE  RowOver(s, c)'
    <3>1. PICK e : e = clients[s][c]
      OBVIOUS
    <3>2. clients'[s][c] = IF e \in {l, Peer(l)} THEN None ELSE e
      BY <1>6, <3>1 DEF CloseLink
    <3>3. e \in {None, s} \/ Over(s, c, e)
      BY <3>1 DEF RowsOver, RowOver
    <3>4. Over(s, c, e) /\ e \notin {l, Peer(l)} => Over(s, c, e)'
      BY <2>2
    <3> QED BY <3>2, <3>3, <3>4 DEF RowOver, Over, Opened
  <2>4. ASSUME NEW s \in States, NEW r \in subscriptions'[s]
        PROVE  r[1] = s \/ Over(s, r[2], r[1])'
    <3>1. r \in subscriptions[s] /\ r[1] \notin {l, Peer(l)}
      BY <1>6, <2>4 DEF CloseLink
    <3> QED BY <2>2, <3>1 DEF RowsOver
  <2> QED BY <2>3, <2>4 DEF RowsOver
<1>7. CASE UNCHANGED <<open, clients, subscriptions>>
  <2>1. \A l \in Link : ~CloseLink(l)
    BY <1>7 DEF CloseLink
  <2> QED BY <1>a, <1>7, <2>1
<1> QED
  BY <1>1, <1>2, <1>3, <1>4, <1>5, <1>6, <1>7
     DEF Next, Client, Task, Read, Broadcast, Publish, Send, GiveClient, GetSessions,
         GiveSession, Finish, ReadPayload, ReadSend, vars, tableVars

\* The messages so far, and for whom they are, change in three ways.
LEMMA PostedStep ==
    ASSUME [Next]_vars
    PROVE  \/ UNCHANGED <<posted, audience>>
           \/ \E c \in Clients, ch \in Channels : Publish(c, ch)
           \/ \E c \in Clients, d \in Clients : Broadcast(c) \/ Send(c, d)
           \/ UNCHANGED posted /\ \E c \in Clients : Forget(c)
           \/ UNCHANGED posted /\ \E l \in Link : CloseLink(l)
<1> DEFINE Goal == \/ UNCHANGED <<posted, audience>>
                   \/ \E c \in Clients, ch \in Channels : Publish(c, ch)
                   \/ \E c \in Clients, d \in Clients : Broadcast(c) \/ Send(c, d)
                   \/ UNCHANGED posted /\ \E c \in Clients : Forget(c)
                   \/ UNCHANGED posted /\ \E l \in Link : CloseLink(l)
<1>1. ASSUME NEW c \in Clients, Client(c) PROVE Goal
  <2>1. CASE Accept(c)
    BY <2>1 DEF Accept, taskVars
  <2>2. CASE Leave(c)
    BY <2>2 DEF Leave
  <2>3. ASSUME NEW ch \in Channels, Subscribe(c, ch) \/ Unsubscribe(c, ch) PROVE Goal
    BY <2>3 DEF Subscribe, Unsubscribe, taskVars
  <2> QED BY <1>1, <2>1, <2>2, <2>3 DEF Client
<1>2. ASSUME NEW a \in Actor, Task(a) PROVE UNCHANGED <<posted, audience>>
  BY <1>2 DEF Task, GiveClient, GetSessions, GiveSession, Finish
<1>3. ASSUME NEW e \in End, Read(e) PROVE UNCHANGED <<posted, audience>>
  BY <1>3 DEF Read, ReadClient, ReadSubscription, ReadPayload, ReadSend, taskVars
<1>4. ASSUME NEW l \in Link, OpenLink(l) PROVE UNCHANGED <<posted, audience>>
  BY <1>4 DEF OpenLink, taskVars
<1>5. ASSUME NEW l \in Link, CloseLink(l) PROVE Goal
  BY <1>5 DEF CloseLink
<1>6. UNCHANGED vars => UNCHANGED <<posted, audience>>
  BY DEF vars
<1> HIDE DEF Goal
<1>7. UNCHANGED <<posted, audience>> => Goal
  BY DEF Goal
<1>8. Goal
  BY <1>1, <1>2, <1>3, <1>4, <1>5, <1>6, <1>7 DEF Next
<1> QED BY <1>8 DEF Goal

\* The earlier messages stay, and nobody is added to those they are for.
LEMMA EarlierStay ==
    ASSUME TypeOK, [Next]_vars, NEW i \in 1..Len(posted)
    PROVE  i \in 1..Len(posted') /\ posted'[i] = posted[i] /\ audience'[i] \subseteq audience[i]
<1> SUFFICES ASSUME PostTypes
             PROVE  i \in 1..Len(posted') /\ posted'[i] = posted[i] /\ audience'[i] \subseteq audience[i]
  BY TypeParts
<1>1. /\ Len(posted) \in Nat /\ MaxMessages \in Nat /\ Len(posted) <= MaxMessages
      /\ posted \in Seq(Payload) /\ DOMAIN audience = 1..MaxMessages
  BY DeliveryAssumption DEF PostTypes
<1>2. i \in 1..MaxMessages
  BY <1>1
<1>a. ASSUME NEW c \in Clients, NEW k, NEW to, Addressed(k, to), Asks(c, Message(k, c, to)),
             NEW D, For(D)
      PROVE  i \in 1..Len(posted') /\ posted'[i] = posted[i] /\ audience'[i] \subseteq audience[i]
  <2>1. /\ posted' = Append(posted, Message(k, c, to)) /\ Message(k, c, to) \in Payload
        /\ Len(posted') = Len(posted) + 1
    BY <1>a, AsksFacts
  <2>2. posted'[i] = posted[i]
    BY <1>1, <2>1, QueueFacts
  <2>3. i \in 1..Len(posted') /\ i /= Len(posted) + 1
    BY <1>1, <2>1
  <2>4. audience'[i] = audience[i]
    BY <1>1, <1>2, <1>a, <2>3 DEF For
  <2> QED BY <2>2, <2>3, <2>4
<1>3. ASSUME NEW c \in Clients, Broadcast(c)
      PROVE  i \in 1..Len(posted') /\ posted'[i] = posted[i] /\ audience'[i] \subseteq audience[i]
  BY <1>3, <1>a DEF Broadcast, Addressed
<1>4. ASSUME NEW c \in Clients, NEW ch \in Channels, Publish(c, ch)
      PROVE  i \in 1..Len(posted') /\ posted'[i] = posted[i] /\ audience'[i] \subseteq audience[i]
  BY <1>4, <1>a DEF Publish, Addressed
<1>5. ASSUME NEW c \in Clients, NEW d \in Clients, Send(c, d)
      PROVE  i \in 1..Len(posted') /\ posted'[i] = posted[i] /\ audience'[i] \subseteq audience[i]
  BY <1>5, <1>a DEF Send, Addressed
<1>6. ASSUME NEW c \in Clients, Forget(c) PROVE audience'[i] \subseteq audience[i]
  BY <1>2, <1>6 DEF Forget
<1>7. ASSUME NEW l \in Link, CloseLink(l) PROVE audience'[i] \subseteq audience[i]
  BY <1>2, <1>7 DEF CloseLink
<1> QED BY <1>3, <1>4, <1>5, <1>6, <1>7, PostedStep
\* The message that is asked for is the last one.
LEMMA NewMessage ==
    ASSUME TypeOK, NEW c \in Clients, NEW k, NEW to, Addressed(k, to), Asks(c, Message(k, c, to)),
           NEW D, For(D)
    PROVE  /\ Len(posted) + 1 \in 1..MaxMessages /\ Len(posted') = Len(posted) + 1
           /\ posted'[Len(posted) + 1] = Message(k, c, to)
           /\ audience'[Len(posted) + 1] = D
           /\ \A i \in 1..MaxMessages : i /= Len(posted) + 1 => audience'[i] = audience[i]
           /\ \A i \in 1..Len(posted') : i \in 1..Len(posted) \/ i = Len(posted) + 1
<1>0. PostTypes
  BY TypeParts
<1>1. /\ posted \in Seq(Payload) /\ posted' = Append(posted, Message(k, c, to))
      /\ Message(k, c, to) \in Payload /\ Len(posted') = Len(posted) + 1 /\ Len(posted) \in Nat
      /\ Len(posted) + 1 \in 1..MaxMessages
  BY <1>0, AsksFacts DEF PostTypes
<1>2. posted'[Len(posted) + 1] = Message(k, c, to)
  BY <1>1, QueueFacts
<1>3. DOMAIN audience = 1..MaxMessages
  BY <1>0 DEF PostTypes
<1>4. /\ audience'[Len(posted) + 1] = D
      /\ \A i \in 1..MaxMessages : i /= Len(posted) + 1 => audience'[i] = audience[i]
  BY <1>1, <1>3 DEF For
<1>5. \A i \in 1..Len(posted') : i \in 1..Len(posted) \/ i = Len(posted) + 1
  BY <1>1
<1> QED BY <1>1, <1>2, <1>4, <1>5

LEMMA NumberedStep == TypeOK /\ Numbered /\ [Next]_vars => Numbered'
<1> SUFFICES ASSUME TypeOK, Numbered, [Next]_vars PROVE Numbered'
  OBVIOUS
<1>0. /\ Len(posted) \in Nat /\ MaxMessages \in Nat /\ DOMAIN audience = 1..MaxMessages
      /\ Len(posted) <= MaxMessages
  BY TypeParts, DeliveryAssumption DEF PostTypes
<1>a. ASSUME NEW c \in Clients, NEW k, NEW to, Addressed(k, to), Asks(c, Message(k, c, to)),
             NEW D, For(D)
      PROVE  Numbered'
  <2>1. /\ Len(posted') = Len(posted) + 1
        /\ posted'[Len(posted) + 1] = Message(k, c, to)
        /\ \A i \in 1..MaxMessages : i /= Len(posted) + 1 => audience'[i] = audience[i]
        /\ \A i \in 1..Len(posted') : i \in 1..Len(posted) \/ i = Len(posted) + 1
    BY <1>a, NewMessage
  <2>2. Message(k, c, to).id = Len(posted) + 1
    BY DEF Message
  <2>3. \A i \in 1..Len(posted) : posted'[i] = posted[i]
    BY EarlierStay
  <2>4. ASSUME NEW i \in 1..Len(posted') PROVE posted'[i].id = i
    BY <2>1, <2>2, <2>3 DEF Numbered
  <2>5. ASSUME NEW i \in 1..MaxMessages, audience'[i] /= {} PROVE i <= Len(posted')
    <3>1. CASE i = Len(posted) + 1
      BY <1>0, <2>1, <3>1
    <3>2. CASE i /= Len(posted) + 1
      <4>1. i <= Len(posted)
        BY <2>1, <2>5, <3>2 DEF Numbered
      <4> QED BY <1>0, <2>1, <4>1
    <3> QED BY <3>1, <3>2
  <2> QED BY <2>4, <2>5 DEF Numbered
<1>b. ASSUME UNCHANGED posted, \A i \in 1..MaxMessages : audience'[i] \subseteq audience[i]
      PROVE  Numbered'
  BY <1>b DEF Numbered
<1>1. ASSUME NEW c \in Clients, Broadcast(c) PROVE Numbered'
  BY <1>1, <1>a DEF Broadcast, Addressed
<1>2. ASSUME NEW c \in Clients, NEW ch \in Channels, Publish(c, ch) PROVE Numbered'
  BY <1>2, <1>a DEF Publish, Addressed
<1>3. ASSUME NEW c \in Clients, NEW d \in Clients, Send(c, d) PROVE Numbered'
  BY <1>3, <1>a DEF Send, Addressed
<1>4. ASSUME NEW c \in Clients, Forget(c) PROVE \A i \in 1..MaxMessages : audience'[i] \subseteq audience[i]
  BY <1>4 DEF Forget
<1>5. ASSUME NEW l \in Link, CloseLink(l)
      PROVE  \A i \in 1..MaxMessages : audience'[i] \subseteq audience[i]
  BY <1>5 DEF CloseLink
<1>6. CASE UNCHANGED <<posted, audience>>
  BY <1>6, <1>b
<1> QED BY <1>b, <1>1, <1>2, <1>3, <1>4, <1>5, <1>6, PostedStep

\* A row of a client that nothing on its way to the state takes back stays,
\* unless he unsubscribes or the link to him closes.
LEMMA RowKept ==
    ASSUME TypeOK, [Next]_vars, NEW s \in States, NEW r \in subscriptions[s],
           \A e \in End : NewsOf("unsubscribe", r[2], r[3]) \notin OnWire(e),
           ~Unsubscribe(r[2], r[3]), \A l \in Link : CloseLink(l) => r[1] \notin {l, Peer(l)}
    PROVE  r \in subscriptions'[s]
<1> USE Shape
<1>0. TableTypes /\ WireType /\ DOMAIN subscriptions = States
  BY TypeParts DEF TableTypes
<1>1. ASSUME NEW c \in Clients, NEW ch \in Channels, Subscribe(c, ch) PROVE r \in subscriptions'[s]
  BY <1>0, <1>1 DEF Subscribe
<1>2. ASSUME NEW c \in Clients, NEW ch \in Channels, Unsubscribe(c, ch) PROVE r \in subscriptions'[s]
  <2>1. c /= r[2] \/ ch /= r[3]
    BY <1>2
  <2>2. r /= <<Home[c], c, ch>>
    BY <2>1
  <2> QED BY <1>0, <1>2, <2>2 DEF Unsubscribe
<1>3. ASSUME NEW e \in End, NEW m, ReadSubscription(e, m) PROVE r \in subscriptions'[s]
  <2>1. m \in Payload \cup News /\ m = wire[Peer(e)][1] /\ Len(wire[Peer(e)]) \in Nat \ {0}
    BY <1>0, <1>3, ReadsFacts DEF ReadSubscription
  <2>2. m.kind \in {"subscribe", "unsubscribe"} /\ m \in News
    BY <1>3, <2>1, MessageShape DEF ReadSubscription
  <2>3. subscriptions' = [subscriptions EXCEPT ![e[1]] =
            IF m.kind = "subscribe" THEN @ \cup {<<e, m.from, m.to>>}
                                    ELSE @ \ {<<e, m.from, m.to>>}]
    BY <1>3 DEF ReadSubscription
  <2>4. CASE m.kind = "subscribe"
    BY <1>0, <2>3, <2>4
  <2>5. CASE m.kind = "unsubscribe"
    <3>1. m = NewsOf("unsubscribe", m.from, m.to)
      BY <2>2, <2>5 DEF News, NewsOf
    <3>2. m \in OnWire(Peer(e))
      <4>1. 1 \in 1..Len(wire[Peer(e)])
        BY <2>1
      <4> QED BY <2>1, <4>1 DEF OnWire
    <3>3. m.from /= r[2] \/ m.to /= r[3]
      BY <3>1, <3>2
    <3>4. r /= <<e, m.from, m.to>>
      BY <3>3
    <3> QED BY <1>0, <2>3, <2>5, <3>4
  <2> QED BY <2>2, <2>4, <2>5
<1>4. ASSUME NEW l \in Link, CloseLink(l) PROVE r \in subscriptions'[s]
  BY <1>4 DEF CloseLink
<1>5. CASE UNCHANGED subscriptions
  BY <1>5
<1> QED
  BY <1>1, <1>2, <1>3, <1>4, <1>5
     DEF Next, Client, Task, Read, Accept, Leave, Broadcast, Publish, Send, GiveClient, GetSessions,
         GiveSession, Finish, ReadClient, ReadPayload, ReadSend, OpenLink, vars, tableVars
\* That a client is unsubscribed is put on a wire by him alone.
LEMMA WordKept ==
    ASSUME TypeOK, [Next]_vars, NEW d \in Clients, NEW ch \in Channels, NEW e \in End,
           NewsOf("unsubscribe", d, ch) \notin OnWire(e), \A x \in Channels : ~Unsubscribe(d, x)
    PROVE  NewsOf("unsubscribe", d, ch) \notin OnWire(e)'
<1> DEFINE w == NewsOf("unsubscribe", d, ch)
<1> USE Shape
<1>0. /\ TableTypes /\ WireType /\ TaskTypes /\ PostTypes /\ wire[e] \in Seq(Payload \cup News)
      /\ w \in News /\ w.from = d /\ w.kind = "unsubscribe"
  BY TypeParts, MessageShape DEF WireType, NewsOf
<1> HIDE DEF w
<1>1. CASE WireStays(e)
  BY <1>1 DEF WireStays, OnWire, w
<1>2. ASSUME NEW m \in Payload, WireGets(e, m) PROVE w \notin OnWire(e)'
  <2>1. OnWire(e)' = OnWire(e) \cup {m}
    BY <1>0, <1>2, AppendedOn DEF WireGets
  <2>2. m /= w
    BY <1>0, <1>2, MessageShape
  <2> QED BY <2>1, <2>2 DEF w
<1>3. ASSUME NEW m \in News, WireGets(e, m),
             m.kind /= "unsubscribe" \/ \E x \in Channels : Unsubscribe(m.from, x)
      PROVE  w \notin OnWire(e)'
  <2>1. OnWire(e)' = OnWire(e) \cup {m}
    BY <1>0, <1>3, AppendedOn DEF WireGets
  <2>2. m /= w
    BY <1>0, <1>3
  <2> QED BY <2>1, <2>2 DEF w
<1>4. CASE WireGives(e)
  <2>1. wire[e] /= <<>> /\ wire'[e] = Tail(wire[e])
    BY <1>0, <1>4, ReadsFacts DEF WireGives
  <2>2. Elems(wire[e]) = {Head(wire[e])} \cup Elems(wire'[e])
    BY <1>0, <2>1, ElemsFacts
  <2>3. w \notin Elems(wire[e])
    BY DEF OnWire, Elems, w
  <2> QED BY <2>2, <2>3 DEF OnWire, Elems, w
<1>5. ASSUME NEW l \in Link, OpenLink(l), e = Peer(l) PROVE w \notin OnWire(e)'
  <2>1. PICK js \in Orders({NewsOf("join", c, None) :
                              c \in {x \in Clients : clients[l[2]][x] = l[2]}}),
             ss \in Orders({NewsOf("subscribe", r[2], r[3]) :
                              r \in {x \in subscriptions[l[2]] : x[1] = l[2]}}) :
             wire' = [wire EXCEPT ![Peer(l)] = js \o ss]
    BY <1>5 DEF OpenLink
  <2> DEFINE J == {NewsOf("join", c, None) : c \in {x \in Clients : clients[l[2]][x] = l[2]}}
             S == {NewsOf("subscribe", r[2], r[3]) : r \in {x \in subscriptions[l[2]] : x[1] = l[2]}}
  <2>2. l[2] \in States
    OBVIOUS
  <2>3. J \in SUBSET News /\ S \in SUBSET News
    <3>1. \A r \in subscriptions[l[2]] : r[2] \in Clients /\ r[3] \in Channels
      BY <1>0, <2>2 DEF TableTypes
    <3> QED BY <3>1, MessageShape
  <2>4. \A m \in J \cup S : m.kind /= "unsubscribe"
    BY DEF NewsOf
  <2>5. js \in Orders(J) /\ ss \in Orders(S)
    BY <2>1
  <2>6. wire'[e] = js \o ss
    BY <1>0, <1>5, <2>1 DEF WireType
  <2> HIDE DEF J, S
  <2>7. /\ js \in Seq(News) /\ \A i \in 1..Len(js) : js[i] \in J
        /\ ss \in Seq(News) /\ \A i \in 1..Len(ss) : ss[i] \in S
    BY <2>3, <2>5, OrdersFacts
  <2>8. /\ Len(js \o ss) = Len(js) + Len(ss) /\ Len(js) \in Nat /\ Len(ss) \in Nat
        /\ \A i \in 1..Len(js \o ss) :
              (js \o ss)[i] = IF i <= Len(js) THEN js[i] ELSE ss[i - Len(js)]
    BY <2>7
  <2>9. \A i \in 1..Len(js \o ss) : (js \o ss)[i] \in J \cup S
    BY <2>7, <2>8
  <2>10. \A i \in 1..Len(wire'[e]) : wire'[e][i] /= w
    BY <1>0, <2>4, <2>6, <2>9
  <2> QED BY <2>10 DEF OnWire, w
<1>6. CASE WireClosed(e)
  <2>1. wire'[e] = <<>>
    BY <1>0, <1>6 DEF WireClosed, CloseLink, WireType
  <2> QED BY <2>1 DEF OnWire
<1> QED BY <1>0, <1>1, <1>2, <1>3, <1>4, <1>5, <1>6, WireChange DEF w

\* Whoever follows a channel follows it until he unsubscribes or is cut off.
Apart(l, m, d) == {Home[d], Home[m.from]} /= {l[1], l[2]}

LEMMA ApartFacts ==
    ASSUME NEW l \in Link, NEW m \in Payload, NEW d \in Clients, Apart(l, m, d)
    PROVE  Way(m, d) \notin {l, Peer(l)}
<1>1. Peer(l) = <<l[2], l[1]>>
  BY DEF Peer
<1>2. ASSUME Way(m, d) = l \/ Way(m, d) = Peer(l) PROVE FALSE
  BY <1>1, <1>2 DEF Way, Apart
<1> QED BY <1>2

\* The row that a message to a subscriber of another state is sent by.
LEMMA RowWay ==
    ASSUME RowsOrigin, RowsOver, NEW m \in Payload, NEW d \in Clients,
           NEW r \in subscriptions[Home[m.from]], r[2] = d
    PROVE  \/ r[1] = Home[m.from] /\ Home[d] = Home[m.from]
           \/ /\ r[1] = Way(m, d) /\ Way(m, d) \in End /\ Opened(Way(m, d))
              /\ Home[d] /= Home[m.from]
<1> USE Shape
<1>1. Home[m.from] \in States
  BY MessageShape
<1>2. CASE r[1] = Home[m.from]
  BY <1>1, <1>2 DEF RowsOrigin
<1>3. CASE Over(Home[m.from], d, r[1])
  <2>1. r[1] = <<Home[m.from], Home[d]>> /\ r[1] \in End /\ Opened(r[1])
    BY <1>3 DEF Over
  <2>2. Home[m.from] /= Home[d]
    BY <2>1
  <2> QED BY <2>1, <2>2 DEF Way
<1> QED BY <1>1, <1>2, <1>3 DEF RowsOver

LEMMA HeardKept ==
    ASSUME TypeOK, Origin, RowsOver, [Next]_vars, NEW m \in Payload, NEW d \in Clients, HeardOf(m, d),
           ~Leave(d), \A ch \in Channels : ~Unsubscribe(d, ch),
           \A l \in Link : CloseLink(l) => Apart(l, m, d)
    PROVE  HeardOf(m, d)'
<1> USE Shape
<1>0. TableTypes /\ RowsOrigin
  BY TypeParts DEF Origin
<1>1. stage'[d] = "in"
  <2>1. stage[d] = "in" /\ DOMAIN stage = Clients
    BY <1>0 DEF HeardOf, TableTypes
  <2>2. ASSUME NEW c \in Clients, Accept(c) PROVE stage'[d] = "in"
    BY <2>1, <2>2 DEF Accept
  <2>3. ASSUME NEW c \in Clients, Leave(c) PROVE stage'[d] = "in"
    BY <2>1, <2>3 DEF Leave
  <2>4. CASE UNCHANGED stage
    BY <2>1, <2>4
  <2> QED
    BY <2>2, <2>3, <2>4
       DEF Next, Client, Task, Read, ReadClient, ReadSubscription, ReadPayload, ReadSend,
           Subscribe, Unsubscribe, Broadcast, Publish, Send, GiveClient, GetSessions, GiveSession,
           Finish, OpenLink, CloseLink, vars, tableVars
<1>2. Home[d] /= Home[m.from] => Way(m, d) \in End /\ Opened(Way(m, d))'
  <2>1. \A l \in Link : CloseLink(l) => Way(m, d) \notin {l, Peer(l)}
    BY ApartFacts
  <2> QED BY <1>0, <2>1, StaysOpen DEF HeardOf
<1>3. ASSUME m.kind = "publish" PROVE Follows(d, m.to, Home[m.from])'
  <2>1. m.to \in Channels
    BY <1>3 DEF Payload
  <2>2. PICK r \in subscriptions[Home[m.from]] : r[2] = d /\ r[3] = m.to
    BY <1>3 DEF HeardOf, Follows
  <2>3. \A e \in End : NewsOf("unsubscribe", d, m.to) \notin OnWire(e)
    BY <1>3 DEF HeardOf, Follows
  <2>4. Home[m.from] \in States
    BY MessageShape
  <2>5. \A l \in Link : CloseLink(l) => r[1] \notin {l, Peer(l)}
    <3>1. r[1] \in States \/ r[1] = Way(m, d)
      BY <1>0, <2>2, <2>4, RowWay
    <3> QED BY <3>1, ApartFacts
  <2>6. r \in subscriptions'[Home[m.from]]
    BY <2>1, <2>2, <2>3, <2>4, <2>5, RowKept
  <2>7. \A e \in End : NewsOf("unsubscribe", d, m.to) \notin OnWire(e)'
    BY <2>1, <2>3, WordKept
  <2> QED BY <2>2, <2>6, <2>7 DEF Follows
<1>4. IF m.kind = "send" THEN m.to = d ELSE d /= m.from
  BY DEF HeardOf
<1> QED BY <1>1, <1>2, <1>3, <1>4 DEF HeardOf
\* Whom an earlier message is still for, he has heard of it and neither left nor
\* unsubscribed nor been cut off.
LEMMA StillFor ==
    ASSUME TypeOK, Addressees, [Next]_vars, NEW i \in 1..Len(posted), NEW d \in audience'[i]
    PROVE  /\ posted[i] \in Payload /\ d \in Clients /\ d \in audience[i] /\ HeardOf(posted[i], d)
           /\ ~Leave(d) /\ \A ch \in Channels : ~Unsubscribe(d, ch)
           /\ \A l \in Link : CloseLink(l) => Apart(l, posted[i], d)
<1>0. PostTypes
  BY TypeParts
<1>1. i \in 1..MaxMessages /\ ~(i > Len(posted))
  BY <1>0, DeliveryAssumption DEF PostTypes
<1>2. d \in audience[i] /\ posted[i] \in Payload
  BY <1>0, EarlierStay, QueueFacts DEF PostTypes
<1>3. d \in Clients /\ HeardOf(posted[i], d)
  BY <1>0, <1>1, <1>2 DEF PostTypes, Addressees
<1>4. ~Forget(d)
  BY <1>1 DEF Forget
<1>5. ~Leave(d) /\ \A ch \in Channels : ~Unsubscribe(d, ch)
  BY <1>4 DEF Leave, Unsubscribe
<1>6. ASSUME NEW l \in Link, CloseLink(l) PROVE Apart(l, posted[i], d)
  <2>1. audience'[i] = IF i > Len(posted) THEN {} ELSE
           {x \in audience[i] : {Home[x], Home[posted[i].from]} /= {l[1], l[2]}}
    BY <1>1, <1>6 DEF CloseLink
  <2> QED BY <1>1, <2>1 DEF Apart
<1> QED BY <1>2, <1>3, <1>5, <1>6

\* A broadcast or a publication begins: the strand of the client has everybody
\* before it, those of his state in its copy of the table.
LEMMA BegunReaches ==
    ASSUME TypeOK, Origin, NEW c \in Clients, NEW m \in Payload, m.from = c, Begin(c, m),
           NEW d \in Clients, d /= c, stage[d] = "in"
    PROVE  Reaches(m, d)'
<1> USE Shape
<1>0. TableTypes /\ TaskTypes /\ RowsOrigin
  BY TypeParts DEF Origin
<1>1. /\ task'[c] = [step |-> "clients", msg |-> m] /\ task'[c].step = "clients"
      /\ task'[c].msg = m /\ todo'[c] = Others(Home[c], c)
  BY <1>0 DEF Begin, TaskTypes
<1>2. InHand(c, m)'
  <2>1. task'[c] /= NoTask
    BY <1>1, MessageShape
  <2> QED BY <1>1, <2>1 DEF InHand
<1>3. Home[d] = Home[c] => d \in todo'[c]
  BY <1>0, <1>1 DEF RowsOrigin, Others
<1>4. ToGive(m, d)'
  BY <1>1, <1>2, <1>3 DEF ToGive
<1> QED BY <1>4 DEF Reaches

LEMMA NewBroadcast ==
    ASSUME TypeOK, Origin, NEW c \in Clients, Broadcast(c), NEW d \in audience'[Len(posted) + 1]
    PROVE  \E m \in Payload : m = posted'[Len(posted) + 1] /\ HeardOf(m, d)' /\ Reaches(m, d)'
<1> USE Shape
<1>0. PostTypes
  BY TypeParts
<1>1. PICK m \in Payload : /\ m = Message("broadcast", c, None) /\ m = posted'[Len(posted) + 1]
                           /\ m.kind = "broadcast" /\ m.from = c /\ Begin(c, m)
  <2>1. Message("broadcast", c, None) \in Payload /\ Addressed("broadcast", None)
    BY <1>0, AsksFacts DEF Broadcast, Addressed
  <2>2. posted'[Len(posted) + 1] = Message("broadcast", c, None)
    BY <2>1, NewMessage DEF Broadcast
  <2>3. /\ Message("broadcast", c, None).kind = "broadcast"
        /\ Message("broadcast", c, None).from = c
    BY DEF Message
  <2> QED BY <2>1, <2>2, <2>3 DEF Broadcast
<1>2. /\ d \in Clients \ {c} /\ stage[d] = "in"
      /\ Home[d] = Home[c] \/ <<Home[c], Home[d]>> \in SessionsOf(Home[c])
  <2>1. audience'[Len(posted) + 1] =
           {x \in Clients \ {c} : stage[x] = "in" /\
              (Home[x] = Home[c] \/ <<Home[c], Home[x]>> \in SessionsOf(Home[c]))}
    BY NewMessage DEF Broadcast, Addressed
  <2> QED BY <2>1
<1>3. UNCHANGED <<stage, open>>
  BY DEF Broadcast, tableVars
<1>4. HeardOf(m, d)'
  <2>1. Home[d] /= Home[c] => Way(m, d) \in End /\ Opened(Way(m, d))
    BY <1>1, <1>2 DEF SessionsOf, Way
  <2> QED BY <1>1, <1>2, <1>3, <2>1 DEF HeardOf, Opened
<1>5. Reaches(m, d)'
  BY <1>1, <1>2, BegunReaches
<1> QED BY <1>1, <1>4, <1>5

LEMMA NewPublish ==
    ASSUME TypeOK, Origin, RowsOver, NEW c \in Clients, NEW ch \in Channels, Publish(c, ch),
           NEW d \in audience'[Len(posted) + 1]
    PROVE  \E m \in Payload : m = posted'[Len(posted) + 1] /\ HeardOf(m, d)' /\ Reaches(m, d)'
<1> USE Shape
<1>0. PostTypes /\ RowsOrigin
  BY TypeParts DEF Origin
<1>1. PICK m \in Payload : /\ m = Message("publish", c, ch) /\ m = posted'[Len(posted) + 1]
                           /\ m.kind = "publish" /\ m.from = c /\ m.to = ch /\ Begin(c, m)
  <2>1. Message("publish", c, ch) \in Payload /\ Addressed("publish", ch)
    BY <1>0, AsksFacts DEF Publish, Addressed
  <2>2. posted'[Len(posted) + 1] = Message("publish", c, ch)
    BY <2>1, NewMessage DEF Publish
  <2>3. /\ Message("publish", c, ch).kind = "publish"
        /\ Message("publish", c, ch).from = c /\ Message("publish", c, ch).to = ch
    BY DEF Message
  <2> QED BY <2>1, <2>2, <2>3 DEF Publish
<1>2. d \in Clients \ {c} /\ stage[d] = "in" /\ Follows(d, ch, Home[c])
  <2>1. audience'[Len(posted) + 1] =
           {x \in Clients \ {c} : stage[x] = "in" /\ Follows(x, ch, Home[c])}
    BY NewMessage DEF Publish, Addressed
  <2> QED BY <2>1
<1>3. UNCHANGED <<stage, open, subscriptions, wire>>
  BY DEF Publish, tableVars
<1>4. HeardOf(m, d)'
  <2>1. PICK r \in subscriptions[Home[m.from]] : r[2] = d /\ r[3] = ch
    BY <1>1, <1>2 DEF Follows
  <2>2. Home[d] /= Home[m.from] => Way(m, d) \in End /\ Opened(Way(m, d))
    BY <1>0, <1>2, <2>1, RowWay
  <2>3. Follows(d, m.to, Home[m.from])'
    BY <1>1, <1>2, <1>3 DEF Follows, OnWire
  <2>4. Opened(Way(m, d)) => Opened(Way(m, d))'
    BY <1>3 DEF Opened
  <2> QED BY <1>1, <1>2, <1>3, <2>2, <2>3, <2>4 DEF HeardOf
<1>5. Reaches(m, d)'
  BY <1>1, <1>2, BegunReaches
<1> QED BY <1>1, <1>4, <1>5

LEMMA NewSend ==
    ASSUME TypeOK, Origin, RowsOver, NEW c \in Clients, NEW b \in Clients, Send(c, b),
           NEW d \in audience'[Len(posted) + 1]
    PROVE  \E m \in Payload : m = posted'[Len(posted) + 1] /\ HeardOf(m, d)' /\ Reaches(m, d)'
<1> USE Shape
<1>0. TableTypes /\ WireType /\ BoxType /\ PostTypes /\ RowsOrigin
  BY TypeParts DEF Origin
<1>1. PICK m \in Payload : /\ m = Message("send", c, b) /\ m = posted'[Len(posted) + 1]
                           /\ m.kind = "send" /\ m.from = c /\ m.to = b
  <2>1. Message("send", c, b) \in Payload /\ Addressed("send", b)
    BY <1>0, AsksFacts DEF Send, Addressed
  <2>2. posted'[Len(posted) + 1] = Message("send", c, b)
    BY <2>1, NewMessage DEF Send
  <2>3. /\ Message("send", c, b).kind = "send"
        /\ Message("send", c, b).from = c /\ Message("send", c, b).to = b
    BY DEF Message
  <2> QED BY <2>1, <2>2, <2>3
<1>2. PICK via : via = clients[Home[c]][b]
  OBVIOUS
<1>3. /\ inbox' = IF via = Home[c] THEN Given(Home[c], b, m) ELSE inbox
      /\ wire' = IF via \in SessionsOf(Home[c]) THEN [wire EXCEPT ![via] = Append(@, m)] ELSE wire
      /\ UNCHANGED <<stage, open>>
  BY <1>1, <1>2 DEF Send, tableVars
<1>4. d = b /\ via /= None /\ stage[d] = "in"
  <2>1. audience'[Len(posted) + 1] = IF via /= None /\ stage[b] = "in" THEN {b} ELSE {}
    BY <1>2, NewMessage DEF Send, Addressed
  <2> QED BY <2>1
<1>5. CASE via = Home[c]
  <2>1. Home[d] = Home[c]
    <3>1. Home[c] \in States /\ d \in Clients /\ clients[Home[c]][d] = Home[c]
      BY <1>2, <1>4, <1>5
    <3> QED BY <1>0, <3>1 DEF RowsOrigin
  <2>2. Got(m, d)'
    BY <1>0, <1>3, <1>4, <1>5, <2>1, GivenGot
  <2>3. HeardOf(m, d)'
    BY <1>1, <1>3, <1>4, <2>1 DEF HeardOf
  <2> QED BY <1>1, <2>2, <2>3 DEF Reaches
<1>6. CASE via /= Home[c]
  <2>1. Over(Home[c], d, via)
    BY <1>2, <1>4, <1>6 DEF RowsOver, RowOver
  <2>2. /\ via = Way(m, d) /\ via \in End /\ Opened(via) /\ via[1] = Home[c]
        /\ Home[d] /= Home[c]
    BY <1>1, <2>1 DEF Over, Way
  <2>3. wire'[via] = Append(wire[via], m)
    BY <1>0, <1>3, <2>2 DEF SessionsOf, WireType
  <2>4. OnWire(via)' = OnWire(via) \cup {m}
    BY <1>0, <2>2, <2>3, AppendedOn
  <2>5. PICK w \in End : w = Way(m, d)
    BY <2>2
  <2>6. m \in OnWire(w)'
    BY <2>2, <2>4, <2>5 DEF OnWire
  <2>7. Crossing(m, d)'
    BY <1>1, <2>2, <2>5, <2>6 DEF Crossing, Way
  <2>8. Opened(Way(m, d))'
    BY <1>3, <2>2 DEF Opened
  <2>9. HeardOf(m, d)'
    BY <1>1, <1>3, <1>4, <2>2, <2>8 DEF HeardOf
  <2> QED BY <1>1, <2>7, <2>9 DEF Reaches
<1> QED BY <1>5, <1>6
-----------------------------------------------------------------------------
(* A message that is on its way stays on it.                               *)

LEMMA InboxGrows ==
    ASSUME TypeOK, [Next]_vars, NEW d \in Clients
    PROVE  inbox'[d] = inbox[d] \/ \E m \in Payload : inbox'[d] = Append(inbox[d], m)
<1> DEFINE Goal == inbox'[d] = inbox[d] \/ \E m \in Payload : inbox'[d] = Append(inbox[d], m)
<1> USE Shape
<1>0. WireType /\ TaskTypes /\ BoxType /\ PostTypes
  BY TypeParts
<1>a. ASSUME NEW s \in States, NEW b \in Clients, NEW m \in Payload, inbox' \in {inbox, Given(s, b, m)}
      PROVE  Goal
  <2>1. Given(s, b, m)[d] = inbox[d] \/ Given(s, b, m)[d] = Append(inbox[d], m)
    BY <1>0, GivenFacts
  <2> QED BY <1>a, <2>1
<1>1. ASSUME NEW c \in Clients, NEW b \in Clients, Send(c, b) PROVE Goal
  <2>1. PICK m \in Payload : m = Message("send", c, b)
    BY <1>0, <1>1, AsksFacts DEF Send, Addressed
  <2>2. inbox' \in {inbox, Given(Home[c], b, m)}
    BY <1>1, <2>1 DEF Send
  <2> QED BY <1>a, <2>2
<1>2. ASSUME NEW a \in Actor, NEW c \in Clients, GiveClient(a, c) PROVE Goal
  <2>1. task[a].msg \in Payload /\ StateOf(a) \in States
    BY <1>0, <1>2, MessageShape DEF GiveClient, TaskTypes
  <2>2. inbox' \in {inbox, Given(StateOf(a), c, task[a].msg)}
    BY <1>2 DEF GiveClient
  <2> QED BY <1>a, <2>1, <2>2
<1>3. ASSUME NEW e \in End, NEW m, ReadSend(e, m) PROVE Goal
  <2>1. m \in Payload /\ m.to \in Clients /\ e[1] \in States
    BY <1>0, <1>3, ReadsFacts, MessageShape DEF ReadSend
  <2>2. inbox' \in {inbox, Given(e[1], m.to, m)}
    BY <1>3 DEF ReadSend
  <2> QED BY <1>a, <2>1, <2>2
<1>4. CASE UNCHANGED inbox
  BY <1>4
<1> QED
  BY <1>1, <1>2, <1>3, <1>4
     DEF Next, Client, Task, Read, ReadClient, ReadSubscription, ReadPayload, Accept, Leave,
         Subscribe, Unsubscribe, Broadcast, Publish, GetSessions, GiveSession, Finish,
         OpenLink, CloseLink, vars, taskVars

LEMMA GotStays ==
    ASSUME TypeOK, [Next]_vars, NEW m, NEW d \in Clients, Got(m, d)
    PROVE  Got(m, d)'
<1>1. inbox[d] \in Seq(Payload)
  BY TypeParts DEF BoxType
<1>2. PICK k \in 1..Len(inbox[d]) : inbox[d][k] = m
  BY DEF Got
<1>3. CASE inbox'[d] = inbox[d]
  BY <1>2, <1>3 DEF Got
<1>4. ASSUME NEW x \in Payload, inbox'[d] = Append(inbox[d], x) PROVE Got(m, d)'
  <2>1. /\ Len(inbox'[d]) = Len(inbox[d]) + 1 /\ Len(inbox[d]) \in Nat
        /\ inbox'[d][k] = inbox[d][k]
    BY <1>1, <1>4, QueueFacts
  <2>2. k \in 1..Len(inbox'[d])
    BY <2>1
  <2> QED BY <1>2, <2>1, <2>2 DEF Got
<1> QED BY <1>3, <1>4, InboxGrows

\* A task goes on only by itself.
LEMMA TaskGoesOn ==
    ASSUME TypeOK, [Next]_vars, NEW a \in Actor, task[a] /= NoTask
    PROVE  \/ task'[a] = task[a] /\ todo'[a] = todo[a]
           \/ Task(a)
<1> DEFINE Goal == (task'[a] = task[a] /\ todo'[a] = todo[a]) \/ Task(a)
<1> USE Shape
<1>0. /\ WireType /\ TaskTypes /\ PostTypes /\ DOMAIN task = Actor /\ DOMAIN todo = Actor
  BY TypeParts DEF TaskTypes
<1>a. CASE UNCHANGED <<task, todo>>
  BY <1>a
<1>1. ASSUME NEW b \in Actor, NEW m, Begin(b, m), task[b] = NoTask PROVE Goal
  BY <1>0, <1>1 DEF Begin
<1>2. ASSUME NEW c \in Clients, Broadcast(c) \/ \E ch \in Channels : Publish(c, ch) PROVE Goal
  <2>1. ASSUME Broadcast(c) PROVE \E m : Begin(c, m) /\ task[c] = NoTask
    BY <2>1 DEF Broadcast, Asks
  <2>2. ASSUME NEW ch \in Channels, Publish(c, ch) PROVE \E m : Begin(c, m) /\ task[c] = NoTask
    BY <2>2 DEF Publish, Asks
  <2>3. PICK m : Begin(c, m) /\ task[c] = NoTask
    BY <1>2, <2>1, <2>2
  <2> QED BY <1>1, <2>3
<1>3. ASSUME NEW e \in End, NEW m, ReadPayload(e, m) PROVE Goal
  BY <1>1, <1>3 DEF ReadPayload, Reads
<1>4. ASSUME NEW b \in Actor, Task(b) PROVE Goal
  <2>1. CASE b = a
    BY <1>4, <2>1
  <2>2. CASE b /= a
    BY <1>0, <1>4, <2>2 DEF Task, GiveClient, GetSessions, GiveSession, Finish
  <2> QED BY <2>1, <2>2
<1> HIDE DEF Goal
<1>5. UNCHANGED <<task, todo>> => Goal
  BY DEF Goal
<1>6. Goal
  BY <1>2, <1>3, <1>4, <1>5
     DEF Next, Client, Read, ReadClient, ReadSubscription, ReadSend, Accept, Leave,
         Subscribe, Unsubscribe, Send, OpenLink, CloseLink, vars, taskVars
<1> QED BY <1>6 DEF Goal

\* The sender's own state.
LEMMA ToGiveStays ==
    ASSUME TypeOK, Origin, RowsOver, [Next]_vars, NEW m \in Payload, NEW d \in Clients,
           HeardOf(m, d), ToGive(m, d)
    PROVE  Reaches(m, d)'
<1> DEFINE a == m.from
<1> USE Shape
<1>0. /\ TableTypes /\ WireType /\ TaskTypes /\ BoxType /\ RowsOrigin /\ TaskOrigin
      /\ DOMAIN todo = Actor /\ DOMAIN task = Actor
  BY TypeParts DEF Origin, TaskTypes
<1>1. a \in Clients /\ a \in Actor /\ StateOf(a) = Home[a] /\ PassesOn(a)
  BY MessageShape DEF PassesOn
<1>2. /\ task[a] /= NoTask /\ task[a].msg = m /\ m.kind \in {"broadcast", "publish"}
      /\ task[a].step \in {"clients", "sessions"}
      /\ task[a] \in [step : {"clients", "sessions"}, msg : Payload]
  BY <1>0, <1>1 DEF ToGive, InHand, TaskOrigin, TaskTypes
<1>3. IF Home[d] = Home[a] THEN task[a].step = "clients" /\ d \in todo[a]
                           ELSE task[a].step = "clients" \/ Way(m, d) \in todo[a]
  BY DEF ToGive
<1>4. CASE task'[a] = task[a] /\ todo'[a] = todo[a]
  <2>1. ToGive(m, d)'
    BY <1>2, <1>3, <1>4 DEF ToGive, InHand
  <2> QED BY <2>1 DEF Reaches
<1>5. ASSUME NEW c \in Clients, GiveClient(a, c) PROVE Reaches(m, d)'
  <2>1. UNCHANGED task /\ task[a].step = "clients" /\ todo'[a] = todo[a] \ {c}
        /\ inbox' = Given(Home[a], c, m)
    BY <1>0, <1>1, <1>2, <1>5 DEF GiveClient
  <2>2. CASE Home[d] = Home[a] /\ c = d
    <3>1. Got(m, d)'
      BY <1>0, <2>1, <2>2, GivenGot DEF HeardOf
    <3> QED BY <3>1 DEF Reaches
  <2>3. CASE ~(Home[d] = Home[a] /\ c = d)
    <3>1. ToGive(m, d)'
      BY <1>2, <1>3, <2>1, <2>3 DEF ToGive, InHand
    <3> QED BY <3>1 DEF Reaches
  <2> QED BY <2>2, <2>3
<1>6. ASSUME GetSessions(a) PROVE Reaches(m, d)'
  <2>1. /\ task[a].step = "clients" /\ todo[a] = {}
        /\ task' = [task EXCEPT ![a] = [@ EXCEPT !.step = "sessions"]]
    BY <1>6 DEF GetSessions
  <2>2. todo'[a] = IF m.kind = "broadcast" THEN SessionsOf(Home[a]) ELSE Receivers(Home[a], m.to)
    BY <1>0, <1>1, <1>2, <1>6 DEF GetSessions
  <2>3. /\ Home[d] /= Home[a] /\ Way(m, d) \in End /\ Opened(Way(m, d))
        /\ Way(m, d)[1] = Home[a]
    BY <1>3, <2>1 DEF HeardOf, Way
  <2>4. Way(m, d) \in SessionsOf(Home[a])
    BY <2>3 DEF SessionsOf
  <2>5. Way(m, d) \in todo'[a]
    <3>1. CASE m.kind = "broadcast"
      BY <2>2, <2>4, <3>1
    <3>2. CASE m.kind = "publish"
      <4>1. PICK r \in subscriptions[Home[a]] : r[2] = d /\ r[3] = m.to
        BY <3>2 DEF HeardOf, Follows
      <4>2. r[1] = Way(m, d)
        BY <1>0, <2>3, <4>1, RowWay
      <4> QED BY <2>2, <2>4, <3>2, <4>1, <4>2 DEF Receivers
    <3> QED BY <1>2, <3>1, <3>2
  <2>6. /\ task'[a] = [task[a] EXCEPT !.step = "sessions"]
        /\ task'[a].step = "sessions" /\ task'[a].msg = m
    BY <1>0, <1>1, <1>2, <2>1
  <2>7. task'[a] /= NoTask
    BY <2>6, MessageShape
  <2>8. ToGive(m, d)'
    BY <2>3, <2>5, <2>6, <2>7 DEF ToGive, InHand
  <2> QED BY <2>8 DEF Reaches
<1>7. ASSUME NEW e \in End, GiveSession(a, e) PROVE Reaches(m, d)'
  <2>1. UNCHANGED task /\ task[a].step = "sessions" /\ todo'[a] = todo[a] \ {e}
    BY <1>0, <1>1, <1>7 DEF GiveSession
  <2>2. Home[d] /= Home[a] /\ Way(m, d) \in todo[a] /\ Way(m, d) \in End /\ Opened(Way(m, d))
    BY <1>3, <2>1 DEF HeardOf
  <2>3. CASE e = Way(m, d)
    <3>1. wire'[e] = Append(wire[e], m)
      BY <1>0, <1>2, <1>7, <2>2, <2>3 DEF GiveSession, WireType
    <3>2. OnWire(e)' = OnWire(e) \cup {m}
      BY <1>0, <3>1, AppendedOn
    <3>3. m \in OnWire(e)'
      BY <3>2
    <3>4. Crossing(m, d)'
      BY <2>2, <2>3, <3>3 DEF Crossing, Way
    <3> QED BY <3>4 DEF Reaches
  <2>4. CASE e /= Way(m, d)
    <3>1. ToGive(m, d)'
      BY <1>2, <2>1, <2>2, <2>4 DEF ToGive, InHand
    <3> QED BY <3>1 DEF Reaches
  <2> QED BY <2>3, <2>4
<1>8. ASSUME Finish(a) PROVE FALSE
  <2>1. todo[a] = {} /\ task[a].step = "sessions"
    BY <1>1, <1>8 DEF Finish
  <2> QED BY <1>3, <2>1
<1>9. (task'[a] = task[a] /\ todo'[a] = todo[a]) \/ Task(a)
  BY <1>1, <1>2, TaskGoesOn
<1> QED BY <1>4, <1>5, <1>6, <1>7, <1>8, <1>9 DEF Task
\* On the wire between the two states, and in the hand of the session there.
LEMMA CrossingStays ==
    ASSUME TypeOK, Origin, Silent, [Next]_vars, NEW m \in Payload, NEW d \in Clients,
           HeardOf(m, d), Home[d] /= Home[m.from], m \in OnWire(Way(m, d)),
           \A l \in Link : CloseLink(l) => Apart(l, m, d)
    PROVE  Reaches(m, d)'
<1> USE Shape
<1>0. /\ TableTypes /\ WireType /\ TaskTypes /\ BoxType /\ PostTypes /\ RowsOrigin
      /\ DOMAIN todo = Actor /\ DOMAIN task = Actor
  BY TypeParts DEF Origin, TaskTypes
<1>1. PICK w \in End : w = Way(m, d)
  BY DEF HeardOf
<1>2. /\ Opened(w) /\ m \in OnWire(w) /\ wire[w] \in Seq(Payload \cup News)
      /\ Peer(w) \in End /\ Peer(w)[1] = Home[d] /\ Peer(Peer(w)) = w
  BY <1>0, <1>1 DEF HeardOf, Way, WireType
<1>a. ASSUME m \in OnWire(w)' PROVE Reaches(m, d)'
  <2>1. Crossing(m, d)'
    BY <1>1, <1>a DEF Crossing, Way
  <2> QED BY <2>1 DEF Reaches
<1>3. CASE WireStays(w)
  BY <1>2, <1>3, <1>a DEF WireStays, OnWire
<1>4. ASSUME NEW x \in Payload \cup News, WireGets(w, x) PROVE Reaches(m, d)'
  BY <1>0, <1>2, <1>4, <1>a, AppendedOn DEF WireGets
<1>5. CASE WireGives(w)
  <2>1. PICK x : /\ Reads(Peer(w), x)
                 /\ \/ ReadClient(Peer(w), x) \/ ReadSubscription(Peer(w), x)
                    \/ ReadPayload(Peer(w), x) \/ ReadSend(Peer(w), x)
    BY <1>5 DEF WireGives
  <2>2. wire[w] /= <<>> /\ wire'[w] = Tail(wire[w]) /\ x = Head(wire[w]) /\ x \in Payload \cup News
    BY <1>0, <1>2, <2>1, ReadsFacts
  <2>3. Elems(wire[w]) = {x} \cup Elems(wire'[w])
    BY <1>2, <2>2, ElemsFacts
  <2>4. m = x \/ m \in OnWire(w)'
    BY <1>2, <2>3 DEF OnWire, Elems
  <2>5. ASSUME m = x PROVE Reaches(m, d)'
    <3>1. m.kind \in {"broadcast", "publish", "send"}
      BY MessageShape
    <3>2. clients[Home[d]][d] = Home[d] /\ stage[d] = "in"
      BY <1>0 DEF HeardOf, RowsOrigin
    <3>3. CASE ReadPayload(Peer(w), m)
      <4>1. Begin(Peer(w), m) /\ m.kind \in {"broadcast", "publish"}
        BY <3>3 DEF ReadPayload
      <4>2. d /= m.from
        BY <4>1 DEF HeardOf
      <4>3. /\ task'[Peer(w)] = [step |-> "clients", msg |-> m]
            /\ task'[Peer(w)].step = "clients" /\ task'[Peer(w)].msg = m
            /\ todo'[Peer(w)] = Others(Home[d], m.from)
        BY <1>0, <1>2, <4>1 DEF Begin
      <4>4. d \in todo'[Peer(w)]
        BY <3>2, <4>2, <4>3 DEF Others
      <4>5. task'[Peer(w)] /= NoTask
        BY <4>3, MessageShape
      <4>6. InHand(Peer(w), m)'
        BY <4>3, <4>5 DEF InHand
      <4>7. Crossing(m, d)'
        BY <1>1, <4>4, <4>6 DEF Crossing, Way, InHand, Peer
      <4> QED BY <4>7 DEF Reaches
    <3>4. CASE ReadSend(Peer(w), m)
      <4>1. m.kind = "send"
        BY <3>4 DEF ReadSend
      <4>2. m.to = d
        BY <4>1 DEF HeardOf
      <4>3. inbox' = Given(Home[d], d, m)
        BY <1>2, <3>2, <3>4, <4>2 DEF ReadSend
      <4>4. Got(m, d)'
        BY <1>0, <3>2, <4>3, GivenGot
      <4> QED BY <4>4 DEF Reaches
    <3>5. ~ReadClient(Peer(w), m) /\ ~ReadSubscription(Peer(w), m)
      BY <3>1 DEF ReadClient, ReadSubscription
    <3> QED BY <2>1, <2>5, <3>3, <3>4, <3>5
  <2> QED BY <1>a, <2>4, <2>5
<1>6. ASSUME NEW l \in Link, OpenLink(l), w = Peer(l) PROVE FALSE
  <2>1. Peer(w) = l /\ l \notin open /\ Peer(l) \notin Link /\ open \subseteq Link
    BY <1>0, <1>6, DeliveryAssumption DEF OpenLink, TableTypes, Peer
  <2> QED BY <1>2, <1>6, <2>1 DEF Opened
<1>7. CASE WireClosed(w)
  BY <1>1, <1>7, ApartFacts DEF WireClosed
<1> QED BY <1>0, <1>3, <1>4, <1>5, <1>6, <1>7, WireChange

LEMMA InHandStays ==
    ASSUME TypeOK, Origin, [Next]_vars, NEW m \in Payload, NEW d \in Clients, HeardOf(m, d),
           Home[d] /= Home[m.from], InHand(Peer(Way(m, d)), m), d \in todo[Peer(Way(m, d))]
    PROVE  Reaches(m, d)'
<1> USE Shape
<1>0. /\ TableTypes /\ WireType /\ TaskTypes /\ BoxType /\ TaskOrigin
      /\ DOMAIN todo = Actor /\ DOMAIN task = Actor
  BY TypeParts DEF Origin, TaskTypes
<1>1. PICK a \in End : a = Peer(Way(m, d))
  BY DEF HeardOf
<1>2. /\ task[a] /= NoTask /\ task[a].msg = m /\ d \in todo[a]
      /\ a \in Actor /\ a \notin Clients /\ StateOf(a) = Home[d]
  <2>1. StateOf(a) = a[1] /\ a \in Actor /\ a \notin Clients
    OBVIOUS
  <2>2. a[1] = Home[d]
    BY <1>1 DEF Peer, Way
  <2> QED BY <1>1, <2>1, <2>2 DEF InHand
<1>a. ASSUME task'[a] = task[a], d \in todo'[a] PROVE Reaches(m, d)'
  <2>1. InHand(a, m)'
    BY <1>2, <1>a DEF InHand
  <2>2. Crossing(m, d)'
    BY <1>1, <1>a, <2>1 DEF Crossing, Way, Peer, InHand
  <2> QED BY <2>2 DEF Reaches
<1>3. CASE task'[a] = task[a] /\ todo'[a] = todo[a]
  BY <1>2, <1>3, <1>a
<1>4. ASSUME NEW c \in Clients, GiveClient(a, c) PROVE Reaches(m, d)'
  <2>1. UNCHANGED task /\ todo'[a] = todo[a] \ {c} /\ inbox' = Given(Home[d], c, m)
    BY <1>0, <1>2, <1>4 DEF GiveClient
  <2>2. CASE c = d
    <3>1. Got(m, d)'
      BY <1>0, <2>1, <2>2, GivenGot DEF HeardOf
    <3> QED BY <3>1 DEF Reaches
  <2>3. CASE c /= d
    BY <1>2, <1>a, <2>1, <2>3
  <2> QED BY <2>2, <2>3
<1>5. ASSUME GetSessions(a) PROVE FALSE
  BY <1>2, <1>5 DEF GetSessions, PassesOn
<1>6. ASSUME NEW e \in End, GiveSession(a, e) PROVE FALSE
  <2>1. task[a].step = "sessions"
    BY <1>6 DEF GiveSession
  <2> QED BY <1>0, <1>2, <2>1 DEF TaskOrigin
<1>7. ASSUME Finish(a) PROVE FALSE
  BY <1>2, <1>7 DEF Finish
<1>8. (task'[a] = task[a] /\ todo'[a] = todo[a]) \/ Task(a)
  BY <1>2, TaskGoesOn
<1> QED BY <1>3, <1>4, <1>5, <1>6, <1>7, <1>8 DEF Task

\* Every message after a step, for everybody whom it is for.
LEMMA Onwards ==
    ASSUME TypeOK, Origin, Silent, RowsOver, Addressees, Reaching, [Next]_vars,
           NEW i \in 1..Len(posted'), NEW d \in audience'[i]
    PROVE  \E m \in Payload : m = posted'[i] /\ HeardOf(m, d)' /\ Reaches(m, d)'
<1> DEFINE Goal == \E m \in Payload : m = posted'[i] /\ HeardOf(m, d)' /\ Reaches(m, d)'
<1>1. CASE i \in 1..Len(posted)
  <2>1. /\ posted[i] \in Payload /\ d \in Clients /\ d \in audience[i] /\ HeardOf(posted[i], d)
        /\ ~Leave(d) /\ \A ch \in Channels : ~Unsubscribe(d, ch)
        /\ \A l \in Link : CloseLink(l) => Apart(l, posted[i], d)
    BY <1>1, StillFor
  <2>2. PICK m \in Payload : m = posted[i]
    BY <2>1
  <2>3. m = posted'[i]
    BY <1>1, <2>2, EarlierStay
  <2>4. HeardOf(m, d) /\ \A l \in Link : CloseLink(l) => Apart(l, m, d)
    BY <2>1, <2>2
  <2>5. HeardOf(m, d)'
    BY <2>1, <2>4, HeardKept
  <2>6. Reaches(m, d)
    BY <1>1, <2>1, <2>2 DEF Reaching
  <2>7. ASSUME Got(m, d) PROVE Reaches(m, d)'
    BY <2>1, <2>7, GotStays DEF Reaches
  <2>8. ASSUME ToGive(m, d) PROVE Reaches(m, d)'
    BY <2>1, <2>4, <2>8, ToGiveStays
  <2>9. ASSUME Crossing(m, d) PROVE Reaches(m, d)'
    BY <2>1, <2>4, <2>9, CrossingStays, InHandStays DEF Crossing
  <2>10. Reaches(m, d)'
    BY <2>6, <2>7, <2>8, <2>9 DEF Reaches
  <2> QED BY <2>3, <2>5, <2>10
<1>2. CASE i \notin 1..Len(posted)
  <2>a. ASSUME NEW c \in Clients, NEW k, NEW to, Addressed(k, to), Asks(c, Message(k, c, to)),
               NEW D, For(D)
        PROVE  i = Len(posted) + 1
    BY <1>2, <2>a, NewMessage
  <2>1. ASSUME NEW c \in Clients, Broadcast(c) PROVE Goal
    <3>1. i = Len(posted) + 1
      BY <2>1, <2>a DEF Broadcast, Addressed
    <3> QED BY <2>1, <3>1, NewBroadcast
  <2>2. ASSUME NEW c \in Clients, NEW ch \in Channels, Publish(c, ch) PROVE Goal
    <3>1. i = Len(posted) + 1
      BY <2>2, <2>a DEF Publish, Addressed
    <3> QED BY <2>2, <3>1, NewPublish
  <2>3. ASSUME NEW c \in Clients, NEW b \in Clients, Send(c, b) PROVE Goal
    <3>1. i = Len(posted) + 1
      BY <2>3, <2>a DEF Send, Addressed
    <3> QED BY <2>3, <3>1, NewSend
  <2>4. posted' /= posted
    BY <1>2
  <2> HIDE DEF Goal
  <2>5. Goal
    BY <2>1, <2>2, <2>3, <2>4, PostedStep
  <2> QED BY <2>5 DEF Goal
<1> QED BY <1>1, <1>2

-----------------------------------------------------------------------------
(* The theorem.                                                            *)

LEMMA ReachInit == Init => ReachInv
<1> SUFFICES ASSUME Init PROVE ReachInv
  OBVIOUS
<1>1. posted = <<>> /\ Len(posted) = 0 /\ 1..Len(posted) = {}
  BY DEF Init
<1>2. Addressees /\ Reaching
  BY <1>1 DEF Addressees, Reaching
<1>3. Numbered
  BY <1>1 DEF Init, Numbered
<1>4. Silent
  BY DEF Init, Silent
<1>5. RowsOver
  BY DEF Init, RowsOver, RowOver
<1> QED BY <1>2, <1>3, <1>4, <1>5 DEF ReachInv

LEMMA ReachStep == TypeOK /\ Origin /\ ReachInv /\ [Next]_vars => ReachInv'
<1> SUFFICES ASSUME TypeOK, Origin, Silent, RowsOver, Numbered, Addressees, Reaching, [Next]_vars
             PROVE  ReachInv'
  BY DEF ReachInv
<1>1. Silent' /\ RowsOver' /\ Numbered'
  BY SilentStep, RowsOverStep, NumberedStep
<1>2. ASSUME NEW i \in 1..Len(posted'), NEW d \in audience'[i]
      PROVE  HeardOf(posted[i], d)' /\ Reaches(posted[i], d)'
  <2>1. PICK m \in Payload : m = posted'[i] /\ HeardOf(m, d)' /\ Reaches(m, d)'
    BY <1>2, Onwards
  <2>2. HeardOf(posted[i], d)'
    BY <2>1 DEF HeardOf, Way, Follows, Opened, Peer
  <2>3. Got(m, d)' => Got(posted[i], d)'
    BY <2>1 DEF Got
  <2>4. ToGive(m, d)' => ToGive(posted[i], d)'
    BY <2>1 DEF ToGive, InHand, Way
  <2>5. Crossing(m, d)' => Crossing(posted[i], d)'
    BY <2>1 DEF Crossing, InHand, Way, Peer, OnWire
  <2> QED BY <2>1, <2>2, <2>3, <2>4, <2>5 DEF Reaches
<1>3. Addressees' /\ Reaching'
  BY <1>2 DEF Addressees, Reaching
<1> QED BY <1>1, <1>3 DEF ReachInv

LEMMA ReachEnough == TypeOK /\ ReachInv => AllReached
<1> SUFFICES ASSUME TypeOK, Numbered, Addressees, Reaching,
                    NEW i \in 1..Len(posted), NEW d \in audience[i], ~Got(posted[i], d)
             PROVE  UnderWay(i)
  BY DEF ReachInv, AllReached, Got
<1>1. posted[i].id = i
  BY DEF Numbered
<1>2. posted[i] \in Payload /\ posted[i].from \in Clients /\ posted[i].from \in Actor
  BY TypeParts, QueueFacts, MessageShape, Shape DEF PostTypes
<1>3. ASSUME NEW a \in Actor, InHand(a, posted[i]) PROVE UnderWay(i)
  BY <1>1, <1>3 DEF InHand, UnderWay
<1>4. CASE ToGive(posted[i], d)
  BY <1>2, <1>3, <1>4 DEF ToGive
<1>5. CASE Crossing(posted[i], d)
  <2>1. Way(posted[i], d) \in End
    BY <1>5 DEF Crossing, Addressees, HeardOf
  <2>2. Peer(Way(posted[i], d)) \in Actor
    BY <2>1, Shape
  <2>3. CASE posted[i] \in OnWire(Way(posted[i], d))
    BY <1>1, <2>1, <2>3 DEF UnderWay
  <2>4. CASE InHand(Peer(Way(posted[i], d)), posted[i])
    BY <1>3, <2>2, <2>4
  <2> QED BY <1>5, <2>3, <2>4 DEF Crossing
<1>6. Reaches(posted[i], d)
  BY DEF Reaching
<1> QED BY <1>4, <1>5, <1>6 DEF Reaches

(* Nobody is left out of a broadcast, a publication or a message to one      *)
(* client, although the tables are copied, asked and sent to in steps of     *)
(* their own, at the same time as other strands change them: as long as he   *)
(* is there and subscribed, and the states are linked, the message is in     *)
(* the hand of the sender's strand, on the wire between the states or in     *)
(* the hand of the session there, and with nobody only when he has it.       *)
THEOREM NobodyLeftOut == Spec => []AllReached
<1>1. Init => TypeOK /\ Origin /\ ReachInv
  BY TypeInit, OriginInit, ReachInit
<1>2. (TypeOK /\ Origin /\ ReachInv) /\ [Next]_vars => (TypeOK /\ Origin /\ ReachInv)'
  BY TypeStep, OriginStep, ReachStep
<1> QED BY <1>1, <1>2, ReachEnough, PTL DEF Spec
=============================================================================
