--------------------------- MODULE DeliveryProofs ---------------------------
(***************************************************************************)
(* Theorems about Delivery, for any states, clients, channels and links.   *)
(*                                                                         *)
(* Origin says where what a state holds or sends comes from, and Line, for *)
(* every sender and every receiver, that a later message is behind an      *)
(* earlier one on the whole way: from the task of the sender over the wire *)
(* and the task of the session there to the inbox.                         *)
(***************************************************************************)
EXTENDS Delivery, FiniteSetTheorems, SequenceTheorems, TLAPS

-----------------------------------------------------------------------------
(* The invariant.                                                          *)

IsPayload(m) == m.id >= 1

\* The rows of a state's own clients are for clients that are connected to it,
\* and there as long as they are; a message on a wire is on behalf of a client
\* of the state that sent it.
RowsOrigin ==
    /\ \A s \in States, c \in Clients : clients[s][c] = s => Home[c] = s
    /\ \A c \in Clients : stage[c] = "in" => clients[Home[c]][c] = Home[c]
    /\ \A s \in States : \A r \in subscriptions[s] : r[1] = s => Home[r[2]] = s

WireOrigin == \A e \in End : \A i \in 1..Len(wire[e]) : Home[wire[e][i].from] = e[1]

\* A client delivers what it has sent itself, a session what its peer has; only
\* a client gives anything to sessions, to those of its state.
TaskOrigin ==
    \A a \in Actor : task[a] /= NoTask =>
        /\ IF a \in Clients THEN task[a].msg.from = a ELSE Home[task[a].msg.from] = a[2]
        /\ task[a].msg.kind \in {"broadcast", "publish"}
        /\ task[a].step = "clients" => \A c \in todo[a] : Home[c] = StateOf(a)
        /\ task[a].step = "sessions" => a \in Clients /\ \A e \in todo[a] : e[1] = Home[a]

InboxOrigin ==
    \A c \in Clients : \A i \in 1..Len(inbox[c]) :
        inbox[c][i].kind = "send" \/ inbox[c][i].from /= c

Origin == RowsOrigin /\ WireOrigin /\ TaskOrigin /\ InboxOrigin

-----------------------------------------------------------------------------
(* States, clients and sessions; queues.                                   *)

LEMMA Shape ==
    /\ \A e \in End : /\ Peer(e) \in End /\ Peer(Peer(e)) = e
                      /\ e[1] \in States /\ e[2] \in States /\ e[1] /= e[2]
                      /\ Peer(e)[1] = e[2] /\ Peer(e)[2] = e[1] /\ e = <<e[1], e[2]>>
                      /\ e \notin Clients /\ e \notin States /\ e /= None
                      /\ e \in Actor /\ e \in Holder /\ StateOf(e) = e[1]
    /\ \A c \in Clients : /\ c \in Actor /\ c \notin End /\ c \notin States
                          /\ Home[c] \in States /\ StateOf(c) = Home[c]
    /\ \A s \in States : s \in Holder /\ s \notin End /\ s /= None
    /\ \A l \in Link : l \in End /\ Peer(l) \in End /\ l[1] \in States /\ l[2] \in States
    /\ \A a \in Actor : (a \in Clients \/ a \in End) /\ StateOf(a) \in States
<1>0. /\ \A l \in Link : l \in States \X States /\ l[1] /= l[2]
      /\ \A e \in States \X States : /\ e[1] \in States /\ e[2] \in States /\ e = <<e[1], e[2]>>
                                     /\ Peer(e) \in States \X States /\ Peer(Peer(e)) = e
                                     /\ Peer(e)[1] = e[2] /\ Peer(e)[2] = e[1]
  BY DeliveryAssumption DEF Peer
<1>1. \A e \in End : /\ e \in States \X States /\ e[1] /= e[2] /\ Peer(e) \in End
  <2> SUFFICES ASSUME NEW e \in End PROVE e \in States \X States /\ e[1] /= e[2] /\ Peer(e) \in End
    OBVIOUS
  <2>1. CASE e \in Link
    BY <1>0, <2>1 DEF End
  <2>2. CASE \E l \in Link : e = Peer(l)
    <3>1. PICK l \in Link : e = Peer(l)
      BY <2>2
    <3>2. Peer(e) = l
      BY <1>0, <3>1
    <3> QED BY <1>0, <3>1, <3>2 DEF End
  <2> QED BY <2>1, <2>2 DEF End
<1>2. \A e \in End : /\ e[1] \in States /\ e[2] \in States /\ e = <<e[1], e[2]>>
                     /\ Peer(e)[1] = e[2] /\ Peer(e)[2] = e[1] /\ Peer(Peer(e)) = e
  BY <1>0, <1>1
<1>3. \A e \in End : /\ e \notin Clients /\ e \notin States /\ e /= None
                     /\ e \in Actor /\ e \in Holder /\ StateOf(e) = e[1]
  BY <1>1, DeliveryAssumption DEF Actor, Holder, StateOf
<1>4. \A c \in Clients : /\ c \in Actor /\ c \notin End /\ c \notin States
                         /\ Home[c] \in States /\ StateOf(c) = Home[c]
  BY <1>1, DeliveryAssumption DEF Actor, StateOf
<1>5. \A s \in States : s \in Holder /\ s \notin End /\ s /= None
  BY <1>1, DeliveryAssumption DEF Holder
<1>6. \A l \in Link : l \in End /\ Peer(l) \in End /\ l[1] \in States /\ l[2] \in States
  BY <1>1, <1>2 DEF End
<1>7. \A a \in Actor : (a \in Clients \/ a \in End) /\ StateOf(a) \in States
  BY <1>2, <1>3, <1>4 DEF Actor
<1> QED BY <1>1, <1>2, <1>3, <1>4, <1>5, <1>6, <1>7

\* What is taken from a queue, and what is put into it.
LEMMA QueueFacts ==
    ASSUME NEW S, NEW q \in Seq(S)
    PROVE  /\ Len(q) \in Nat /\ \A i \in 1..Len(q) : q[i] \in S
           /\ q /= <<>> => /\ Head(q) \in S /\ Head(q) = q[1]
                           /\ Tail(q) \in Seq(S) /\ Len(Tail(q)) = Len(q) - 1
                           /\ Len(q) \in Nat \ {0}
                           /\ \A i \in 1..Len(Tail(q)) : Tail(q)[i] = q[i + 1]
           /\ \A x \in S : /\ Append(q, x) \in Seq(S)
                           /\ Len(Append(q, x)) = Len(q) + 1
                           /\ Append(q, x)[Len(q) + 1] = x
                           /\ \A i \in 1..Len(q) : Append(q, x)[i] = q[i]
OBVIOUS

LEMMA MessageShape ==
    /\ \A m \in Payload : /\ IsPayload(m) /\ m.from \in Clients /\ m.id \in 1..MaxMessages
                          /\ m.kind \in {"broadcast", "publish", "send"}
                          /\ m.kind = "send" => m.to \in Clients
    /\ \A m \in News : /\ ~IsPayload(m) /\ m.from \in Clients /\ m.id = 0
                       /\ m.kind \in {"join", "leave", "subscribe", "unsubscribe"}
                       /\ m.kind \in {"subscribe", "unsubscribe"} => m.to \in Channels
    /\ \A c \in Clients : NewsOf("join", c, None) \in News /\ NewsOf("leave", c, None) \in News
    /\ \A c \in Clients, ch \in Channels : /\ NewsOf("subscribe", c, ch) \in News
                                           /\ NewsOf("unsubscribe", c, ch) \in News
    /\ NoTask.step = "idle"
BY DeliveryAssumption DEF Payload, News, NewsOf, IsPayload, NoTask

\* Forwarded puts at most the one message behind what is on a wire.
LEMMA ForwardedFacts ==
    ASSUME NEW s \in States, NEW m \in Payload \cup News, wire \in [End -> Seq(Payload \cup News)]
    PROVE  /\ Forwarded(s, m) \in [End -> Seq(Payload \cup News)]
           /\ \A e \in End : \/ Forwarded(s, m)[e] = wire[e]
                             \/ e[1] = s /\ Forwarded(s, m)[e] = Append(wire[e], m)
<1>1. \A e \in End : Append(wire[e], m) \in Seq(Payload \cup News)
  BY QueueFacts
<1> QED BY <1>1 DEF Forwarded, SessionsOf

-----------------------------------------------------------------------------
(* Types.                                                                  *)

TableTypes ==
    /\ stage \in [Clients -> {"out", "in", "left"}]
    /\ open \subseteq Link
    /\ closed \subseteq Link \ open
    /\ clients \in [States -> [Clients -> Holder \cup {None}]]
    /\ subscriptions \in [States -> SUBSET (Holder \X Clients \X Channels)]
    /\ changes \in 0..MaxChanges

WireType == wire \in [End -> Seq(Payload \cup News)]

TaskTypes ==
    /\ task \in [Actor -> {NoTask} \cup [step : {"clients", "sessions"}, msg : Payload]]
    /\ todo \in [Actor -> SUBSET (Clients \cup End)]
    /\ \A a \in Actor :
          \/ task[a] = NoTask /\ todo[a] = {}
          \/ task[a].step = "clients" /\ todo[a] \subseteq Clients \ {task[a].msg.from}
          \/ task[a].step = "sessions" /\ todo[a] \subseteq End

CountTypes ==
    /\ count \in [Actor -> 0..(2^Width - 1)]
    /\ chosen \in [Actor -> 0..Cardinality(Clients)]

PostTypes ==
    /\ posted \in Seq(Payload) /\ Len(posted) <= MaxMessages
    /\ audience \in [1..MaxMessages -> SUBSET Clients]

BoxType == inbox \in [Clients -> Seq(Payload)]

LEMMA TypeParts ==
    TypeOK <=> TableTypes /\ WireType /\ TaskTypes /\ CountTypes /\ BoxType /\ PostTypes
BY DEF TypeOK, TableTypes, WireType, TaskTypes, CountTypes, BoxType, PostTypes

LEMMA GivenFacts ==
    ASSUME BoxType, NEW s \in States, NEW c \in Clients, NEW m \in Payload
    PROVE  /\ Given(s, c, m) \in [Clients -> Seq(Payload)]
           /\ \A d \in Clients : \/ Given(s, c, m)[d] = inbox[d]
                                 \/ d = c /\ Home[c] = s /\ Given(s, c, m)[d] = Append(inbox[d], m)
<1>1. Append(inbox[c], m) \in Seq(Payload)
  BY QueueFacts DEF BoxType
<1> QED BY <1>1 DEF Given, BoxType

\* The count is at most what it should be on the strand of a client, and a
\* size_t on every strand.
LEMMA ReturnedFacts ==
    ASSUME TableTypes, NEW s \in States
    PROVE  /\ Returned(s) \in 0..(2^Width - 1)
           /\ \A c \in Clients : clients[s][c] /= None => Returned(s) < Cardinality(Clients)
<1> DEFINE R == {d \in Clients : clients[s][d] /= None}
           n == Cardinality(R)
           W == 2^Width
<1>1. /\ IsFiniteSet(R) /\ n \in Nat /\ n <= Cardinality(Clients) /\ Cardinality(Clients) \in Nat
  BY FS_Subset, FS_CardinalityType, DeliveryAssumption
<1>2. W \in Nat \ {0}
  BY DeliveryAssumption
<1>3. ASSUME NEW c \in Clients, clients[s][c] /= None PROVE n /= 0
  BY <1>1, <1>3, FS_EmptySet
<1>4. Returned(s) = (n + W - 1) % W
  BY DEF Returned
<1> HIDE DEF R, n, W
<1>5. (n + W - 1) % W \in 0..(W - 1)
  BY <1>1, <1>2, SMT
<1>6. n /= 0 => (n + W - 1) % W \in 0..(n - 1)
  BY <1>1, <1>2, SMT
<1>7. W = 2^Width
  BY DEF W
<1> QED BY <1>1, <1>2, <1>3, <1>4, <1>5, <1>6, <1>7

LEMMA BeginFacts ==
    ASSUME TableTypes, TaskTypes, CountTypes, NEW a \in Actor, NEW m \in Payload, Begin(a, m)
    PROVE  TaskTypes' /\ CountTypes'
<1>1. StateOf(a) \in States
  BY Shape
<1>2. Others(StateOf(a), m.from) \subseteq Clients \ {m.from}
  BY DEF Others
<1>3. /\ [step |-> "clients", msg |-> m] \in [step : {"clients", "sessions"}, msg : Payload]
      /\ [step |-> "clients", msg |-> m].step = "clients"
      /\ [step |-> "clients", msg |-> m].msg = m
  OBVIOUS
<1>4. TaskTypes'
  <2>1. /\ task' = [task EXCEPT ![a] = [step |-> "clients", msg |-> m]]
        /\ todo' = [todo EXCEPT ![a] = Others(StateOf(a), m.from)]
    BY DEF Begin
  <2>2. task' \in [Actor -> {NoTask} \cup [step : {"clients", "sessions"}, msg : Payload]]
    BY <1>3, <2>1 DEF TaskTypes
  <2>3. todo' \in [Actor -> SUBSET (Clients \cup End)]
    BY <1>2, <2>1 DEF TaskTypes
  <2>4. ASSUME NEW b \in Actor
        PROVE  \/ task'[b] = NoTask /\ todo'[b] = {}
               \/ task'[b].step = "clients" /\ todo'[b] \subseteq Clients \ {task'[b].msg.from}
               \/ task'[b].step = "sessions" /\ todo'[b] \subseteq End
    BY <1>2, <1>3, <2>1 DEF TaskTypes
  <2> QED BY <2>2, <2>3, <2>4 DEF TaskTypes
<1>5. CountTypes'
  <2>1. Cardinality(Others(StateOf(a), m.from)) \in 0..Cardinality(Clients)
    BY <1>2, FS_Subset, FS_CardinalityType, DeliveryAssumption
  <2> QED BY <1>1, <2>1, ReturnedFacts DEF Begin, CountTypes
<1> QED BY <1>4, <1>5

LEMMA NewsFinite == IsFiniteSet(News)
<1> DEFINE Kind == {"join", "leave", "subscribe", "unsubscribe"}
           P == Kind \X (Clients \X (Channels \cup {None}))
           f == [p \in P |-> NewsOf(p[1], p[2][1], p[2][2])]
<1>1. IsFiniteSet(Channels \cup {None})
  BY FS_AddElement, DeliveryAssumption
<1>2. IsFiniteSet(Clients \X (Channels \cup {None}))
  BY <1>1, FS_Product, DeliveryAssumption
<1>3. IsFiniteSet(Kind)
  <2>1. IsFiniteSet({"join"})
    BY FS_Singleton
  <2>2. IsFiniteSet({"join"} \cup {"leave"})
    BY <2>1, FS_AddElement
  <2>3. IsFiniteSet(({"join"} \cup {"leave"}) \cup {"subscribe"})
    BY <2>2, FS_AddElement
  <2>4. IsFiniteSet((({"join"} \cup {"leave"}) \cup {"subscribe"}) \cup {"unsubscribe"})
    BY <2>3, FS_AddElement
  <2>5. Kind = (({"join"} \cup {"leave"}) \cup {"subscribe"}) \cup {"unsubscribe"}
    OBVIOUS
  <2> QED BY <2>4, <2>5
<1>4. IsFiniteSet(P)
  BY <1>2, <1>3, FS_Product
<1>5. f \in Surjection(P, {f[p] : p \in P})
  BY DEF Surjection
<1>6. IsFiniteSet({f[p] : p \in P})
  BY <1>4, <1>5, FS_Surjection
<1>7. News \subseteq {f[p] : p \in P}
  <2> SUFFICES ASSUME NEW m \in News PROVE \E p \in P : f[p] = m
    OBVIOUS
  <2>1. /\ m.kind \in Kind /\ m.from \in Clients /\ m.to \in Channels \cup {None}
        /\ m = NewsOf(m.kind, m.from, m.to)
    BY DEF News, NewsOf
  <2>2. /\ <<m.kind, <<m.from, m.to>>>> \in P
        /\ f[<<m.kind, <<m.from, m.to>>>>] = m
    BY <2>1
  <2> QED BY <2>2
<1> QED BY <1>6, <1>7, FS_Subset

LEMMA OrdersFacts ==
    ASSUME NEW S \in SUBSET News, NEW q \in Orders(S)
    PROVE  q \in Seq(News) /\ \A i \in 1..Len(q) : q[i] \in S
<1>1. Cardinality(S) \in Nat
  BY NewsFinite, FS_Subset, FS_CardinalityType
<1>2. q \in [1..Cardinality(S) -> S]
  BY DEF Orders
<1>3. q \in Seq(S)
  BY <1>1, <1>2
<1> QED BY <1>3

\* What is sent over a link that opens: news of the own clients only.
LEMMA OpenLinkFacts ==
    ASSUME TableTypes, WireType, NEW l \in Link, OpenLink(l)
    PROVE  /\ wire' \in [End -> Seq(Payload \cup News)]
           /\ \A e \in End : e /= Peer(l) => wire'[e] = wire[e]
           /\ \A i \in 1..Len(wire'[Peer(l)]) :
                 LET m == wire'[Peer(l)][i]
                 IN  /\ m \in News
                     /\ \/ clients[l[2]][m.from] = l[2]
                        \/ \E r \in subscriptions[l[2]] : r[1] = l[2] /\ r[2] = m.from
<1> DEFINE t == l[2]
           J == {NewsOf("join", c, None) : c \in {d \in Clients : clients[t][d] = t}}
           S == {NewsOf("subscribe", r[2], r[3]) : r \in {x \in subscriptions[t] : x[1] = t}}
<1>1. PICK js \in Orders(J), ss \in Orders(S) : wire' = [wire EXCEPT ![Peer(l)] = js \o ss]
  BY DEF OpenLink
<1>2. t \in States /\ Peer(l) \in End
  BY Shape
<1>3. J \in SUBSET News /\ \A m \in J : clients[t][m.from] = t
  <2>1. \A c \in Clients : NewsOf("join", c, None) \in News /\ NewsOf("join", c, None).from = c
    BY MessageShape DEF NewsOf
  <2> QED BY <2>1
<1>4. /\ S \in SUBSET News
      /\ \A m \in S : \E r \in subscriptions[t] : r[1] = t /\ r[2] = m.from
  <2>1. \A r \in subscriptions[t] : r[2] \in Clients /\ r[3] \in Channels
    BY <1>2 DEF TableTypes
  <2>2. \A c \in Clients, ch \in Channels :
            NewsOf("subscribe", c, ch) \in News /\ NewsOf("subscribe", c, ch).from = c
    BY MessageShape DEF NewsOf
  <2>3. \A m \in S : \E r \in subscriptions[t] :
            r[1] = t /\ m = NewsOf("subscribe", r[2], r[3])
    OBVIOUS
  <2> QED BY <2>1, <2>2, <2>3
<1>5. /\ js \in Seq(News) /\ \A i \in 1..Len(js) : js[i] \in J
      /\ ss \in Seq(News) /\ \A i \in 1..Len(ss) : ss[i] \in S
  BY <1>3, <1>4, OrdersFacts
<1>6. /\ js \o ss \in Seq(News)
      /\ \A i \in 1..Len(js \o ss) : (js \o ss)[i] \in J \cup S
  <2> HIDE DEF J, S
  <2>1. /\ Len(js \o ss) = Len(js) + Len(ss) /\ Len(js) \in Nat /\ Len(ss) \in Nat
        /\ \A i \in 1..Len(js \o ss) :
              (js \o ss)[i] = IF i <= Len(js) THEN js[i] ELSE ss[i - Len(js)]
    BY <1>5
  <2>2. \A i \in 1..Len(js \o ss) : (js \o ss)[i] \in J \cup S
    BY <1>5, <2>1
  <2> QED BY <1>5, <2>2
<1>7. js \o ss \in Seq(Payload \cup News)
  BY <1>6
<1>8. wire'[Peer(l)] = js \o ss /\ \A e \in End : e /= Peer(l) => wire'[e] = wire[e]
  BY <1>1, <1>2 DEF WireType
<1>9. wire' \in [End -> Seq(Payload \cup News)]
  BY <1>1, <1>7 DEF WireType
<1> QED BY <1>3, <1>4, <1>6, <1>8, <1>9

\* What a session reads.
LEMMA ReadsFacts ==
    ASSUME WireType, NEW e \in End, NEW m, Reads(e, m)
    PROVE  /\ m \in Payload \cup News
           /\ wire[Peer(e)] /= <<>> /\ m = Head(wire[Peer(e)]) /\ m = wire[Peer(e)][1]
           /\ Len(wire[Peer(e)]) \in Nat \ {0}
           /\ wire' \in [End -> Seq(Payload \cup News)]
           /\ wire'[Peer(e)] = Tail(wire[Peer(e)])
           /\ \A d \in End : d /= Peer(e) => wire'[d] = wire[d]
           /\ task[e] = NoTask
<1>1. Peer(e) \in End /\ wire[Peer(e)] \in Seq(Payload \cup News)
  BY Shape DEF WireType
<1>2. wire[Peer(e)] /= <<>> /\ m = Head(wire[Peer(e)]) /\ task[e] = NoTask
      /\ wire' = [wire EXCEPT ![Peer(e)] = Tail(@)]
  BY DEF Reads
<1>3. /\ Head(wire[Peer(e)]) \in Payload \cup News
      /\ Head(wire[Peer(e)]) = wire[Peer(e)][1]
      /\ Tail(wire[Peer(e)]) \in Seq(Payload \cup News)
      /\ Len(wire[Peer(e)]) \in Nat \ {0}
  BY <1>1, <1>2, QueueFacts
<1> QED BY <1>1, <1>2, <1>3 DEF WireType

\* To whom the three kinds are addressed.
Addressed(k, to) == \/ k = "broadcast" /\ to = None
                    \/ k = "publish" /\ to \in Channels
                    \/ k = "send" /\ to \in Clients

\* What a client asks for.
LEMMA AsksFacts ==
    ASSUME PostTypes, NEW c \in Clients, NEW k, NEW to, Addressed(k, to), Asks(c, Message(k, c, to))
    PROVE  /\ Message(k, c, to) \in Payload
           /\ posted' = Append(posted, Message(k, c, to))
           /\ posted' \in Seq(Payload) /\ Len(posted') <= MaxMessages
           /\ Len(posted') = Len(posted) + 1 /\ Len(posted) \in Nat
           /\ stage[c] = "in" /\ task[c] = NoTask
           /\ Len(posted) + 1 \in 1..MaxMessages
<1>1. Len(posted) \in Nat /\ Len(posted) < MaxMessages /\ MaxMessages \in Nat
  BY DeliveryAssumption DEF PostTypes, Asks
<1>2. Message(k, c, to) \in Payload
  BY <1>1 DEF Message, Payload, Addressed
<1>3. posted' = Append(posted, Message(k, c, to)) /\ posted \in Seq(Payload)
      /\ stage[c] = "in" /\ task[c] = NoTask
  BY DEF Asks, PostTypes
<1>4. posted' \in Seq(Payload) /\ Len(posted') = Len(posted) + 1
  BY <1>2, <1>3
<1> QED BY <1>1, <1>2, <1>3, <1>4

\* How the tables change.
LEMMA TablesStep == TypeOK /\ [Next]_vars => TableTypes'
<1> SUFFICES ASSUME TableTypes, WireType, [Next]_vars PROVE TableTypes'
  BY TypeParts
<1> USE Shape
<1>1. ASSUME NEW c \in Clients, Accept(c) PROVE TableTypes'
  BY <1>1 DEF Accept, TableTypes
<1>2. ASSUME NEW c \in Clients, Leave(c) PROVE TableTypes'
  BY <1>2 DEF Leave, TableTypes
<1>3. ASSUME NEW c \in Clients, NEW ch \in Channels, Subscribe(c, ch) PROVE TableTypes'
  <2>1. <<Home[c], c, ch>> \in Holder \X Clients \X Channels
    OBVIOUS
  <2>2. changes' \in 0..MaxChanges
    BY <1>3, DeliveryAssumption DEF Subscribe, TableTypes
  <2> QED BY <1>3, <2>1, <2>2 DEF Subscribe, TableTypes
<1>4. ASSUME NEW c \in Clients, NEW ch \in Channels, Unsubscribe(c, ch) PROVE TableTypes'
  <2>1. changes' \in 0..MaxChanges
    BY <1>4, DeliveryAssumption DEF Unsubscribe, TableTypes
  <2> QED BY <1>4, <2>1 DEF Unsubscribe, TableTypes
<1>5. ASSUME NEW e \in End, NEW m, ReadClient(e, m) PROVE TableTypes'
  <2>1. m.from \in Clients
    BY <1>5, ReadsFacts, MessageShape DEF ReadClient
  <2> QED BY <1>5, <2>1 DEF ReadClient, TableTypes
<1>6. ASSUME NEW e \in End, NEW m, ReadSubscription(e, m) PROVE TableTypes'
  <2>1. m \in Payload \cup News /\ m.kind \in {"subscribe", "unsubscribe"}
    BY <1>6, ReadsFacts DEF ReadSubscription
  <2>2. m \in News /\ m.from \in Clients /\ m.to \in Channels
    BY <2>1, MessageShape
  <2> QED BY <1>6, <2>2 DEF ReadSubscription, TableTypes
<1>7. ASSUME NEW l \in Link, OpenLink(l) PROVE TableTypes'
  BY <1>7 DEF OpenLink, TableTypes
<1>8. ASSUME NEW l \in Link, CloseLink(l) PROVE TableTypes'
  BY <1>8 DEF CloseLink, TableTypes
<1>9. CASE UNCHANGED tableVars
  BY <1>9 DEF tableVars, TableTypes
<1> QED
  BY <1>1, <1>2, <1>3, <1>4, <1>5, <1>6, <1>7, <1>8, <1>9
     DEF Next, Client, Task, Read, Broadcast, Publish, Send, GiveClient, GetSessions,
         GiveSession, Finish, ReadPayload, ReadSend, vars, tableVars

LEMMA WireStep == TypeOK /\ [Next]_vars => WireType'
<1> SUFFICES ASSUME TableTypes, WireType, TaskTypes, PostTypes, [Next]_vars PROVE WireType'
  BY TypeParts
<1> USE Shape
<1>1. ASSUME NEW c \in Clients, Accept(c) \/ Leave(c) PROVE WireType'
  <2>1. PICK m \in News : wire' = Forwarded(Home[c], m)
    BY <1>1, MessageShape DEF Accept, Leave
  <2> QED BY <2>1, ForwardedFacts DEF WireType
<1>2. ASSUME NEW c \in Clients, NEW ch \in Channels, Subscribe(c, ch) \/ Unsubscribe(c, ch)
      PROVE  WireType'
  <2>1. PICK m \in News : wire' = Forwarded(Home[c], m)
    BY <1>2, MessageShape DEF Subscribe, Unsubscribe
  <2> QED BY <2>1, ForwardedFacts DEF WireType
<1>3. ASSUME NEW c \in Clients, NEW d \in Clients, Send(c, d) PROVE WireType'
  <2> DEFINE m == Message("send", c, d)
             via == clients[Home[c]][d]
  <2>1. m \in Payload
    BY <1>3, AsksFacts DEF Addressed, Send
  <2>2. wire' = wire \/ (via \in End /\ wire' = [wire EXCEPT ![via] = Append(@, m)])
    BY <1>3 DEF Send, SessionsOf
  <2>3. via \in End => Append(wire[via], m) \in Seq(Payload \cup News)
    BY <2>1, QueueFacts DEF WireType
  <2> HIDE DEF m, via
  <2>4. ASSUME via \in End, wire' = [wire EXCEPT ![via] = Append(wire[via], m)] PROVE WireType'
    BY <2>3, <2>4 DEF WireType
  <2>5. CASE wire' = wire
    BY <2>5 DEF WireType
  <2> QED BY <2>2, <2>4, <2>5
<1>4. ASSUME NEW a \in Actor, NEW e \in End, GiveSession(a, e) PROVE WireType'
  <2>1. task[a].msg \in Payload
    BY <1>4, MessageShape DEF GiveSession, TaskTypes
  <2>2. Append(wire[e], task[a].msg) \in Seq(Payload \cup News)
    BY <2>1, QueueFacts DEF WireType
  <2> QED BY <1>4, <2>2 DEF GiveSession, WireType
<1>5. ASSUME NEW e \in End, NEW m, Reads(e, m) PROVE WireType'
  BY <1>5, ReadsFacts DEF WireType
<1>6. ASSUME NEW l \in Link, OpenLink(l) PROVE WireType'
  BY <1>6, OpenLinkFacts DEF WireType
<1>7. ASSUME NEW l \in Link, CloseLink(l) PROVE WireType'
  <2>1. <<>> \in Seq(Payload \cup News)
    OBVIOUS
  <2> QED BY <1>7, <2>1 DEF CloseLink, WireType
<1>8. CASE UNCHANGED wire
  BY <1>8 DEF WireType
<1> QED
  BY <1>1, <1>2, <1>3, <1>4, <1>5, <1>6, <1>7, <1>8
     DEF Next, Client, Task, Read, ReadClient, ReadSubscription, ReadPayload, ReadSend,
         Broadcast, Publish, GiveClient, GetSessions, Finish, vars

LEMMA TasksStep == TypeOK /\ [Next]_vars => TaskTypes' /\ CountTypes'
<1> SUFFICES ASSUME TableTypes, WireType, TaskTypes, CountTypes, PostTypes, [Next]_vars
             PROVE  TaskTypes' /\ CountTypes'
  BY TypeParts
<1> USE Shape
<1>1. ASSUME NEW c \in Clients, Broadcast(c) \/ \E ch \in Channels : Publish(c, ch)
      PROVE  TaskTypes' /\ CountTypes'
  <2>1. CASE Broadcast(c)
    BY <2>1, AsksFacts, BeginFacts DEF Addressed, Broadcast
  <2>2. ASSUME NEW ch \in Channels, Publish(c, ch) PROVE TaskTypes' /\ CountTypes'
    BY <2>2, AsksFacts, BeginFacts DEF Addressed, Publish
  <2> QED BY <1>1, <2>1, <2>2
<1>2. ASSUME NEW e \in End, NEW m, ReadPayload(e, m) PROVE TaskTypes' /\ CountTypes'
  <2>1. m \in Payload
    BY <1>2, ReadsFacts, MessageShape DEF ReadPayload
  <2> QED BY <1>2, <2>1, BeginFacts DEF ReadPayload
<1>3. ASSUME NEW a \in Actor, GetSessions(a) PROVE TaskTypes' /\ CountTypes'
  <2>1. /\ task[a] \in [step : {"clients", "sessions"}, msg : Payload] /\ PassesOn(a)
        /\ task' = [task EXCEPT ![a] = [@ EXCEPT !.step = "sessions"]]
    BY <1>3, MessageShape DEF GetSessions, TaskTypes
  <2>2. /\ [task[a] EXCEPT !.step = "sessions"] \in [step : {"clients", "sessions"}, msg : Payload]
        /\ [task[a] EXCEPT !.step = "sessions"].step = "sessions"
    BY <2>1
  <2>3. PICK T \in SUBSET End : todo' = [todo EXCEPT ![a] = T]
    BY <1>3 DEF GetSessions, SessionsOf, Receivers
  <2>4. task' \in [Actor -> {NoTask} \cup [step : {"clients", "sessions"}, msg : Payload]]
    BY <2>1, <2>2 DEF TaskTypes
  <2>5. todo' \in [Actor -> SUBSET (Clients \cup End)]
    BY <2>3 DEF TaskTypes
  <2>6. TaskTypes'
    BY <2>1, <2>2, <2>3, <2>4, <2>5 DEF TaskTypes
  <2> QED BY <1>3, <2>6 DEF GetSessions, CountTypes
<1>4. ASSUME NEW a \in Actor,
             (\E c \in Clients : GiveClient(a, c)) \/ (\E e \in End : GiveSession(a, e))
      PROVE  TaskTypes' /\ CountTypes'
  <2>1. PICK x : todo' = [todo EXCEPT ![a] = @ \ {x}]
    BY <1>4 DEF GiveClient, GiveSession
  <2>2. UNCHANGED <<task, count, chosen>>
    BY <1>4 DEF GiveClient, GiveSession
  <2>3. todo' \in [Actor -> SUBSET (Clients \cup End)]
    BY <2>1 DEF TaskTypes
  <2>4. \A b \in Actor : todo'[b] \subseteq todo[b]
    BY <2>1 DEF TaskTypes
  <2> QED BY <2>2, <2>3, <2>4 DEF TaskTypes, CountTypes
<1>5. ASSUME NEW a \in Actor, Finish(a) PROVE TaskTypes' /\ CountTypes'
  <2>1. TaskTypes'
    BY <1>5 DEF Finish, TaskTypes
  <2>2. 0 \in 0..(2^Width - 1) /\ 0 \in 0..Cardinality(Clients)
    <3>1. 2^Width \in Nat \ {0} /\ Cardinality(Clients) \in Nat
      BY DeliveryAssumption, FS_CardinalityType
    <3> HIDE DEF PassesOn
    <3> QED BY <3>1
  <2>3. CountTypes'
    BY <1>5, <2>2 DEF Finish, CountTypes
  <2> QED BY <2>1, <2>3
<1>6. CASE UNCHANGED <<task, todo, count, chosen>>
  BY <1>6 DEF TaskTypes, CountTypes
<1> QED
  BY <1>1, <1>2, <1>3, <1>4, <1>5, <1>6
     DEF Next, Client, Task, Read, ReadClient, ReadSubscription, ReadSend, Accept, Leave,
         Subscribe, Unsubscribe, Send, OpenLink, CloseLink, vars, taskVars

LEMMA BoxStep == TypeOK /\ [Next]_vars => BoxType'
<1> SUFFICES ASSUME WireType, TaskTypes, BoxType, PostTypes, [Next]_vars PROVE BoxType'
  BY TypeParts
<1> USE Shape
<1>1. ASSUME NEW c \in Clients, NEW d \in Clients, Send(c, d) PROVE BoxType'
  <2>1. Message("send", c, d) \in Payload
    BY <1>1, AsksFacts DEF Addressed, Send
  <2> QED BY <1>1, <2>1, GivenFacts DEF Send, BoxType
<1>2. ASSUME NEW a \in Actor, NEW c \in Clients, GiveClient(a, c) PROVE BoxType'
  <2>1. task[a].msg \in Payload
    BY <1>2, MessageShape DEF GiveClient, TaskTypes
  <2> QED BY <1>2, <2>1, GivenFacts DEF GiveClient, BoxType
<1>3. ASSUME NEW e \in End, NEW m, ReadSend(e, m) PROVE BoxType'
  <2>1. m \in Payload
    BY <1>3, ReadsFacts, MessageShape DEF ReadSend
  <2>2. CASE clients[e[1]][m.to] = e[1]
    <3>1. m.to \in Clients
      BY <1>3, <2>1, MessageShape DEF ReadSend
    <3> QED BY <1>3, <2>1, <2>2, <3>1, GivenFacts DEF ReadSend, BoxType
  <2>3. CASE clients[e[1]][m.to] /= e[1]
    BY <1>3, <2>3 DEF ReadSend, BoxType
  <2> QED BY <2>2, <2>3
<1>4. CASE UNCHANGED inbox
  BY <1>4 DEF BoxType
<1> QED
  BY <1>1, <1>2, <1>3, <1>4
     DEF Next, Client, Task, Read, ReadClient, ReadSubscription, ReadPayload, Accept, Leave,
         Subscribe, Unsubscribe, Broadcast, Publish, GetSessions, GiveSession, Finish,
         OpenLink, CloseLink, vars, taskVars

LEMMA PostStep == TypeOK /\ [Next]_vars => PostTypes'
<1> SUFFICES ASSUME WireType, PostTypes, [Next]_vars PROVE PostTypes'
  BY TypeParts
<1> USE Shape
\* The three requests.
<1>1. ASSUME NEW c \in Clients, NEW k, NEW to, Addressed(k, to), Asks(c, Message(k, c, to)),
             NEW D \in SUBSET Clients, For(D)
      PROVE  PostTypes'
  <2>1. posted' \in Seq(Payload) /\ Len(posted') <= MaxMessages
    BY <1>1, AsksFacts
  <2>2. audience' \in [1..MaxMessages -> SUBSET Clients]
    BY <1>1 DEF For, PostTypes
  <2> QED BY <2>1, <2>2 DEF PostTypes
<1>2. ASSUME NEW c \in Clients, Broadcast(c) PROVE PostTypes'
  <2>1. PICK D \in SUBSET Clients : For(D)
    BY <1>2 DEF Broadcast
  <2> QED BY <1>1, <1>2, <2>1 DEF Broadcast, Addressed
<1>3. ASSUME NEW c \in Clients, NEW ch \in Channels, Publish(c, ch) PROVE PostTypes'
  <2>1. PICK D \in SUBSET Clients : For(D)
    BY <1>3 DEF Publish
  <2> QED BY <1>1, <1>3, <2>1 DEF Publish, Addressed
<1>4. ASSUME NEW c \in Clients, NEW d \in Clients, Send(c, d) PROVE PostTypes'
  <2>1. PICK D \in SUBSET Clients : For(D)
    BY <1>4 DEF Send
  <2> QED BY <1>1, <1>4, <2>1 DEF Send, Addressed
<1>5. ASSUME NEW c \in Clients, Forget(c), UNCHANGED posted PROVE PostTypes'
  BY <1>5 DEF Forget, PostTypes
<1>6. ASSUME NEW l \in Link, CloseLink(l) PROVE PostTypes'
  <2>1. \A i \in 1..MaxMessages :
           (IF i > Len(posted) THEN {} ELSE
               {d \in audience[i] : {Home[d], Home[posted[i].from]} /= {l[1], l[2]}})
           \in SUBSET Clients
    BY DEF PostTypes
  <2>2. audience' \in [1..MaxMessages -> SUBSET Clients]
    BY <1>6, <2>1 DEF CloseLink
  <2> QED BY <1>6, <2>2 DEF CloseLink, PostTypes
<1>7. CASE UNCHANGED <<posted, audience>>
  BY <1>7 DEF PostTypes
<1> QED
  BY <1>2, <1>3, <1>4, <1>5, <1>6, <1>7
     DEF Next, Client, Task, Read, ReadClient, ReadSubscription, ReadPayload, ReadSend, Accept,
         Leave, Subscribe, Unsubscribe, GiveClient, GetSessions, GiveSession, Finish,
         OpenLink, vars, taskVars

LEMMA TypeInit == Init => TypeOK
<1> SUFFICES ASSUME Init PROVE TypeOK
  OBVIOUS
<1>1. 0 \in 0..(2^Width - 1) /\ 0 \in 0..Cardinality(Clients) /\ 0 \in 0..MaxChanges
  <2>1. 2^Width \in Nat \ {0} /\ Cardinality(Clients) \in Nat /\ MaxChanges \in Nat
    BY DeliveryAssumption, FS_CardinalityType
  <2> QED BY <2>1
<1>2. CountTypes
  BY <1>1 DEF Init, CountTypes
<1>3. TableTypes /\ TaskTypes
  BY <1>1 DEF Init, TableTypes, TaskTypes
<1>4. WireType /\ BoxType /\ PostTypes
  BY DeliveryAssumption DEF Init, WireType, BoxType, PostTypes
<1> QED BY <1>2, <1>3, <1>4, TypeParts

LEMMA TypeStep == TypeOK /\ [Next]_vars => TypeOK'
<1> SUFFICES ASSUME TypeOK, [Next]_vars PROVE TypeOK'
  OBVIOUS
<1>1. TableTypes' /\ WireType' /\ TaskTypes' /\ CountTypes' /\ BoxType' /\ PostTypes'
  BY TablesStep, WireStep, TasksStep, BoxStep, PostStep
<1> QED BY <1>1 DEF TypeOK, TableTypes, WireType, TaskTypes, CountTypes, BoxType, PostTypes

(* The tables, the messages under way and the tasks of Delivery keep their  *)
(* types: a task never gives the message to its sender, and the count is a  *)
(* size_t.                                                                  *)
THEOREM DeliveryTypeCorrect == Spec => []TypeOK
BY TypeInit, TypeStep, PTL DEF Spec

-----------------------------------------------------------------------------
(* Where things come from.                                                 *)

LEMMA RowsStep == TypeOK /\ RowsOrigin /\ WireOrigin /\ [Next]_vars => RowsOrigin'
<1> SUFFICES ASSUME TableTypes, WireType, RowsOrigin, WireOrigin, [Next]_vars
             PROVE  RowsOrigin'
  BY TypeParts
<1> USE Shape
<1>0. /\ DOMAIN stage = Clients /\ DOMAIN clients = States /\ DOMAIN subscriptions = States
      /\ \A s \in States : DOMAIN clients[s] = Clients
  BY DEF TableTypes
<1>1. ASSUME NEW c \in Clients, Accept(c) PROVE RowsOrigin'
  BY <1>0, <1>1 DEF Accept, RowsOrigin
<1>2. ASSUME NEW c \in Clients, Leave(c) PROVE RowsOrigin'
  BY <1>0, <1>2 DEF Leave, RowsOrigin
<1>3. ASSUME NEW c \in Clients, NEW ch \in Channels, Subscribe(c, ch) \/ Unsubscribe(c, ch)
      PROVE  RowsOrigin'
  <2>1. /\ UNCHANGED <<stage, clients>>
        /\ \A s \in States : subscriptions'[s] \subseteq subscriptions[s] \cup {<<Home[c], c, ch>>}
    BY <1>0, <1>3 DEF Subscribe, Unsubscribe
  <2> QED BY <2>1 DEF RowsOrigin
<1>4. ASSUME NEW e \in End, NEW m, ReadClient(e, m) PROVE RowsOrigin'
  <2>1. m = wire[Peer(e)][1] /\ Len(wire[Peer(e)]) \in Nat \ {0} /\ m \in Payload \cup News
    BY <1>4, ReadsFacts DEF ReadClient
  <2>2. Home[m.from] = e[2] /\ m.from \in Clients
    BY <2>1, MessageShape DEF WireOrigin
  <2>3. /\ UNCHANGED <<stage, subscriptions>>
        /\ clients'[e[1]][m.from] \in {None, e, clients[e[1]][m.from]}
        /\ \A s \in States, c \in Clients :
              s /= e[1] \/ c /= m.from => clients'[s][c] = clients[s][c]
    BY <1>0, <1>4, <2>2 DEF ReadClient
  <2> QED BY <2>2, <2>3 DEF RowsOrigin
<1>5. ASSUME NEW e \in End, NEW m, ReadSubscription(e, m) PROVE RowsOrigin'
  <2>1. /\ UNCHANGED <<stage, clients>>
        /\ \A s \in States : subscriptions'[s] \subseteq subscriptions[s] \cup {<<e, m.from, m.to>>}
    BY <1>0, <1>5 DEF ReadSubscription
  <2> QED BY <2>1 DEF RowsOrigin
<1>6. ASSUME NEW l \in Link, CloseLink(l) PROVE RowsOrigin'
  <2>1. /\ UNCHANGED stage
        /\ \A s \in States, c \in Clients : clients'[s][c] =
              IF clients[s][c] \in {l, Peer(l)} THEN None ELSE clients[s][c]
        /\ \A s \in States : subscriptions'[s] \subseteq subscriptions[s]
    BY <1>6 DEF CloseLink
  <2> QED BY <2>1 DEF RowsOrigin
<1>7. CASE UNCHANGED <<stage, clients, subscriptions>>
  BY <1>7 DEF RowsOrigin
<1> QED
  BY <1>1, <1>2, <1>3, <1>4, <1>5, <1>6, <1>7
     DEF Next, Client, Task, Read, Broadcast, Publish, Send, GiveClient, GetSessions,
         GiveSession, Finish, ReadPayload, ReadSend, OpenLink, vars, tableVars

LEMMA WireOriginStep ==
    TypeOK /\ RowsOrigin /\ WireOrigin /\ TaskOrigin /\ [Next]_vars => WireOrigin'
<1> SUFFICES ASSUME TableTypes, WireType, TaskTypes, PostTypes, RowsOrigin, WireOrigin, TaskOrigin,
                    [Next]_vars, NEW e \in End, NEW i \in 1..Len(wire'[e])
             PROVE  Home[wire'[e][i].from] = e[1]
  BY TypeParts DEF WireOrigin
<1> DEFINE Goal == Home[wire'[e][i].from] = e[1]
<1> USE Shape
<1>0. /\ wire[e] \in Seq(Payload \cup News) /\ DOMAIN wire = End
      /\ \A j \in 1..Len(wire[e]) : Home[wire[e][j].from] = e[1]
  BY DEF WireType, WireOrigin
<1>a. ASSUME NEW m \in Payload \cup News, wire'[e] = Append(wire[e], m), Home[m.from] = e[1]
      PROVE  Goal
  BY <1>0, <1>a, QueueFacts
<1>b. CASE wire'[e] = wire[e]
  BY <1>0, <1>b
<1>1. ASSUME NEW c \in Clients, NEW m \in News, m.from = c, wire' = Forwarded(Home[c], m)
      PROVE  Goal
  <2>1. wire'[e] = wire[e] \/ (e[1] = Home[c] /\ wire'[e] = Append(wire[e], m))
    BY <1>1, ForwardedFacts DEF WireType
  <2> QED BY <1>1, <1>a, <1>b, <2>1
<1>2. ASSUME NEW c \in Clients,
             \/ Accept(c) \/ Leave(c)
             \/ \E ch \in Channels : Subscribe(c, ch) \/ Unsubscribe(c, ch)
      PROVE  Goal
  <2>1. \E m \in News : m.from = c /\ wire' = Forwarded(Home[c], m)
    BY <1>2, MessageShape DEF Accept, Leave, Subscribe, Unsubscribe, NewsOf
  <2> QED BY <1>1, <2>1
<1>3. ASSUME NEW c \in Clients, NEW d \in Clients, Send(c, d) PROVE Goal
  <2> DEFINE m == Message("send", c, d)
  <2>1. m \in Payload /\ m.from = c
    BY <1>3, AsksFacts DEF Send, Addressed, Message
  <2>2. wire'[e] = wire[e] \/ (e[1] = Home[c] /\ wire'[e] = Append(wire[e], m))
    BY <1>0, <1>3 DEF Send, SessionsOf
  <2> HIDE DEF m
  <2> QED BY <1>a, <1>b, <2>1, <2>2
<1>4. ASSUME NEW a \in Actor, NEW x \in End, GiveSession(a, x) PROVE Goal
  <2>1. wire'[e] = wire[e] \/ (e = x /\ wire'[e] = Append(wire[e], task[a].msg))
    BY <1>0, <1>4 DEF GiveSession
  <2>2. /\ task[a].msg \in Payload /\ task[a].msg.from = a /\ a \in Clients
        /\ x[1] = Home[a]
    BY <1>4, MessageShape DEF GiveSession, TaskTypes, TaskOrigin
  <2> QED BY <1>a, <1>b, <2>1, <2>2
<1>5. ASSUME NEW x \in End, NEW m, Reads(x, m) PROVE Goal
  <2>1. wire'[e] = wire[e] \/ (wire[e] /= <<>> /\ wire'[e] = Tail(wire[e]))
    BY <1>5, ReadsFacts
  <2>2. CASE wire[e] /= <<>> /\ wire'[e] = Tail(wire[e])
    <3>1. /\ Len(wire[e]) \in Nat /\ Len(Tail(wire[e])) = Len(wire[e]) - 1
          /\ \A j \in 1..Len(Tail(wire[e])) : Tail(wire[e])[j] = wire[e][j + 1]
      BY <1>0, <2>2, QueueFacts
    <3>2. i + 1 \in 1..Len(wire[e]) /\ wire'[e][i] = wire[e][i + 1]
      BY <2>2, <3>1
    <3> QED BY <1>0, <3>2
  <2> QED BY <1>b, <2>1, <2>2
<1>6. ASSUME NEW l \in Link, OpenLink(l) PROVE Goal
  <2>1. CASE e = Peer(l)
    <3>1. /\ wire'[e][i] \in News
          /\ \/ clients[l[2]][wire'[e][i].from] = l[2]
             \/ \E r \in subscriptions[l[2]] : r[1] = l[2] /\ r[2] = wire'[e][i].from
      BY <1>6, <2>1, OpenLinkFacts
    <3>2. l[2] \in States /\ wire'[e][i].from \in Clients /\ e[1] = l[2]
      BY <2>1, <3>1, MessageShape
    <3> QED BY <3>1, <3>2 DEF RowsOrigin
  <2>2. CASE e /= Peer(l)
    BY <1>6, <1>b, <2>2, OpenLinkFacts
  <2> QED BY <2>1, <2>2
<1>7. ASSUME NEW l \in Link, CloseLink(l) PROVE Goal
  <2>1. wire'[e] = wire[e] \/ wire'[e] = <<>>
    BY <1>0, <1>7 DEF CloseLink
  <2> QED BY <1>b, <2>1
<1>8. CASE UNCHANGED wire
  BY <1>b, <1>8
<1> QED
  BY <1>2, <1>3, <1>4, <1>5, <1>6, <1>7, <1>8
     DEF Next, Client, Task, Read, ReadClient, ReadSubscription, ReadPayload, ReadSend,
         Broadcast, Publish, GiveClient, GetSessions, Finish, vars

LEMMA TaskOriginStep ==
    TypeOK /\ RowsOrigin /\ WireOrigin /\ TaskOrigin /\ [Next]_vars => TaskOrigin'
<1> SUFFICES ASSUME TableTypes, WireType, TaskTypes, PostTypes, RowsOrigin, WireOrigin, TaskOrigin,
                    [Next]_vars
             PROVE  TaskOrigin'
  BY TypeParts
<1> USE Shape
<1>0. DOMAIN task = Actor /\ DOMAIN todo = Actor
  BY DEF TaskTypes
\* A task begins.
<1>a. ASSUME NEW a \in Actor, NEW m \in Payload, Begin(a, m), m.kind \in {"broadcast", "publish"},
             IF a \in Clients THEN m.from = a ELSE Home[m.from] = a[2]
      PROVE  TaskOrigin'
  <2>1. /\ task' = [task EXCEPT ![a] = [step |-> "clients", msg |-> m]]
        /\ todo' = [todo EXCEPT ![a] = Others(StateOf(a), m.from)]
    BY <1>a DEF Begin
  <2>2. \A c \in Others(StateOf(a), m.from) : Home[c] = StateOf(a)
    BY DEF Others, RowsOrigin
  <2>3. \A b \in Actor : b /= a => task'[b] = task[b] /\ todo'[b] = todo[b]
    BY <1>0, <2>1
  <2>4. task'[a].step = "clients" /\ task'[a].msg = m /\ todo'[a] = Others(StateOf(a), m.from)
    BY <1>0, <2>1
  <2> QED BY <1>a, <2>2, <2>3, <2>4 DEF TaskOrigin
<1>1. ASSUME NEW c \in Clients, Broadcast(c) PROVE TaskOrigin'
  <2>1. /\ Message("broadcast", c, None) \in Payload /\ Begin(c, Message("broadcast", c, None))
        /\ Message("broadcast", c, None).kind = "broadcast"
        /\ Message("broadcast", c, None).from = c
    BY <1>1, AsksFacts DEF Broadcast, Addressed, Message
  <2> QED BY <1>a, <2>1
<1>2. ASSUME NEW c \in Clients, NEW ch \in Channels, Publish(c, ch) PROVE TaskOrigin'
  <2>1. /\ Message("publish", c, ch) \in Payload /\ Begin(c, Message("publish", c, ch))
        /\ Message("publish", c, ch).kind = "publish"
        /\ Message("publish", c, ch).from = c
    BY <1>2, AsksFacts DEF Publish, Addressed, Message
  <2> QED BY <1>a, <2>1
<1>3. ASSUME NEW e \in End, NEW m, ReadPayload(e, m) PROVE TaskOrigin'
  <2>1. m = wire[Peer(e)][1] /\ Len(wire[Peer(e)]) \in Nat \ {0} /\ m \in Payload \cup News
    BY <1>3, ReadsFacts DEF ReadPayload
  <2>2. m \in Payload /\ Home[m.from] = e[2]
    BY <1>3, <2>1, MessageShape DEF WireOrigin, ReadPayload
  <2> QED BY <1>3, <1>a, <2>2 DEF ReadPayload
<1>4. ASSUME NEW a \in Actor, GetSessions(a) PROVE TaskOrigin'
  <2>1. /\ a \in Clients
        /\ task[a] \in [step : {"clients", "sessions"}, msg : Payload]
        /\ task' = [task EXCEPT ![a] = [@ EXCEPT !.step = "sessions"]]
    BY <1>4, MessageShape DEF GetSessions, TaskTypes, PassesOn
  <2>2. PICK T \in SUBSET SessionsOf(StateOf(a)) : todo' = [todo EXCEPT ![a] = T]
    BY <1>4 DEF GetSessions, Receivers
  <2>3. \A b \in Actor : b /= a => task'[b] = task[b] /\ todo'[b] = todo[b]
    BY <1>0, <2>1, <2>2
  <2>4. task'[a].step = "sessions" /\ task'[a].msg = task[a].msg /\ todo'[a] = T
    BY <1>0, <2>1, <2>2
  <2>5. \A e \in T : e[1] = Home[a]
    BY <2>1 DEF SessionsOf
  <2>6. task[a] /= NoTask
    BY <1>4, MessageShape DEF GetSessions
  <2> QED BY <2>1, <2>3, <2>4, <2>5, <2>6 DEF TaskOrigin
<1>5. ASSUME NEW a \in Actor,
             (\E c \in Clients : GiveClient(a, c)) \/ (\E e \in End : GiveSession(a, e))
      PROVE  TaskOrigin'
  <2>1. /\ UNCHANGED task
        /\ \A b \in Actor : todo'[b] \subseteq todo[b]
    BY <1>0, <1>5 DEF GiveClient, GiveSession
  <2> QED BY <2>1 DEF TaskOrigin
<1>6. ASSUME NEW a \in Actor, Finish(a) PROVE TaskOrigin'
  BY <1>0, <1>6 DEF Finish, TaskOrigin
<1>7. CASE UNCHANGED <<task, todo>>
  BY <1>7 DEF TaskOrigin
<1> QED
  BY <1>1, <1>2, <1>3, <1>4, <1>5, <1>6, <1>7
     DEF Next, Client, Task, Read, ReadClient, ReadSubscription, ReadSend, Accept, Leave,
         Subscribe, Unsubscribe, Send, OpenLink, CloseLink, vars, taskVars

LEMMA InboxOriginStep == TypeOK /\ InboxOrigin /\ [Next]_vars => InboxOrigin'
<1> SUFFICES ASSUME WireType, TaskTypes, BoxType, PostTypes, InboxOrigin, [Next]_vars,
                    NEW c \in Clients, NEW i \in 1..Len(inbox'[c])
             PROVE  inbox'[c][i].kind = "send" \/ inbox'[c][i].from /= c
  BY TypeParts DEF InboxOrigin
<1> DEFINE Goal == inbox'[c][i].kind = "send" \/ inbox'[c][i].from /= c
<1> USE Shape
<1>0. /\ inbox[c] \in Seq(Payload)
      /\ \A j \in 1..Len(inbox[c]) : inbox[c][j].kind = "send" \/ inbox[c][j].from /= c
  BY DEF BoxType, InboxOrigin
<1>a. ASSUME NEW m \in Payload, inbox'[c] = Append(inbox[c], m), m.kind = "send" \/ m.from /= c
      PROVE  Goal
  BY <1>0, <1>a, QueueFacts
<1>b. CASE inbox'[c] = inbox[c]
  BY <1>0, <1>b
<1>1. ASSUME NEW b \in Clients, NEW d \in Clients, Send(b, d) PROVE Goal
  <2>1. PICK m \in Payload : m.kind = "send" /\ inbox' \in {inbox, Given(Home[b], d, m)}
    <3>1. /\ Message("send", b, d) \in Payload
          /\ Message("send", b, d).kind = "send"
      BY <1>1, AsksFacts DEF Send, Addressed, Message
    <3>2. inbox' \in {inbox, Given(Home[b], d, Message("send", b, d))}
      BY <1>1 DEF Send
    <3> QED BY <3>1, <3>2
  <2>2. PICK s \in States : s = Home[b]
    OBVIOUS
  <2>a. \/ Given(s, d, m)[c] = inbox[c]
        \/ Given(s, d, m)[c] = Append(inbox[c], m)
    BY GivenFacts
  <2>3. inbox'[c] = inbox[c] \/ inbox'[c] = Append(inbox[c], m)
    BY <2>1, <2>2, <2>a
  <2> QED BY <1>a, <1>b, <2>1, <2>3
<1>2. ASSUME NEW a \in Actor, NEW d \in Clients, GiveClient(a, d) PROVE Goal
  <2>1. task[a].msg \in Payload /\ task[a].msg.from /= d
    BY <1>2, MessageShape DEF GiveClient, TaskTypes
  <2>2. inbox'[c] = inbox[c] \/ (c = d /\ inbox'[c] = Append(inbox[c], task[a].msg))
    BY <1>2, <2>1, GivenFacts DEF GiveClient
  <2> QED BY <1>a, <1>b, <2>1, <2>2
<1>3. ASSUME NEW e \in End, NEW m, ReadSend(e, m) PROVE Goal
  <2>1. m \in Payload /\ m.kind = "send" /\ m.to \in Clients
    BY <1>3, ReadsFacts, MessageShape DEF ReadSend
  <2>2. inbox' = inbox \/ inbox' = Given(e[1], m.to, m)
    BY <1>3 DEF ReadSend
  <2>a. \/ Given(e[1], m.to, m)[c] = inbox[c]
        \/ Given(e[1], m.to, m)[c] = Append(inbox[c], m)
    <3>1. e[1] \in States
      OBVIOUS
    <3> QED BY <2>1, <3>1, GivenFacts
  <2>3. inbox'[c] = inbox[c] \/ inbox'[c] = Append(inbox[c], m)
    BY <2>2, <2>a
  <2> QED BY <1>a, <1>b, <2>1, <2>3
<1>4. CASE UNCHANGED inbox
  BY <1>b, <1>4
<1> QED
  BY <1>1, <1>2, <1>3, <1>4
     DEF Next, Client, Task, Read, ReadClient, ReadSubscription, ReadPayload, Accept, Leave,
         Subscribe, Unsubscribe, Broadcast, Publish, GetSessions, GiveSession, Finish,
         OpenLink, CloseLink, vars, taskVars

LEMMA OriginInit == Init => Origin
<1> SUFFICES ASSUME Init PROVE Origin
  OBVIOUS
<1>1. RowsOrigin
  BY Shape DEF Init, RowsOrigin
<1>2. WireOrigin /\ InboxOrigin /\ TaskOrigin
  BY DEF Init, WireOrigin, InboxOrigin, TaskOrigin
<1> QED BY <1>1, <1>2 DEF Origin

LEMMA OriginStep == TypeOK /\ Origin /\ [Next]_vars => Origin'
BY RowsStep, WireOriginStep, TaskOriginStep, InboxOriginStep DEF Origin

LEMMA OriginHolds == Spec => [](TypeOK /\ Origin)
<1>1. Init => TypeOK /\ Origin
  BY TypeInit, OriginInit
<1>2. TypeOK /\ Origin /\ [Next]_vars => (TypeOK /\ Origin)'
  BY TypeStep, OriginStep
<1> QED BY <1>1, <1>2, PTL DEF Spec

(* A message never crosses a second link: whatever is on a wire is from a   *)
(* client of the state that sent it, because a session gives what it got to *)
(* the clients of its own state only.  And nobody gets his own broadcast.   *)
THEOREM NeverLoops == Spec => []NoLoop
<1>1. TypeOK /\ Origin => NoLoop
  <2> SUFFICES ASSUME Origin PROVE NoLoop
    OBVIOUS
  <2>1. \A e \in End : \A m \in OnWire(e) : Home[m.from] = e[1]
    BY DEF Origin, WireOrigin, OnWire
  <2> QED BY <2>1 DEF NoLoop, Origin, InboxOrigin
<1> QED BY <1>1, OriginHolds, PTL

LEMMA CountStep == TypeOK /\ Origin /\ CountInRange /\ [Next]_vars => CountInRange'
<1> SUFFICES ASSUME TableTypes, CountTypes, RowsOrigin, CountInRange, [Next]_vars, NEW c \in Clients
             PROVE  count'[c] < Cardinality(Clients)
  BY TypeParts DEF Origin, CountInRange
<1> USE Shape
<1>0. DOMAIN count = Actor /\ count[c] < Cardinality(Clients)
  BY DEF CountTypes, CountInRange
<1>1. ASSUME NEW b \in Clients, NEW m, Asks(b, m), Begin(b, m) PROVE count'[c] < Cardinality(Clients)
  <2>1. clients[Home[b]][b] /= None
    BY <1>1 DEF Asks, RowsOrigin
  <2>2. Returned(StateOf(b)) < Cardinality(Clients)
    BY <2>1, ReturnedFacts
  <2> QED BY <1>0, <1>1, <2>2 DEF Begin
<1>2. ASSUME NEW b \in Clients, Broadcast(b) \/ \E ch \in Channels : Publish(b, ch)
      PROVE  count'[c] < Cardinality(Clients)
  BY <1>1, <1>2 DEF Broadcast, Publish
<1>3. ASSUME NEW e \in End, NEW m, ReadPayload(e, m) PROVE count'[c] < Cardinality(Clients)
  BY <1>0, <1>3 DEF ReadPayload, Begin
<1>4. ASSUME NEW a \in Actor, Finish(a) PROVE count'[c] < Cardinality(Clients)
  <2>1. 0 < Cardinality(Clients)
    BY FS_EmptySet, FS_CardinalityType, DeliveryAssumption
  <2> QED BY <1>0, <1>4, <2>1 DEF Finish
<1>5. CASE UNCHANGED count
  BY <1>0, <1>5
<1> QED
  BY <1>2, <1>3, <1>4, <1>5
     DEF Next, Client, Task, Read, ReadClient, ReadSubscription, ReadSend, Accept, Leave,
         Subscribe, Unsubscribe, Send, GiveClient, GetSessions, GiveSession,
         OpenLink, CloseLink, vars, taskVars

(* size() - 1 does not wrap around on the strand of a client, whose own row  *)
(* is in the table as long as the client is there: no session touches it.    *)
THEOREM CountStaysInRange == Spec => []CountInRange
<1>1. Init => CountInRange
  <2>1. Clients /= {} => 0 < Cardinality(Clients)
    BY FS_EmptySet, FS_CardinalityType, DeliveryAssumption
  <2> QED BY <2>1, Shape DEF Init, CountInRange
<1>2. TypeOK /\ Origin /\ CountInRange /\ [Next]_vars => CountInRange'
  BY CountStep
<1> QED BY <1>1, <1>2, OriginHolds, PTL DEF Spec

-----------------------------------------------------------------------------
(* The order of the messages of one client.                                *)

Active(a) == task[a] /= NoTask

\* The messages in a queue are in order; those of d are older than n, or younger.
Sorted(q) ==
    \A i, j \in 1..Len(q) :
        i < j /\ q[i].from = q[j].from /\ IsPayload(q[i]) /\ IsPayload(q[j]) => q[i].id < q[j].id
Before(q, d, n) == \A i \in 1..Len(q) : q[i].from = d => q[i].id < n
After(q, d, n)  == \A i \in 1..Len(q) : q[i].from = d /\ IsPayload(q[i]) => n < q[i].id

\* Nothing is younger than the last message.
Past ==
    /\ \A d \in Clients : /\ \A e \in End : Before(wire[e], d, Len(posted) + 1)
                          /\ \A c \in Clients : Before(inbox[c], d, Len(posted) + 1)
    /\ \A a \in Actor : Active(a) => task[a].msg.id <= Len(posted)

Queues ==
    /\ \A e \in End : Sorted(wire[e])
    /\ \A c \in Clients : Sorted(inbox[c])

\* What a session delivers is older than what it will read, and younger than
\* what those have whom it has still to give it to.
Delivering ==
    \A a \in End : Active(a) =>
        /\ After(wire[Peer(a)], task[a].msg.from, task[a].msg.id)
        /\ \A c \in todo[a] : Before(inbox[c], task[a].msg.from, task[a].msg.id)

\* What a client has is older than what is on the wire to its state.
Received ==
    \A a \in End, c \in Clients : Home[c] = a[1] =>
        \A j \in 1..Len(inbox[c]) : After(wire[Peer(a)], inbox[c][j].from, inbox[c][j].id)

\* The sessions that client d has still to give its message to.
Pending(d, e) == e[1] = Home[d] /\ (task[d].step = "clients" \/ e \in todo[d])

\* What a client sends is younger than what the others have, are given or will
\* read, as long as they have not been given it.
Sending ==
    \A d \in Clients : Active(d) =>
        /\ \A e \in End : Pending(d, e) =>
              /\ Before(wire[e], d, task[d].msg.id)
              /\ Active(Peer(e)) /\ task[Peer(e)].msg.from = d => task[Peer(e)].msg.id < task[d].msg.id
              /\ \A c \in Clients : Home[c] = e[2] => Before(inbox[c], d, task[d].msg.id)
        /\ task[d].step = "clients" => \A c \in todo[d] : Before(inbox[c], d, task[d].msg.id)

Line == Past /\ Queues /\ Delivering /\ Received /\ Sending
\* A change of a queue that puts no message behind the others.
Thins(q, r) ==
    /\ Sorted(q) => Sorted(r)
    /\ \A d \in Clients, n \in Nat : /\ n >= 1 /\ Before(q, d, n) => Before(r, d, n)
                                     /\ After(q, d, n) => After(r, d, n)

LEMMA ThinsKept == ASSUME NEW q PROVE Thins(q, q)
BY DEF Thins

LEMMA ThinsTail ==
    ASSUME NEW q \in Seq(Payload \cup News), q /= <<>>
    PROVE  /\ Thins(q, Tail(q))
           /\ Sorted(q) /\ IsPayload(Head(q)) => After(Tail(q), Head(q).from, Head(q).id)
<1>1. /\ Head(q) = q[1] /\ Len(q) \in Nat \ {0} /\ Len(Tail(q)) = Len(q) - 1
      /\ \A i \in 1..Len(Tail(q)) : Tail(q)[i] = q[i + 1]
  BY QueueFacts
<1>2. /\ \A i \in 1..Len(Tail(q)) : /\ i + 1 \in 1..Len(q) /\ 1 \in 1..Len(q) /\ 1 < i + 1
                                    /\ Tail(q)[i] = q[i + 1]
      /\ \A i, j \in 1..Len(Tail(q)) : i < j => i + 1 < j + 1
  BY <1>1
<1>3. Sorted(q) => Sorted(Tail(q))
  BY <1>2 DEF Sorted
<1>4. \A d \in Clients, n \in Nat : /\ Before(q, d, n) => Before(Tail(q), d, n)
                                    /\ After(q, d, n) => After(Tail(q), d, n)
  BY <1>2 DEF Before, After
<1>5. Sorted(q) /\ IsPayload(Head(q)) => After(Tail(q), Head(q).from, Head(q).id)
  BY <1>1, <1>2 DEF Sorted, After
<1> QED BY <1>3, <1>4, <1>5 DEF Thins

\* A queue of news only.
LEMMA ThinsNews ==
    ASSUME NEW q, NEW r, \A i \in 1..Len(r) : r[i] \in News
    PROVE  Thins(q, r)
<1>1. \A i \in 1..Len(r) : r[i].id = 0 /\ ~IsPayload(r[i])
  BY MessageShape
<1>2. Sorted(r)
  BY <1>1 DEF Sorted
<1>3. \A d \in Clients, n \in Nat : (n >= 1 => Before(r, d, n)) /\ After(r, d, n)
  BY <1>1 DEF Before, After
<1> QED BY <1>2, <1>3 DEF Thins

\* A message at the end of a queue.
LEMMA Appended ==
    ASSUME NEW q \in Seq(Payload \cup News), NEW m \in Payload \cup News
    PROVE  /\ Sorted(q) /\ (IsPayload(m) => Before(q, m.from, m.id)) => Sorted(Append(q, m))
           /\ \A d \in Clients, n \in Nat :
                 /\ Before(q, d, n) /\ (m.from = d => m.id < n) => Before(Append(q, m), d, n)
                 /\ After(q, d, n) /\ (m.from = d /\ IsPayload(m) => n < m.id)
                        => After(Append(q, m), d, n)
<1> DEFINE r == Append(q, m)
<1>1. /\ Len(q) \in Nat /\ Len(r) = Len(q) + 1 /\ r[Len(q) + 1] = m
      /\ \A i \in 1..Len(q) : r[i] = q[i]
  BY QueueFacts
<1> HIDE DEF r
<1>2. \A i \in 1..Len(r) : \/ i \in 1..Len(q) /\ r[i] = q[i]
                           \/ i = Len(q) + 1 /\ r[i] = m
  BY <1>1
<1>3. \A i, j \in 1..Len(r) : i < j => i \in 1..Len(q)
  BY <1>1
<1>4. Sorted(q) /\ (IsPayload(m) => Before(q, m.from, m.id)) => Sorted(r)
  <2> SUFFICES ASSUME Sorted(q), IsPayload(m) => Before(q, m.from, m.id),
                      NEW i \in 1..Len(r), NEW j \in 1..Len(r), i < j,
                      r[i].from = r[j].from, IsPayload(r[i]), IsPayload(r[j])
               PROVE  r[i].id < r[j].id
    BY DEF Sorted
  <2>1. i \in 1..Len(q) /\ r[i] = q[i]
    BY <1>1, <1>3
  <2>2. CASE j \in 1..Len(q) /\ r[j] = q[j]
    BY <2>1, <2>2 DEF Sorted
  <2>3. CASE r[j] = m
    BY <2>1, <2>3 DEF Before
  <2> QED BY <1>2, <2>2, <2>3
<1>5. \A d \in Clients, n \in Nat :
         /\ Before(q, d, n) /\ (m.from = d => m.id < n) => Before(r, d, n)
         /\ After(q, d, n) /\ (m.from = d /\ IsPayload(m) => n < m.id) => After(r, d, n)
  BY <1>2 DEF Before, After
<1> QED BY <1>4, <1>5 DEF r

LEMMA ThinsAppend ==
    ASSUME NEW q \in Seq(Payload \cup News), NEW m \in News
    PROVE  Thins(q, Append(q, m))
<1>1. ~IsPayload(m) /\ m.id = 0
  BY MessageShape
<1>2. Sorted(q) => Sorted(Append(q, m))
  BY <1>1, Appended
<1>3. \A d \in Clients, n \in Nat : /\ n >= 1 /\ Before(q, d, n) => Before(Append(q, m), d, n)
                                    /\ After(q, d, n) => After(Append(q, m), d, n)
  BY <1>1, Appended
<1> QED BY <1>2, <1>3 DEF Thins

\* Looser bounds.
LEMMA BeforeLater ==
    ASSUME NEW q \in Seq(Payload \cup News), NEW d, NEW n \in Nat, Before(q, d, n),
           NEW k \in Nat, n <= k
    PROVE  Before(q, d, k)
<1>1. \A i \in 1..Len(q) : q[i].id \in Nat
  <2>1. \A i \in 1..Len(q) : q[i] \in Payload \cup News
    BY QueueFacts
  <2> QED BY <2>1, MessageShape
<1> QED BY <1>1 DEF Before

LEMMA AfterEarlier ==
    ASSUME NEW q \in Seq(Payload \cup News), NEW d, NEW n \in Nat, After(q, d, n),
           NEW k \in Nat, k <= n
    PROVE  After(q, d, k)
<1>1. \A i \in 1..Len(q) : q[i].id \in Nat
  <2>1. \A i \in 1..Len(q) : q[i] \in Payload \cup News
    BY QueueFacts
  <2> QED BY <2>1, MessageShape
<1> QED BY <1>1 DEF After

-----------------------------------------------------------------------------
(* The steps.                                                              *)

\* A task goes on as it was, or ends.
GoesOn(a) ==
    Active(a)' =>
        /\ Active(a) /\ task'[a].msg = task[a].msg
        /\ a \in End => todo'[a] \subseteq todo[a]
        /\ a \in Clients => /\ \A e \in End : Pending(a, e)' => Pending(a, e)
                            /\ task'[a].step = "clients" =>
                                  task[a].step = "clients" /\ todo'[a] \subseteq todo[a]

\* The same for all tasks but that of x; the queues get nothing but news.
Quiet(x) ==
    /\ \A a \in Actor \ {x} : GoesOn(a)
    /\ posted' \in Seq(Payload) /\ Len(posted) <= Len(posted')
    /\ \A e \in End : Thins(wire[e], wire'[e])

\* The types of the messages the invariant compares.
LEMMA MessageFacts ==
    ASSUME TypeOK
    PROVE  /\ Len(posted) \in Nat
           /\ \A a \in Actor : Active(a) => /\ task[a].msg \in Payload /\ task[a].msg.from \in Clients
                                            /\ task[a].msg.id \in Nat /\ task[a].msg.id >= 1
           /\ \A c \in Clients : inbox[c] \in Seq(Payload) /\ inbox[c] \in Seq(Payload \cup News)
           /\ \A c \in Clients : \A i \in 1..Len(inbox[c]) :
                 /\ inbox[c][i].from \in Clients /\ IsPayload(inbox[c][i])
                 /\ inbox[c][i].id \in Nat /\ inbox[c][i].id >= 1
           /\ \A e \in End : wire[e] \in Seq(Payload \cup News)
<1>1. TaskTypes /\ BoxType /\ PostTypes /\ WireType
  BY TypeParts
<1>2. \A a \in Actor : Active(a) => task[a].msg \in Payload
  BY <1>1 DEF TaskTypes, Active
<1>3. \A c \in Clients : inbox[c] \in Seq(Payload) /\ inbox[c] \in Seq(Payload \cup News)
  BY <1>1 DEF BoxType
<1>4. \A c \in Clients : \A i \in 1..Len(inbox[c]) : inbox[c][i] \in Payload
  BY <1>3
<1>5. \A m \in Payload : m.from \in Clients /\ IsPayload(m) /\ m.id \in Nat /\ m.id >= 1
  BY MessageShape
<1> QED BY <1>1, <1>2, <1>3, <1>4, <1>5 DEF PostTypes, WireType

LEMMA GivenToClients ==
    ASSUME TypeOK, Origin
    PROVE  \A a \in Actor : Active(a) /\ (a \in End \/ task[a].step = "clients") =>
               todo[a] \subseteq Clients
<1> SUFFICES ASSUME NEW a \in Actor, Active(a), a \in End \/ task[a].step = "clients"
             PROVE  todo[a] \subseteq Clients
  OBVIOUS
<1>1. task[a].step /= "sessions"
  BY Shape DEF Origin, TaskOrigin, Active
<1> QED BY <1>1, TypeParts DEF TaskTypes, Active

LEMMA LineThin ==
    ASSUME TypeOK, Line, NEW x, Quiet(x), x \in Actor => GoesOn(x), UNCHANGED inbox
    PROVE  Line'
<1> USE Shape, MessageFacts
<1>1. /\ \A a \in Actor : GoesOn(a)
      /\ Len(posted') \in Nat /\ Len(posted) <= Len(posted')
      /\ \A e \in End : Thins(wire[e], wire'[e])
  BY DEF Quiet
<1>2. Past'
  <2>0. PICK n \in Nat, k \in Nat : n = Len(posted) + 1 /\ k = Len(posted') + 1 /\ n <= k /\ k >= 1
    BY <1>1
  <2>1. ASSUME NEW d \in Clients, NEW e \in End PROVE Before(wire'[e], d, Len(posted') + 1)
    <3>1. Before(wire[e], d, n)
      BY <2>0 DEF Line, Past
    <3>2. Before(wire[e], d, k)
      BY <2>0, <3>1, BeforeLater
    <3>3. Before(wire'[e], d, k)
      BY <1>1, <2>0, <3>2 DEF Thins
    <3> QED BY <2>0, <3>3
  <2>2. ASSUME NEW d \in Clients, NEW c \in Clients PROVE Before(inbox'[c], d, Len(posted') + 1)
    <3>1. Before(inbox[c], d, n)
      BY <2>0 DEF Line, Past
    <3>2. Before(inbox[c], d, k)
      BY <2>0, <3>1, BeforeLater
    <3> QED BY <2>0, <3>2
  <2>3. ASSUME NEW a \in Actor, Active(a)' PROVE task'[a].msg.id <= Len(posted')
    BY <1>1, <2>3 DEF Line, Past, GoesOn
  <2> QED BY <2>1, <2>2, <2>3 DEF Past
<1>3. Queues'
  BY <1>1 DEF Line, Queues, Thins
<1>4. Delivering'
  <2> SUFFICES ASSUME NEW a \in End, Active(a)'
               PROVE  /\ After(wire'[Peer(a)], task'[a].msg.from, task'[a].msg.id)
                      /\ \A c \in todo'[a] : Before(inbox'[c], task'[a].msg.from, task'[a].msg.id)
    BY DEF Delivering
  <2>1. Active(a) /\ task'[a].msg = task[a].msg /\ todo'[a] \subseteq todo[a]
    BY <1>1 DEF GoesOn
  <2>2. Thins(wire[Peer(a)], wire'[Peer(a)])
    BY <1>1
  <2> QED BY <2>1, <2>2 DEF Line, Delivering, Thins
<1>5. Received'
  <2> SUFFICES ASSUME NEW a \in End, NEW c \in Clients, Home[c] = a[1], NEW j \in 1..Len(inbox'[c])
               PROVE  After(wire'[Peer(a)], inbox'[c][j].from, inbox'[c][j].id)
    BY DEF Received
  <2>2. Thins(wire[Peer(a)], wire'[Peer(a)])
    BY <1>1
  <2> QED BY <2>2 DEF Line, Received, Thins
<1>6. Sending'
  <2> SUFFICES ASSUME NEW d \in Clients, Active(d)'
               PROVE  /\ \A e \in End : Pending(d, e)' =>
                            /\ Before(wire'[e], d, task'[d].msg.id)
                            /\ Active(Peer(e))' /\ task'[Peer(e)].msg.from = d =>
                                   task'[Peer(e)].msg.id < task'[d].msg.id
                            /\ \A c \in Clients : Home[c] = e[2] =>
                                   Before(inbox'[c], d, task'[d].msg.id)
                      /\ task'[d].step = "clients" =>
                            \A c \in todo'[d] : Before(inbox'[c], d, task'[d].msg.id)
    BY DEF Sending
  <2>1. /\ Active(d) /\ task'[d].msg = task[d].msg
        /\ \A e \in End : Pending(d, e)' => Pending(d, e)
        /\ task'[d].step = "clients" => task[d].step = "clients" /\ todo'[d] \subseteq todo[d]
    BY <1>1 DEF GoesOn
  <2>2. ASSUME NEW e \in End, Pending(d, e)'
        PROVE  /\ Before(wire'[e], d, task'[d].msg.id)
               /\ Active(Peer(e))' /\ task'[Peer(e)].msg.from = d =>
                      task'[Peer(e)].msg.id < task'[d].msg.id
               /\ \A c \in Clients : Home[c] = e[2] => Before(inbox'[c], d, task'[d].msg.id)
    <3>1. /\ Before(wire[e], d, task[d].msg.id)
          /\ Active(Peer(e)) /\ task[Peer(e)].msg.from = d => task[Peer(e)].msg.id < task[d].msg.id
          /\ \A c \in Clients : Home[c] = e[2] => Before(inbox[c], d, task[d].msg.id)
      BY <2>1, <2>2 DEF Line, Sending
    <3>2. Thins(wire[e], wire'[e])
      BY <1>1
    <3>3. Active(Peer(e))' => Active(Peer(e)) /\ task'[Peer(e)].msg = task[Peer(e)].msg
      BY <1>1 DEF GoesOn
    <3> QED BY <2>1, <3>1, <3>2, <3>3 DEF Thins
  <2>3. ASSUME task'[d].step = "clients", NEW c \in todo'[d]
        PROVE  Before(inbox'[c], d, task'[d].msg.id)
    BY <2>1, <2>3 DEF Line, Sending
  <2> QED BY <2>2, <2>3
<1> QED BY <1>2, <1>3, <1>4, <1>5, <1>6 DEF Line

\* Message m is put into the inbox of c: it has to be younger than what is
\* there, older than what is still to come.
LEMMA LineInbox ==
    ASSUME TypeOK, Origin, Line, NEW x, Quiet(x), x \in Actor => GoesOn(x),
           NEW c \in Clients, NEW m \in Payload,
           inbox'[c] = Append(inbox[c], m),
           \A d \in Clients : d /= c => inbox'[d] = inbox[d],
           m.id <= Len(posted'), Before(inbox[c], m.from, m.id),
           \A a \in End : /\ Active(a)' /\ c \in todo'[a] /\ task'[a].msg.from = m.from
                                 => m.id < task'[a].msg.id
                          /\ Home[c] = a[1] => After(wire'[Peer(a)], m.from, m.id),
           Active(m.from)' =>
              /\ \A e \in End : Pending(m.from, e)' /\ Home[c] = e[2] => m.id < task'[m.from].msg.id
              /\ task'[m.from].step = "clients" /\ c \in todo'[m.from] => m.id < task'[m.from].msg.id
    PROVE  Line'
<1> USE Shape, MessageFacts
<1>1. /\ \A a \in Actor : GoesOn(a)
      /\ Len(posted') \in Nat /\ Len(posted) <= Len(posted')
      /\ \A e \in End : Thins(wire[e], wire'[e])
  BY DEF Quiet
<1>2. m.from \in Clients /\ m.id \in Nat /\ m.id >= 1 /\ IsPayload(m)
  BY MessageShape
\* What is before a message is still, when m is.
<1>3. \A b, d \in Clients, n \in Nat :
         Before(inbox[b], d, n) /\ (b = c /\ m.from = d => m.id < n) => Before(inbox'[b], d, n)
  <2>1. \A d \in Clients, n \in Nat :
           Before(inbox[c], d, n) /\ (m.from = d => m.id < n) => Before(inbox'[c], d, n)
    <3>1. inbox[c] \in Seq(Payload \cup News)
      OBVIOUS
    <3>2. \A d \in Clients, n \in Nat :
             Before(inbox[c], d, n) /\ (m.from = d => m.id < n) => Before(Append(inbox[c], m), d, n)
      BY <3>1, Appended
    <3> QED BY <3>2
  <2> QED BY <2>1
<1>4. Past'
  <2>0. PICK n \in Nat, k \in Nat : /\ n = Len(posted) + 1 /\ k = Len(posted') + 1
                                    /\ n <= k /\ k >= 1 /\ m.id < k
    BY <1>1, <1>2
  <2>1. ASSUME NEW d \in Clients, NEW e \in End PROVE Before(wire'[e], d, Len(posted') + 1)
    <3>1. Before(wire[e], d, n)
      BY <2>0 DEF Line, Past
    <3>2. Before(wire[e], d, k)
      BY <2>0, <3>1, BeforeLater
    <3>3. Before(wire'[e], d, k)
      BY <1>1, <2>0, <3>2 DEF Thins
    <3> QED BY <2>0, <3>3
  <2>2. ASSUME NEW d \in Clients, NEW b \in Clients PROVE Before(inbox'[b], d, Len(posted') + 1)
    <3>1. Before(inbox[b], d, n)
      BY <2>0 DEF Line, Past
    <3>2. Before(inbox[b], d, k)
      BY <2>0, <3>1, BeforeLater
    <3> QED BY <1>3, <2>0, <3>2
  <2>3. ASSUME NEW a \in Actor, Active(a)' PROVE task'[a].msg.id <= Len(posted')
    BY <1>1, <2>3 DEF Line, Past, GoesOn
  <2> QED BY <2>1, <2>2, <2>3 DEF Past
<1>5. Queues'
  <2>1. Sorted(inbox'[c])
    BY Appended DEF Line, Queues
  <2> QED BY <1>1, <2>1 DEF Line, Queues, Thins
<1>6. Delivering'
  <2> SUFFICES ASSUME NEW a \in End, Active(a)'
               PROVE  /\ After(wire'[Peer(a)], task'[a].msg.from, task'[a].msg.id)
                      /\ \A b \in todo'[a] : Before(inbox'[b], task'[a].msg.from, task'[a].msg.id)
    BY DEF Delivering
  <2>1. Active(a) /\ task'[a].msg = task[a].msg /\ todo'[a] \subseteq todo[a]
    BY <1>1 DEF GoesOn
  <2>2. Thins(wire[Peer(a)], wire'[Peer(a)])
    BY <1>1
  <2>3. After(wire'[Peer(a)], task'[a].msg.from, task'[a].msg.id)
    BY <2>1, <2>2 DEF Line, Delivering, Thins
  <2>4. ASSUME NEW b \in todo'[a] PROVE Before(inbox'[b], task'[a].msg.from, task'[a].msg.id)
    <3>1. Before(inbox[b], task[a].msg.from, task[a].msg.id)
      BY <2>1 DEF Line, Delivering
    <3>2. CASE b = c
      BY <1>3, <2>1, <3>1, <3>2
    <3>3. CASE b /= c
      <4>1. b \in Clients
        BY <2>1, GivenToClients
      <4> QED BY <2>1, <3>1, <3>3, <4>1
    <3> QED BY <3>2, <3>3
  <2> QED BY <2>3, <2>4
<1>7. Received'
  <2> SUFFICES ASSUME NEW a \in End, NEW b \in Clients, Home[b] = a[1], NEW j \in 1..Len(inbox'[b])
               PROVE  After(wire'[Peer(a)], inbox'[b][j].from, inbox'[b][j].id)
    BY DEF Received
  <2>1. Thins(wire[Peer(a)], wire'[Peer(a)])
    BY <1>1
  <2>2. CASE j \in 1..Len(inbox[b]) /\ inbox'[b][j] = inbox[b][j]
    BY <2>1, <2>2 DEF Line, Received, Thins
  <2>3. CASE b = c /\ inbox'[b][j] = m
    BY <2>3
  <2>4. \/ j \in 1..Len(inbox[b]) /\ inbox'[b][j] = inbox[b][j]
        \/ b = c /\ inbox'[b][j] = m
    <3>1. CASE b = c
      <4>1. inbox[c] \in Seq(Payload)
        OBVIOUS
      <4>2. /\ Len(Append(inbox[c], m)) = Len(inbox[c]) + 1 /\ Len(inbox[c]) \in Nat
            /\ Append(inbox[c], m)[Len(inbox[c]) + 1] = m
            /\ \A i \in 1..Len(inbox[c]) : Append(inbox[c], m)[i] = inbox[c][i]
        BY <4>1, QueueFacts
      <4> QED BY <3>1, <4>2
    <3>2. CASE b /= c
      BY <3>2
    <3> QED BY <3>1, <3>2
  <2> QED BY <2>2, <2>3, <2>4
<1>8. Sending'
  <2> SUFFICES ASSUME NEW d \in Clients, Active(d)'
               PROVE  /\ \A e \in End : Pending(d, e)' =>
                            /\ Before(wire'[e], d, task'[d].msg.id)
                            /\ Active(Peer(e))' /\ task'[Peer(e)].msg.from = d =>
                                   task'[Peer(e)].msg.id < task'[d].msg.id
                            /\ \A b \in Clients : Home[b] = e[2] =>
                                   Before(inbox'[b], d, task'[d].msg.id)
                      /\ task'[d].step = "clients" =>
                            \A b \in todo'[d] : Before(inbox'[b], d, task'[d].msg.id)
    BY DEF Sending
  <2>1. /\ Active(d) /\ task'[d].msg = task[d].msg
        /\ \A e \in End : Pending(d, e)' => Pending(d, e)
        /\ task'[d].step = "clients" => task[d].step = "clients" /\ todo'[d] \subseteq todo[d]
    BY <1>1 DEF GoesOn
  <2>2. ASSUME NEW e \in End, Pending(d, e)'
        PROVE  /\ Before(wire'[e], d, task'[d].msg.id)
               /\ Active(Peer(e))' /\ task'[Peer(e)].msg.from = d =>
                      task'[Peer(e)].msg.id < task'[d].msg.id
               /\ \A b \in Clients : Home[b] = e[2] => Before(inbox'[b], d, task'[d].msg.id)
    <3>1. /\ Before(wire[e], d, task[d].msg.id)
          /\ Active(Peer(e)) /\ task[Peer(e)].msg.from = d => task[Peer(e)].msg.id < task[d].msg.id
          /\ \A b \in Clients : Home[b] = e[2] => Before(inbox[b], d, task[d].msg.id)
      BY <2>1, <2>2 DEF Line, Sending
    <3>2. Thins(wire[e], wire'[e])
      BY <1>1
    <3>3. Active(Peer(e))' => Active(Peer(e)) /\ task'[Peer(e)].msg = task[Peer(e)].msg
      BY <1>1 DEF GoesOn
    <3>4. \A b \in Clients : Home[b] = e[2] => Before(inbox'[b], d, task'[d].msg.id)
      BY <1>3, <2>1, <2>2, <3>1
    <3> QED BY <2>1, <3>1, <3>2, <3>3, <3>4 DEF Thins
  <2>3. ASSUME task'[d].step = "clients", NEW b \in todo'[d]
        PROVE  Before(inbox'[b], d, task'[d].msg.id)
    <3>1. Before(inbox[b], d, task[d].msg.id)
      BY <2>1, <2>3 DEF Line, Sending
    <3>2. b \in Clients
      BY <2>1, <2>3, GivenToClients
    <3> QED BY <1>3, <2>1, <2>3, <3>1, <3>2
  <2> QED BY <2>2, <2>3
<1> QED BY <1>4, <1>5, <1>6, <1>7, <1>8 DEF Line

\* Message m is put on the wire of e.
LEMMA LineWire ==
    ASSUME TypeOK, Line, NEW e \in End, NEW m \in Payload, UNCHANGED inbox,
           \A a \in Actor : GoesOn(a),
           posted' \in Seq(Payload), Len(posted) <= Len(posted'),
           wire'[e] = Append(wire[e], m),
           \A f \in End : f /= e => wire'[f] = wire[f],
           m.id <= Len(posted'), Before(wire[e], m.from, m.id),
           Active(Peer(e))' /\ task'[Peer(e)].msg.from = m.from => task'[Peer(e)].msg.id < m.id,
           \A c \in Clients : Home[c] = e[2] => Before(inbox[c], m.from, m.id),
           Active(m.from)' /\ Pending(m.from, e)' => m.id < task'[m.from].msg.id
    PROVE  Line'
<1> USE Shape, MessageFacts
<1>1. Len(posted') \in Nat
  OBVIOUS
<1>2. m.from \in Clients /\ m.id \in Nat /\ m.id >= 1 /\ IsPayload(m)
  BY MessageShape
\* What is before or behind a message is still, when m is.
<1>3. \A f \in End, d \in Clients, n \in Nat :
         /\ Before(wire[f], d, n) /\ (f = e /\ m.from = d => m.id < n) => Before(wire'[f], d, n)
         /\ After(wire[f], d, n) /\ (f = e /\ m.from = d => n < m.id) => After(wire'[f], d, n)
  <2>1. wire[e] \in Seq(Payload \cup News)
    OBVIOUS
  <2>2. \A d \in Clients, n \in Nat :
           /\ Before(wire[e], d, n) /\ (m.from = d => m.id < n) => Before(Append(wire[e], m), d, n)
           /\ After(wire[e], d, n) /\ (m.from = d /\ IsPayload(m) => n < m.id)
                  => After(Append(wire[e], m), d, n)
    BY <2>1, Appended
  <2> SUFFICES ASSUME NEW f \in End, NEW d \in Clients, NEW n \in Nat
               PROVE  /\ Before(wire[f], d, n) /\ (f = e /\ m.from = d => m.id < n)
                             => Before(wire'[f], d, n)
                      /\ After(wire[f], d, n) /\ (f = e /\ m.from = d => n < m.id)
                             => After(wire'[f], d, n)
    OBVIOUS
  <2>3. CASE f /= e
    BY <2>3
  <2>4. CASE f = e
    <3>1. wire'[f] = Append(wire[e], m) /\ wire[f] = wire[e]
      BY <2>4
    <3>2. ASSUME Before(wire[f], d, n), m.from = d => m.id < n PROVE Before(wire'[f], d, n)
      BY <2>2, <3>1, <3>2
    <3>3. ASSUME After(wire[f], d, n), m.from = d => n < m.id PROVE After(wire'[f], d, n)
      BY <2>2, <3>1, <3>3
    <3> QED BY <2>4, <3>2, <3>3
  <2> QED BY <2>3, <2>4
<1>4. Past'
  <2>0. PICK n \in Nat, k \in Nat : /\ n = Len(posted) + 1 /\ k = Len(posted') + 1
                                    /\ n <= k /\ k >= 1 /\ m.id < k
    BY <1>1, <1>2
  <2>1. ASSUME NEW d \in Clients, NEW f \in End PROVE Before(wire'[f], d, Len(posted') + 1)
    <3>1. Before(wire[f], d, n)
      BY <2>0 DEF Line, Past
    <3>2. Before(wire[f], d, k)
      BY <2>0, <3>1, BeforeLater
    <3> QED BY <1>3, <2>0, <3>2
  <2>2. ASSUME NEW d \in Clients, NEW b \in Clients PROVE Before(inbox'[b], d, Len(posted') + 1)
    <3>1. Before(inbox[b], d, n)
      BY <2>0 DEF Line, Past
    <3>2. Before(inbox[b], d, k)
      BY <2>0, <3>1, BeforeLater
    <3> QED BY <2>0, <3>2
  <2>3. ASSUME NEW a \in Actor, Active(a)' PROVE task'[a].msg.id <= Len(posted')
    BY <1>1, <2>3 DEF Line, Past, GoesOn
  <2> QED BY <2>1, <2>2, <2>3 DEF Past
<1>5. Queues'
  <2>1. wire[e] \in Seq(Payload \cup News) /\ Sorted(wire[e])
    BY DEF Line, Queues
  <2>2. Sorted(wire'[e])
    BY <2>1, Appended
  <2> QED BY <2>2 DEF Line, Queues
<1>6. Delivering'
  <2> SUFFICES ASSUME NEW a \in End, Active(a)'
               PROVE  /\ After(wire'[Peer(a)], task'[a].msg.from, task'[a].msg.id)
                      /\ \A b \in todo'[a] : Before(inbox'[b], task'[a].msg.from, task'[a].msg.id)
    BY DEF Delivering
  <2>1. Active(a) /\ task'[a].msg = task[a].msg /\ todo'[a] \subseteq todo[a]
    BY DEF GoesOn
  <2>2. After(wire[Peer(a)], task[a].msg.from, task[a].msg.id)
    BY <2>1 DEF Line, Delivering
  <2>3. Peer(a) = e /\ task'[a].msg.from = m.from => task'[a].msg.id < m.id
    OBVIOUS
  <2>4. After(wire'[Peer(a)], task'[a].msg.from, task'[a].msg.id)
    BY <1>3, <2>1, <2>2, <2>3
  <2> QED BY <2>1, <2>4 DEF Line, Delivering
<1>7. Received'
  <2> SUFFICES ASSUME NEW a \in End, NEW b \in Clients, Home[b] = a[1], NEW j \in 1..Len(inbox'[b])
               PROVE  After(wire'[Peer(a)], inbox'[b][j].from, inbox'[b][j].id)
    BY DEF Received
  <2>1. After(wire[Peer(a)], inbox[b][j].from, inbox[b][j].id)
    BY DEF Line, Received
  <2>2. Peer(a) = e /\ inbox[b][j].from = m.from => inbox[b][j].id < m.id
    <3>1. Peer(a) = e => Home[b] = e[2]
      OBVIOUS
    <3>2. j \in 1..Len(inbox[b])
      OBVIOUS
    <3> QED BY <3>1, <3>2 DEF Before
  <2> QED BY <1>3, <2>1, <2>2
<1>8. Sending'
  <2> SUFFICES ASSUME NEW d \in Clients, Active(d)'
               PROVE  /\ \A f \in End : Pending(d, f)' =>
                            /\ Before(wire'[f], d, task'[d].msg.id)
                            /\ Active(Peer(f))' /\ task'[Peer(f)].msg.from = d =>
                                   task'[Peer(f)].msg.id < task'[d].msg.id
                            /\ \A b \in Clients : Home[b] = f[2] =>
                                   Before(inbox'[b], d, task'[d].msg.id)
                      /\ task'[d].step = "clients" =>
                            \A b \in todo'[d] : Before(inbox'[b], d, task'[d].msg.id)
    BY DEF Sending
  <2>1. /\ Active(d) /\ task'[d].msg = task[d].msg
        /\ \A f \in End : Pending(d, f)' => Pending(d, f)
        /\ task'[d].step = "clients" => task[d].step = "clients" /\ todo'[d] \subseteq todo[d]
    BY DEF GoesOn
  <2>2. ASSUME NEW f \in End, Pending(d, f)'
        PROVE  /\ Before(wire'[f], d, task'[d].msg.id)
               /\ Active(Peer(f))' /\ task'[Peer(f)].msg.from = d =>
                      task'[Peer(f)].msg.id < task'[d].msg.id
               /\ \A b \in Clients : Home[b] = f[2] => Before(inbox'[b], d, task'[d].msg.id)
    <3>1. /\ Before(wire[f], d, task[d].msg.id)
          /\ Active(Peer(f)) /\ task[Peer(f)].msg.from = d => task[Peer(f)].msg.id < task[d].msg.id
          /\ \A b \in Clients : Home[b] = f[2] => Before(inbox[b], d, task[d].msg.id)
      BY <2>1, <2>2 DEF Line, Sending
    <3>2. Active(Peer(f))' => Active(Peer(f)) /\ task'[Peer(f)].msg = task[Peer(f)].msg
      BY DEF GoesOn
    <3>3. f = e /\ m.from = d => m.id < task'[d].msg.id
      BY <2>2
    <3>4. Before(wire'[f], d, task'[d].msg.id)
      BY <1>3, <2>1, <3>1, <3>3
    <3> QED BY <2>1, <3>1, <3>2, <3>4
  <2>3. ASSUME task'[d].step = "clients", NEW b \in todo'[d]
        PROVE  Before(inbox'[b], d, task'[d].msg.id)
    BY <2>1, <2>3 DEF Line, Sending
  <2> QED BY <2>2, <2>3
<1> QED BY <1>4, <1>5, <1>6, <1>7, <1>8 DEF Line

\* Message m becomes the task of x.
LEMMA LineBegin ==
    ASSUME TypeOK, Line, NEW x \in Actor, Quiet(x), NEW m \in Payload, UNCHANGED inbox,
           task'[x].msg = m, m.id <= Len(posted'),
           \A c \in todo'[x] : c \in Clients /\ Before(inbox[c], m.from, m.id),
           x \in End => /\ After(wire'[Peer(x)], m.from, m.id)
                        /\ Active(m.from)' /\ Pending(m.from, Peer(x))' => m.id < task'[m.from].msg.id,
           x \in Clients => /\ m.from = x
                            /\ \A e \in End : /\ Before(wire'[e], x, m.id)
                                              /\ Active(e)' => task'[e].msg.id < m.id
                            /\ \A c \in Clients : Before(inbox[c], x, m.id)
    PROVE  Line'
<1> USE Shape, MessageFacts
<1>1. /\ \A a \in Actor : a /= x => GoesOn(a)
      /\ Len(posted') \in Nat /\ Len(posted) <= Len(posted')
      /\ \A e \in End : Thins(wire[e], wire'[e])
  BY DEF Quiet
<1>2. m.from \in Clients /\ m.id \in Nat /\ m.id >= 1 /\ IsPayload(m)
  BY MessageShape
<1>4. Past'
  <2>0. PICK n \in Nat, k \in Nat : n = Len(posted) + 1 /\ k = Len(posted') + 1 /\ n <= k /\ k >= 1
    BY <1>1
  <2>1. ASSUME NEW d \in Clients, NEW e \in End PROVE Before(wire'[e], d, Len(posted') + 1)
    <3>1. Before(wire[e], d, n)
      BY <2>0 DEF Line, Past
    <3>2. Before(wire[e], d, k)
      BY <2>0, <3>1, BeforeLater
    <3>3. Before(wire'[e], d, k)
      BY <1>1, <2>0, <3>2 DEF Thins
    <3> QED BY <2>0, <3>3
  <2>2. ASSUME NEW d \in Clients, NEW c \in Clients PROVE Before(inbox'[c], d, Len(posted') + 1)
    <3>1. Before(inbox[c], d, n)
      BY <2>0 DEF Line, Past
    <3>2. Before(inbox[c], d, k)
      BY <2>0, <3>1, BeforeLater
    <3> QED BY <2>0, <3>2
  <2>3. ASSUME NEW a \in Actor, Active(a)' PROVE task'[a].msg.id <= Len(posted')
    BY <1>1, <2>3 DEF Line, Past, GoesOn
  <2> QED BY <2>1, <2>2, <2>3 DEF Past
<1>5. Queues'
  BY <1>1 DEF Line, Queues, Thins
<1>6. Delivering'
  <2> SUFFICES ASSUME NEW a \in End, Active(a)'
               PROVE  /\ After(wire'[Peer(a)], task'[a].msg.from, task'[a].msg.id)
                      /\ \A b \in todo'[a] : Before(inbox'[b], task'[a].msg.from, task'[a].msg.id)
    BY DEF Delivering
  <2>1. CASE a = x
    BY <2>1
  <2>2. CASE a /= x
    <3>1. Active(a) /\ task'[a].msg = task[a].msg /\ todo'[a] \subseteq todo[a]
      BY <1>1, <2>2 DEF GoesOn
    <3>2. Thins(wire[Peer(a)], wire'[Peer(a)])
      BY <1>1
    <3> QED BY <3>1, <3>2 DEF Line, Delivering, Thins
  <2> QED BY <2>1, <2>2
<1>7. Received'
  <2> SUFFICES ASSUME NEW a \in End, NEW b \in Clients, Home[b] = a[1], NEW j \in 1..Len(inbox'[b])
               PROVE  After(wire'[Peer(a)], inbox'[b][j].from, inbox'[b][j].id)
    BY DEF Received
  <2>1. Thins(wire[Peer(a)], wire'[Peer(a)])
    BY <1>1
  <2> QED BY <2>1 DEF Line, Received, Thins
<1>8. Sending'
  <2> SUFFICES ASSUME NEW d \in Clients, Active(d)'
               PROVE  /\ \A e \in End : Pending(d, e)' =>
                            /\ Before(wire'[e], d, task'[d].msg.id)
                            /\ Active(Peer(e))' /\ task'[Peer(e)].msg.from = d =>
                                   task'[Peer(e)].msg.id < task'[d].msg.id
                            /\ \A b \in Clients : Home[b] = e[2] =>
                                   Before(inbox'[b], d, task'[d].msg.id)
                      /\ task'[d].step = "clients" =>
                            \A b \in todo'[d] : Before(inbox'[b], d, task'[d].msg.id)
    BY DEF Sending
  <2>1. CASE d = x
    BY <2>1
  <2>2. CASE d /= x
    <3>1. /\ Active(d) /\ task'[d].msg = task[d].msg
          /\ \A e \in End : Pending(d, e)' => Pending(d, e)
          /\ task'[d].step = "clients" => task[d].step = "clients" /\ todo'[d] \subseteq todo[d]
      BY <1>1, <2>2 DEF GoesOn
    <3>2. ASSUME NEW e \in End, Pending(d, e)'
          PROVE  /\ Before(wire'[e], d, task'[d].msg.id)
                 /\ Active(Peer(e))' /\ task'[Peer(e)].msg.from = d =>
                        task'[Peer(e)].msg.id < task'[d].msg.id
                 /\ \A b \in Clients : Home[b] = e[2] => Before(inbox'[b], d, task'[d].msg.id)
      <4>1. /\ Before(wire[e], d, task[d].msg.id)
            /\ Active(Peer(e)) /\ task[Peer(e)].msg.from = d => task[Peer(e)].msg.id < task[d].msg.id
            /\ \A b \in Clients : Home[b] = e[2] => Before(inbox[b], d, task[d].msg.id)
        BY <3>1, <3>2 DEF Line, Sending
      <4>2. Thins(wire[e], wire'[e])
        BY <1>1
      <4>3. ASSUME Active(Peer(e))', task'[Peer(e)].msg.from = d
            PROVE  task'[Peer(e)].msg.id < task'[d].msg.id
        <5>1. CASE Peer(e) = x
          <6>1. Peer(x) = e /\ x \in End /\ m.from = d
            BY <4>3, <5>1
          <6> QED BY <3>2, <5>1, <6>1
        <5>2. CASE Peer(e) /= x
          BY <1>1, <3>1, <4>1, <4>3, <5>2 DEF GoesOn
        <5> QED BY <5>1, <5>2
      <4> QED BY <3>1, <4>1, <4>2, <4>3 DEF Thins
    <3>3. ASSUME task'[d].step = "clients", NEW b \in todo'[d]
          PROVE  Before(inbox'[b], d, task'[d].msg.id)
      BY <3>1, <3>3 DEF Line, Sending
    <3> QED BY <3>2, <3>3
  <2> QED BY <2>1, <2>2
<1> QED BY <1>4, <1>5, <1>6, <1>7, <1>8 DEF Line

\* There is nothing of a client of another state on a wire.
LEMMA Foreign ==
    ASSUME TypeOK, Origin, NEW e \in End, NEW f \in Clients, Home[f] /= e[1], NEW n
    PROVE  After(wire[e], f, n)
BY DEF Origin, WireOrigin, After

\* A session and what it delivers: from a client of its peer's state, to clients of its own.
LEMMA SessionTask ==
    ASSUME TypeOK, Origin, NEW a \in End, Active(a)
    PROVE  /\ task[a].step = "clients" /\ Home[task[a].msg.from] = a[2]
           /\ \A c \in todo[a] : c \in Clients /\ Home[c] = a[1]
<1>1. task[a].step = "clients" \/ task[a].step = "sessions"
  BY Shape, TypeParts DEF TaskTypes, Active
<1> QED BY <1>1, Shape, GivenToClients DEF Origin, TaskOrigin, Active

LEMMA ClientTask ==
    ASSUME TypeOK, Origin, NEW a \in Clients, Active(a)
    PROVE  /\ task[a].msg.from = a
           /\ task[a].step = "clients" => \A c \in todo[a] : c \in Clients /\ Home[c] = Home[a]
           /\ task[a].step = "sessions" => \A e \in todo[a] : e[1] = Home[a]
BY Shape, GivenToClients DEF Origin, TaskOrigin, Active

LEMMA LineNews ==
    ASSUME TypeOK, Line, UNCHANGED <<task, todo, inbox, posted>>,
           \A e \in End : Thins(wire[e], wire'[e])
    PROVE  Line'
<1>1. \A a \in Actor : GoesOn(a)
  BY DEF GoesOn, Active, Pending
<1>2. \A x : Quiet(x)
  <2>1. posted' \in Seq(Payload) /\ Len(posted) <= Len(posted')
    BY MessageFacts, TypeParts DEF PostTypes
  <2> QED BY <1>1, <2>1 DEF Quiet
<1> QED BY <1>1, <1>2, LineThin

\* The steps that send or read news, or change a link.
LEMMA LineTables ==
    ASSUME TypeOK, Line,
           \/ \E c \in Clients : Accept(c) \/ Leave(c)
           \/ \E c \in Clients, ch \in Channels : Subscribe(c, ch) \/ Unsubscribe(c, ch)
           \/ \E e \in End, m \in Payload \cup News : ReadClient(e, m) \/ ReadSubscription(e, m)
           \/ \E l \in Link : OpenLink(l) \/ CloseLink(l)
           \/ UNCHANGED vars
    PROVE  Line'
<1> USE Shape
<1>0. WireType /\ TableTypes
  BY TypeParts
<1>1. ASSUME NEW m \in News, NEW s \in States, wire' = Forwarded(s, m)
      PROVE  \A e \in End : Thins(wire[e], wire'[e])
  <2>0. m \in Payload \cup News /\ wire \in [End -> Seq(Payload \cup News)]
    BY <1>0 DEF WireType
  <2>1. \A e \in End : \/ Forwarded(s, m)[e] = wire[e]
                      \/ Forwarded(s, m)[e] = Append(wire[e], m)
    BY <2>0, ForwardedFacts
  <2> SUFFICES ASSUME NEW e \in End PROVE Thins(wire[e], wire'[e])
    OBVIOUS
  <2>2. wire[e] \in Seq(Payload \cup News)
    BY <2>0
  <2>3. Thins(wire[e], wire[e]) /\ Thins(wire[e], Append(wire[e], m))
    BY <2>2, ThinsKept, ThinsAppend
  <2> QED BY <1>1, <2>1, <2>3
<1>2. CASE \E c \in Clients : Accept(c) \/ Leave(c)
  <2>1. \E m \in News, s \in States : wire' = Forwarded(s, m)
    BY <1>2, MessageShape DEF Accept, Leave
  <2>2. UNCHANGED <<task, todo, inbox, posted>>
    BY <1>2 DEF Accept, Leave, taskVars
  <2> QED BY <1>1, <2>1, <2>2, LineNews
<1>3. CASE \E c \in Clients, ch \in Channels : Subscribe(c, ch) \/ Unsubscribe(c, ch)
  <2>1. \E m \in News, s \in States : wire' = Forwarded(s, m)
    BY <1>3, MessageShape DEF Subscribe, Unsubscribe
  <2>2. UNCHANGED <<task, todo, inbox, posted>>
    BY <1>3 DEF Subscribe, Unsubscribe, taskVars
  <2> QED BY <1>1, <2>1, <2>2, LineNews
<1>4. CASE \E e \in End, m \in Payload \cup News : ReadClient(e, m) \/ ReadSubscription(e, m)
  <2>1. PICK x \in End, m \in Payload \cup News : ReadClient(x, m) \/ ReadSubscription(x, m)
    BY <1>4
  <2>2. Reads(x, m) /\ UNCHANGED <<task, todo, inbox, posted>>
    BY <2>1 DEF ReadClient, ReadSubscription, taskVars
  <2>3. /\ \A e \in End : e /= Peer(x) => wire'[e] = wire[e]
        /\ wire[Peer(x)] /= <<>> /\ wire'[Peer(x)] = Tail(wire[Peer(x)])
    BY <1>0, <2>2, ReadsFacts
  <2>4. ASSUME NEW e \in End PROVE Thins(wire[e], wire'[e])
    <3>1. wire[e] \in Seq(Payload \cup News)
      BY <1>0 DEF WireType
    <3>2. Thins(wire[e], wire[e]) /\ (wire[e] /= <<>> => Thins(wire[e], Tail(wire[e])))
      BY <3>1, ThinsKept, ThinsTail
    <3> QED BY <2>3, <3>2
  <2> QED BY <2>2, <2>4, LineNews
<1>5. ASSUME NEW l \in Link, OpenLink(l) PROVE Line'
  <2>1. \A e \in End : e /= Peer(l) => wire'[e] = wire[e]
    BY <1>0, <1>5, OpenLinkFacts
  <2>2. \A i \in 1..Len(wire'[Peer(l)]) : wire'[Peer(l)][i] \in News
    BY <1>0, <1>5, OpenLinkFacts
  <2>3. \A e \in End : Thins(wire[e], wire'[e])
    BY <2>1, <2>2, ThinsKept, ThinsNews
  <2>4. UNCHANGED <<task, todo, inbox, posted>>
    BY <1>5 DEF OpenLink, taskVars
  <2> QED BY <2>3, <2>4, LineNews
<1>6. ASSUME NEW l \in Link, CloseLink(l) PROVE Line'
  <2>1. \A e \in End : wire'[e] = wire[e] \/ wire'[e] = <<>>
    BY <1>0, <1>6 DEF CloseLink, WireType
  <2>2. \A e \in End : Thins(wire[e], wire'[e])
    <3>1. \A q : Thins(q, <<>>)
      <4>1. \A q, i : i \in 1..Len(<<>>) => FALSE
        OBVIOUS
      <4> QED BY <4>1, ThinsNews
    <3> QED BY <2>1, <3>1, ThinsKept
  <2>3. UNCHANGED <<task, todo, inbox, posted>>
    BY <1>6 DEF CloseLink
  <2> QED BY <2>2, <2>3, LineNews
<1>7. CASE UNCHANGED vars
  BY <1>7, ThinsKept, LineNews DEF vars
<1> QED BY <1>2, <1>3, <1>4, <1>5, <1>6, <1>7

LEMMA LineAsks ==
    ASSUME TypeOK, Origin, Line, NEW c \in Clients, NEW k, NEW to, Addressed(k, to),
           Asks(c, Message(k, c, to)), Begin(c, Message(k, c, to)), UNCHANGED <<wire, inbox>>
    PROVE  Line'
<1> DEFINE m == Message(k, c, to)
<1> USE Shape
<1>1. /\ m \in Payload /\ posted' \in Seq(Payload) /\ Len(posted') = Len(posted) + 1
      /\ Len(posted) \in Nat
  BY AsksFacts, TypeParts
<1>2. m.from = c /\ m.id = Len(posted) + 1
  BY DEF Message
<1> HIDE DEF m
<1>3. /\ DOMAIN task = Actor /\ DOMAIN todo = Actor
      /\ task' = [task EXCEPT ![c] = [step |-> "clients", msg |-> m]]
      /\ todo' = [todo EXCEPT ![c] = Others(Home[c], c)]
  BY <1>2, TypeParts DEF TaskTypes, Begin, m
<1>4. /\ task'[c].msg = m /\ todo'[c] = Others(Home[c], c)
      /\ \A a \in Actor : a /= c => task'[a] = task[a] /\ todo'[a] = todo[a]
  BY <1>3
<1>5. \A a \in Actor \ {c} : GoesOn(a)
  BY <1>4 DEF GoesOn, Active, Pending
<1>6. Quiet(c)
  BY <1>1, <1>5, ThinsKept DEF Quiet
<1>7. /\ \A e \in End : Before(wire[e], c, m.id)
      /\ \A d \in Clients : Before(inbox[d], c, m.id)
  BY <1>2 DEF Line, Past
<1>8. \A e \in End : Active(e)' => task'[e].msg.id < m.id
  <2> SUFFICES ASSUME NEW e \in End, Active(e)' PROVE task'[e].msg.id < m.id
    OBVIOUS
  <2>1. task'[e] = task[e] /\ Active(e)
    BY <1>4 DEF Active
  <2>2. task[e].msg.id <= Len(posted) /\ task[e].msg.id \in Nat
    BY <2>1, MessageFacts DEF Line, Past
  <2> QED BY <1>1, <1>2, <2>1, <2>2
<1>9. Others(Home[c], c) \subseteq Clients
  BY DEF Others
<1> QED BY <1>1, <1>2, <1>4, <1>6, <1>7, <1>8, <1>9, LineBegin

LEMMA LineSend ==
    ASSUME TypeOK, Origin, Line, NEW c \in Clients, NEW d \in Clients, Send(c, d)
    PROVE  Line'
<1> DEFINE m == Message("send", c, d)
           s == Home[c]
           via == clients[s][d]
<1> USE Shape
<1>1. /\ m \in Payload /\ posted' \in Seq(Payload) /\ Len(posted') = Len(posted) + 1
      /\ Len(posted) \in Nat /\ task[c] = NoTask
  BY AsksFacts, TypeParts DEF Send, Addressed
<1>2. m.from = c /\ m.id = Len(posted) + 1
  BY DEF Message
<1>3. /\ UNCHANGED <<task, todo>>
      /\ inbox' = IF via = s THEN Given(s, d, m) ELSE inbox
      /\ wire' = IF via \in SessionsOf(s) THEN [wire EXCEPT ![via] = Append(@, m)] ELSE wire
  BY DEF Send
<1>4. WireType /\ BoxType
  BY TypeParts
<1> HIDE DEF m
<1>5. \A a \in Actor : GoesOn(a)
  BY <1>3 DEF GoesOn, Active, Pending
<1>6. /\ \A e \in End : Before(wire[e], c, m.id)
      /\ \A b \in Clients : Before(inbox[b], c, m.id)
      /\ \A a \in Actor : Active(a) => task[a].msg.id < m.id
  BY <1>1, <1>2, MessageFacts DEF Line, Past
<1>7. ASSUME UNCHANGED wire PROVE \A x : Quiet(x)
  BY <1>1, <1>5, <1>7, ThinsKept DEF Quiet
<1>8. /\ ~Active(c)' /\ m.from = c /\ Before(inbox[d], m.from, m.id)
      /\ m.id <= Len(posted') /\ Len(posted) <= Len(posted')
  BY <1>1, <1>2, <1>3, <1>6 DEF Active
<1>9. CASE via \in SessionsOf(s)
  <2>1. PICK e \in End : e = via /\ e[1] = s
    BY <1>9 DEF SessionsOf
  <2>2. UNCHANGED inbox
    BY <1>3, <2>1
  <2>3. /\ wire'[e] = Append(wire[e], m)
        /\ \A f \in End : f /= e => wire'[f] = wire[f]
    BY <1>3, <1>4, <1>9, <2>1 DEF WireType
  <2>4. Active(Peer(e))' => task'[Peer(e)].msg.id < m.id
    BY <1>3, <1>6 DEF Active
  <2>5. Before(wire[e], m.from, m.id) /\ \A b \in Clients : Before(inbox[b], m.from, m.id)
    BY <1>6, <1>8
  <2> QED BY <1>1, <1>5, <1>8, <2>2, <2>3, <2>4, <2>5, LineWire
<1>10. CASE via \notin SessionsOf(s) /\ (via /= s \/ Given(s, d, m) = inbox)
  <2>1. UNCHANGED <<wire, inbox>>
    BY <1>3, <1>10
  <2> QED BY <1>5, <1>7, <2>1, LineThin
<1>11. CASE via = s /\ Given(s, d, m) /= inbox
  <2>1. Home[d] = s /\ inbox' = [inbox EXCEPT ![d] = Append(@, m)]
    BY <1>3, <1>11 DEF Given
  <2>2. UNCHANGED wire
    BY <1>3, <1>11 DEF SessionsOf
  <2>3. /\ inbox'[d] = Append(inbox[d], m)
        /\ \A b \in Clients : b /= d => inbox'[b] = inbox[b]
    BY <1>4, <2>1 DEF BoxType
  <2>4. ASSUME NEW a \in End
        PROVE  /\ Active(a)' /\ d \in todo'[a] /\ task'[a].msg.from = m.from => m.id < task'[a].msg.id
               /\ Home[d] = a[1] => After(wire'[Peer(a)], m.from, m.id)
    <3>1. Active(a) /\ d \in todo[a] /\ task[a].msg.from = c => FALSE
      BY <2>1, SessionTask
    <3>2. Home[d] = a[1] => After(wire[Peer(a)], c, m.id)
      BY <2>1, Foreign
    <3> QED BY <1>2, <1>3, <2>2, <3>1, <3>2 DEF Active
  <2>5. Quiet(None)
    BY <1>7, <2>2
  <2>6. None \in Actor => GoesOn(None)
    BY <1>5
  <2> QED BY <1>1, <1>8, <2>3, <2>4, <2>5, <2>6, LineInbox
<1> QED BY <1>9, <1>10, <1>11 DEF SessionsOf

LEMMA LineGiveClient ==
    ASSUME TypeOK, Origin, Line, NEW a \in Actor, NEW c \in Clients, GiveClient(a, c)
    PROVE  Line'
<1> USE Shape
<1>0. BoxType /\ TaskTypes /\ PostTypes
  BY TypeParts
<1>1. /\ task[a].step = "clients" /\ c \in todo[a] /\ Active(a)
      /\ inbox' = Given(StateOf(a), c, task[a].msg)
      /\ UNCHANGED <<wire, task, posted>>
      /\ todo' = [todo EXCEPT ![a] = @ \ {c}]
  BY MessageShape DEF GiveClient, Active
<1>2. PICK m \in Payload, f \in Clients :
         m = task[a].msg /\ f = m.from /\ m.id <= Len(posted) /\ m.id \in Nat
  BY <1>1, MessageFacts DEF Line, Past
<1>3. /\ \A b \in Actor : todo'[b] \subseteq todo[b]
      /\ c \notin todo'[a]
  BY <1>0, <1>1 DEF TaskTypes
<1>4. \A b \in Actor : GoesOn(b)
  BY <1>1, <1>3 DEF GoesOn, Active, Pending
<1>5. Quiet(None)
  BY <1>0, <1>1, <1>4, ThinsKept DEF Quiet, PostTypes
<1>6. CASE inbox' = inbox
  BY <1>4, <1>5, <1>6, LineThin
<1>7. CASE inbox' /= inbox
  <2>1. Home[c] = StateOf(a) /\ inbox' = [inbox EXCEPT ![c] = Append(@, m)]
    BY <1>1, <1>2, <1>7 DEF Given
  <2>2. /\ inbox'[c] = Append(inbox[c], m)
        /\ \A b \in Clients : b /= c => inbox'[b] = inbox[b]
    BY <1>0, <2>1 DEF BoxType
  <2>3. Before(inbox[c], f, m.id)
    BY <1>1, <1>2, ClientTask DEF Line, Sending, Delivering
  \* Nobody else gives c a message of f; none is on a wire to c's state but behind m.
  <2>4. ASSUME NEW b \in End
        PROVE  /\ Active(b)' /\ c \in todo'[b] => task'[b].msg.from /= f
               /\ Home[c] = b[1] => After(wire'[Peer(b)], f, m.id)
    <3>1. CASE a \in Clients
      <4>1. f = a /\ Home[c] = Home[f]
        BY <1>1, <1>2, <2>1, <3>1, ClientTask
      <4>2. Active(b) /\ c \in todo[b] => task[b].msg.from /= f
        BY <4>1, SessionTask
      <4>3. Home[c] = b[1] => After(wire[Peer(b)], f, m.id)
        <5>1. Home[c] = b[1] => Peer(b) \in End /\ Home[f] /= Peer(b)[1]
          BY <4>1
        <5> QED BY <5>1, Foreign
      <4> QED BY <1>1, <1>3, <4>2, <4>3 DEF Active
    <3>2. CASE a \in End
      <4>1. Home[f] = a[2] /\ Home[c] = a[1]
        BY <1>1, <1>2, <3>2, SessionTask
      <4>2. ASSUME Active(b), c \in todo[b], task[b].msg.from = f PROVE b = a
        <5>1. b[1] = a[1] /\ b[2] = a[2]
          BY <4>1, <4>2, SessionTask
        <5> QED BY <3>2, <5>1
      <4>3. ASSUME Home[c] = b[1] PROVE After(wire[Peer(b)], f, m.id)
        <5>1. CASE b[2] = a[2]
          <6>1. b[1] = a[1]
            BY <4>1, <4>3
          <6>2. b = a
            BY <3>2, <5>1, <6>1
          <6> QED BY <1>1, <1>2, <3>2, <6>2 DEF Line, Delivering
        <5>2. CASE b[2] /= a[2]
          <6>1. Peer(b) \in End /\ Home[f] /= Peer(b)[1]
            BY <4>1, <5>2
          <6> QED BY <6>1, Foreign
        <5> QED BY <5>1, <5>2
      <4> QED BY <1>1, <1>3, <4>2, <4>3 DEF Active
    <3> QED BY <3>1, <3>2
  <2>5. ASSUME Active(f)'
        PROVE  /\ \A e \in End : Pending(f, e)' /\ Home[c] = e[2] => m.id < task'[f].msg.id
               /\ task'[f].step = "clients" => c \notin todo'[f]
    <3>1. Active(f) /\ task'[f] = task[f]
      BY <1>1, <2>5 DEF Active
    <3>2. CASE a \in Clients
      <4>1. f = a /\ Home[c] = Home[f]
        BY <1>1, <1>2, <2>1, <3>2, ClientTask
      <4>2. \A e \in End : Pending(f, e)' => Home[c] /= e[2]
        BY <4>1 DEF Pending
      <4> QED BY <1>3, <4>1, <4>2
    <3>3. CASE a \in End
      <4>1. Home[f] = a[2] /\ Home[c] = a[1] /\ a[1] /= a[2]
        BY <1>1, <1>2, <3>3, SessionTask
      <4>2. ASSUME NEW e \in End, Pending(f, e)', Home[c] = e[2] PROVE m.id < task'[f].msg.id
        <5>1. Pending(f, e)
          BY <1>2, <1>4, <2>5, <4>2 DEF GoesOn
        <5>2. Peer(e) = a
          <6>1. Peer(e)[1] = a[1] /\ Peer(e)[2] = a[2] /\ Peer(e) \in End
            BY <4>1, <4>2, <5>1 DEF Pending
          <6> QED BY <3>3, <6>1
        <5> QED BY <1>1, <1>2, <3>1, <5>1, <5>2 DEF Line, Sending
      <4>3. task'[f].step = "clients" => c \notin todo'[f]
        BY <1>2, <1>3, <3>1, <4>1, ClientTask
      <4> QED BY <4>2, <4>3
    <3> QED BY <3>2, <3>3
  <2>6. None \in Actor => GoesOn(None)
    BY <1>4
  <2>7. m.id <= Len(posted')
    BY <1>1, <1>2
  <2>8. /\ \A b \in End : /\ Active(b)' /\ c \in todo'[b] /\ task'[b].msg.from = m.from
                                 => m.id < task'[b].msg.id
                          /\ Home[c] = b[1] => After(wire'[Peer(b)], m.from, m.id)
        /\ Active(m.from)' =>
              /\ \A e \in End : Pending(m.from, e)' /\ Home[c] = e[2] => m.id < task'[m.from].msg.id
              /\ task'[m.from].step = "clients" /\ c \in todo'[m.from] => m.id < task'[m.from].msg.id
    BY <1>2, <2>4, <2>5
  <2>9. m \in Payload /\ Before(inbox[c], m.from, m.id)
    BY <1>2, <2>3
  <2> HIDE Shape
  <2> QED BY <1>5, <2>2, <2>6, <2>7, <2>8, <2>9, LineInbox
<1> QED BY <1>6, <1>7

LEMMA LineGiveSession ==
    ASSUME TypeOK, Origin, Line, NEW a \in Actor, NEW e \in End, GiveSession(a, e)
    PROVE  Line'
<1> USE Shape
<1>0. WireType /\ TaskTypes /\ PostTypes
  BY TypeParts
<1>1. /\ task[a].step = "sessions" /\ e \in todo[a] /\ Active(a)
      /\ wire' = IF Opened(e) THEN [wire EXCEPT ![e] = Append(@, task[a].msg)] ELSE wire
      /\ UNCHANGED <<task, inbox, posted>>
      /\ todo' = [todo EXCEPT ![a] = @ \ {e}]
  BY MessageShape DEF GiveSession, Active
<1>2. PICK m \in Payload, f \in Clients :
         m = task[a].msg /\ f = m.from /\ m.id <= Len(posted) /\ m.id \in Nat
  BY <1>1, MessageFacts DEF Line, Past
<1>3. a \in Clients /\ f = a /\ e[1] = Home[a]
  BY <1>1, <1>2 DEF Origin, TaskOrigin, Active
<1>4. /\ \A b \in Actor : todo'[b] \subseteq todo[b]
      /\ e \notin todo'[a]
  BY <1>0, <1>1 DEF TaskTypes
<1>5. \A b \in Actor : GoesOn(b)
  BY <1>1, <1>4 DEF GoesOn, Active, Pending
<1>6. CASE wire' = wire
  <2>1. Quiet(None)
    BY <1>0, <1>1, <1>5, <1>6, ThinsKept DEF Quiet, PostTypes
  <2> QED BY <1>1, <1>5, <2>1, LineThin
<1>7. CASE wire' /= wire
  <2>1. /\ wire'[e] = Append(wire[e], m)
        /\ \A b \in End : b /= e => wire'[b] = wire[b]
    BY <1>0, <1>1, <1>2, <1>7 DEF WireType
  <2>2. Pending(a, e)
    BY <1>1, <1>3 DEF Pending
  <2>3. /\ Before(wire[e], a, m.id)
        /\ Active(Peer(e)) /\ task[Peer(e)].msg.from = a => task[Peer(e)].msg.id < m.id
        /\ \A c \in Clients : Home[c] = e[2] => Before(inbox[c], a, m.id)
    BY <1>1, <1>2, <1>3, <2>2 DEF Line, Sending
  <2>4. ~Pending(a, e)'
    BY <1>1, <1>4 DEF Pending
  <2>5. /\ m.from = a /\ Before(wire[e], m.from, m.id)
        /\ Active(Peer(e))' /\ task'[Peer(e)].msg.from = m.from => task'[Peer(e)].msg.id < m.id
        /\ \A c \in Clients : Home[c] = e[2] => Before(inbox[c], m.from, m.id)
    BY <1>1, <1>2, <1>3, <2>3 DEF Active
  <2>6. /\ posted' \in Seq(Payload) /\ Len(posted) <= Len(posted') /\ m.id <= Len(posted')
    BY <1>0, <1>1, <1>2 DEF PostTypes
  <2>7. Active(m.from)' /\ Pending(m.from, e)' => m.id < task'[m.from].msg.id
    BY <2>4, <2>5
  <2> QED BY <1>1, <1>5, <2>1, <2>5, <2>6, <2>7, LineWire
<1> QED BY <1>6, <1>7

\* The sender goes on to the sessions, or a task ends.
LEMMA LineGoesOn ==
    ASSUME TypeOK, Origin, Line, NEW a \in Actor, GetSessions(a) \/ Finish(a)
    PROVE  Line'
<1> USE Shape
<1>0. WireType /\ TaskTypes /\ PostTypes
  BY TypeParts
<1>1. UNCHANGED <<wire, inbox, posted>>
  BY DEF GetSessions, Finish
<1>2. ASSUME \A b \in Actor : GoesOn(b) PROVE Line'
  <2>1. Quiet(None)
    BY <1>0, <1>1, <1>2, ThinsKept DEF Quiet, PostTypes
  <2> QED BY <1>1, <1>2, <2>1, LineThin
<1>3. CASE GetSessions(a)
  <2>1. /\ a \in Clients /\ task[a].step = "clients" /\ Active(a)
        /\ task[a] \in [step : {"clients", "sessions"}, msg : Payload]
        /\ task' = [task EXCEPT ![a] = [@ EXCEPT !.step = "sessions"]]
    BY <1>0, <1>3, MessageShape DEF GetSessions, TaskTypes, PassesOn, Active
  <2>2. PICK T \in SUBSET SessionsOf(StateOf(a)) : todo' = [todo EXCEPT ![a] = T]
    BY <1>3 DEF GetSessions, Receivers
  <2>3. \A b \in Actor : b /= a => task'[b] = task[b] /\ todo'[b] = todo[b]
    BY <1>0, <2>1, <2>2 DEF TaskTypes
  <2>4. task'[a].step = "sessions" /\ task'[a].msg = task[a].msg
    BY <1>0, <2>1 DEF TaskTypes
  <2>5. \A b \in Actor : b /= a => GoesOn(b)
    BY <2>3 DEF GoesOn, Active, Pending
  <2>6. GoesOn(a)
    BY <2>1, <2>4 DEF GoesOn, Pending
  <2> QED BY <1>2, <2>5, <2>6
<1>4. CASE Finish(a)
  <2>1. /\ ~Active(a)' /\ UNCHANGED todo
        /\ \A b \in Actor : b /= a => task'[b] = task[b]
    BY <1>0, <1>4 DEF Finish, TaskTypes, Active
  <2>2. \A b \in Actor : GoesOn(b)
    BY <2>1 DEF GoesOn, Active, Pending
  <2> QED BY <1>2, <2>2
<1> QED BY <1>3, <1>4

\* What a session reads is younger than what the clients of its state have, older
\* than what is still to be read and than what its client has still to send there.
LEMMA HeadFacts ==
    ASSUME TypeOK, Origin, Line, NEW e \in End, NEW m \in Payload, Reads(e, m)
    PROVE  /\ Home[m.from] = e[2] /\ m.id <= Len(posted)
           /\ \A d \in End : Thins(wire[d], wire'[d]) /\ (d /= Peer(e) => wire'[d] = wire[d])
           /\ After(wire'[Peer(e)], m.from, m.id)
           /\ \A c \in Clients : Home[c] = e[1] => Before(inbox[c], m.from, m.id)
           /\ Active(m.from) /\ Pending(m.from, Peer(e)) => m.id < task[m.from].msg.id
           /\ ~Active(e)
<1> USE Shape
<1>0. WireType
  BY TypeParts
<1>1. /\ wire[Peer(e)] /= <<>> /\ m = Head(wire[Peer(e)]) /\ m = wire[Peer(e)][1]
      /\ Len(wire[Peer(e)]) \in Nat \ {0}
      /\ wire'[Peer(e)] = Tail(wire[Peer(e)])
      /\ \A d \in End : d /= Peer(e) => wire'[d] = wire[d]
      /\ task[e] = NoTask
  BY <1>0, ReadsFacts
<1>2. /\ wire[Peer(e)] \in Seq(Payload \cup News) /\ Sorted(wire[Peer(e)])
      /\ 1 \in 1..Len(wire[Peer(e)])
  BY <1>0, <1>1 DEF WireType, Line, Queues
<1>3. m.from \in Clients /\ m.id \in Nat /\ IsPayload(m) /\ Len(posted) \in Nat
  BY MessageShape, MessageFacts
<1>4. Home[m.from] = e[2]
  BY <1>1, <1>2 DEF Origin, WireOrigin
<1>5. m.id <= Len(posted)
  <2>1. m.id < Len(posted) + 1
    BY <1>1, <1>2, <1>3 DEF Line, Past, Before
  <2> QED BY <1>3, <2>1
<1>6. \A d \in End : Thins(wire[d], wire'[d])
  <2>1. Thins(wire[Peer(e)], wire'[Peer(e)])
    BY <1>1, <1>2, ThinsTail
  <2> QED BY <1>1, <2>1, ThinsKept
<1>7. After(wire'[Peer(e)], m.from, m.id)
  BY <1>1, <1>2, <1>3, ThinsTail
<1>8. ASSUME NEW c \in Clients, Home[c] = e[1] PROVE Before(inbox[c], m.from, m.id)
  <2> SUFFICES ASSUME NEW j \in 1..Len(inbox[c]), inbox[c][j].from = m.from
               PROVE  inbox[c][j].id < m.id
    BY DEF Before
  <2>1. After(wire[Peer(e)], inbox[c][j].from, inbox[c][j].id)
    BY <1>8 DEF Line, Received
  <2> QED BY <1>1, <1>2, <1>3, <2>1 DEF After
<1>9. ASSUME Active(m.from), Pending(m.from, Peer(e)) PROVE m.id < task[m.from].msg.id
  <2>1. Before(wire[Peer(e)], m.from, task[m.from].msg.id)
    BY <1>3, <1>9 DEF Line, Sending
  <2> QED BY <1>1, <1>2, <2>1 DEF Before
<1> QED BY <1>1, <1>4, <1>5, <1>6, <1>7, <1>8, <1>9 DEF Active

LEMMA LineReadPayload ==
    ASSUME TypeOK, Origin, Line, NEW e \in End, NEW m, ReadPayload(e, m)
    PROVE  Line'
<1> USE Shape
<1>0. TaskTypes /\ PostTypes /\ WireType
  BY TypeParts
<1>1. /\ Reads(e, m) /\ Begin(e, m) /\ UNCHANGED <<inbox, posted>>
      /\ m \in Payload
  BY <1>0, ReadsFacts, MessageShape DEF ReadPayload
<1>2. /\ Home[m.from] = e[2] /\ m.id <= Len(posted)
      /\ \A d \in End : Thins(wire[d], wire'[d])
      /\ After(wire'[Peer(e)], m.from, m.id)
      /\ \A c \in Clients : Home[c] = e[1] => Before(inbox[c], m.from, m.id)
      /\ Active(m.from) /\ Pending(m.from, Peer(e)) => m.id < task[m.from].msg.id
  BY <1>1, HeadFacts
<1>3. /\ task'[e].msg = m /\ todo'[e] = Others(e[1], m.from)
      /\ \A a \in Actor : a /= e => task'[a] = task[a] /\ todo'[a] = todo[a]
  BY <1>0, <1>1 DEF Begin, TaskTypes
<1>4. \A a \in Actor \ {e} : GoesOn(a)
  BY <1>3 DEF GoesOn, Active, Pending
<1>5. Quiet(e)
  BY <1>0, <1>1, <1>2, <1>4 DEF Quiet, PostTypes
<1>6. \A c \in todo'[e] : c \in Clients /\ Before(inbox[c], m.from, m.id)
  <2>1. \A c \in Others(e[1], m.from) : c \in Clients /\ Home[c] = e[1]
    BY DEF Others, Origin, RowsOrigin
  <2> QED BY <1>2, <1>3, <2>1
<1>7. PICK f \in Clients : f = m.from
  BY <1>1, MessageShape
<1>8. Active(f)' /\ Pending(f, Peer(e))' => m.id < task'[f].msg.id
  BY <1>2, <1>3, <1>7 DEF Active, Pending
<1>9. m.id <= Len(posted') /\ e \notin Clients
  BY <1>1, <1>2
<1> HIDE Shape
<1> QED BY <1>1, <1>2, <1>3, <1>5, <1>6, <1>7, <1>8, <1>9, Shape, LineBegin

LEMMA LineReadSend ==
    ASSUME TypeOK, Origin, Line, NEW e \in End, NEW m, ReadSend(e, m)
    PROVE  Line'
<1> USE Shape
<1>0. PostTypes /\ WireType /\ BoxType
  BY TypeParts
<1>1. PICK c \in Clients :
         /\ Reads(e, m) /\ UNCHANGED <<task, todo, posted>> /\ m \in Payload /\ c = m.to
         /\ inbox' = inbox \/ inbox' = Given(e[1], c, m)
  <2>1. Reads(e, m) /\ UNCHANGED <<task, todo, posted>> /\ m \in Payload /\ m.kind = "send"
    BY <1>0, ReadsFacts, MessageShape DEF ReadSend
  <2> QED BY <2>1, MessageShape DEF ReadSend
<1>2. /\ Home[m.from] = e[2] /\ m.id <= Len(posted) /\ ~Active(e)
      /\ \A d \in End : Thins(wire[d], wire'[d]) /\ (d /= Peer(e) => wire'[d] = wire[d])
      /\ After(wire'[Peer(e)], m.from, m.id)
      /\ \A b \in Clients : Home[b] = e[1] => Before(inbox[b], m.from, m.id)
      /\ Active(m.from) /\ Pending(m.from, Peer(e)) => m.id < task[m.from].msg.id
  BY <1>1, HeadFacts
<1>3. \A a \in Actor : GoesOn(a)
  BY <1>1 DEF GoesOn, Active, Pending
<1>4. Quiet(None)
  BY <1>0, <1>1, <1>2, <1>3 DEF Quiet, PostTypes
<1>5. CASE inbox' = inbox
  BY <1>3, <1>4, <1>5, LineThin
<1>6. CASE inbox' /= inbox
  <2>1. Home[c] = e[1] /\ inbox' = [inbox EXCEPT ![c] = Append(@, m)]
    BY <1>1, <1>6 DEF Given
  <2>2. /\ inbox'[c] = Append(inbox[c], m)
        /\ \A b \in Clients : b /= c => inbox'[b] = inbox[b]
    BY <1>0, <2>1 DEF BoxType
  <2>3. PICK f \in Clients : f = m.from
    BY <1>1, MessageShape
  <2>4. ASSUME NEW b \in End
        PROVE  /\ Active(b)' /\ c \in todo'[b] => task'[b].msg.from /= f
               /\ Home[c] = b[1] => After(wire'[Peer(b)], f, m.id)
    <3>1. ASSUME Active(b), c \in todo[b], task[b].msg.from = f PROVE FALSE
      <4>1. b[1] = e[1] /\ b[2] = e[2]
        BY <1>2, <2>1, <2>3, <3>1, SessionTask
      <4>2. b = e
        BY <4>1
      <4> QED BY <1>2, <3>1, <4>2
    <3>2. ASSUME Home[c] = b[1] PROVE After(wire'[Peer(b)], f, m.id)
      <4>1. CASE b[2] = e[2]
        <5>1. b[1] = e[1]
          BY <2>1, <3>2
        <5>2. b = e
          BY <4>1, <5>1
        <5> QED BY <1>2, <2>3, <5>2
      <4>2. CASE b[2] /= e[2]
        <5>1. Peer(b) \in End /\ Home[f] /= Peer(b)[1] /\ Peer(b) /= Peer(e)
          BY <1>2, <2>3, <4>2
        <5>2. After(wire[Peer(b)], f, m.id)
          BY <5>1, Foreign
        <5> QED BY <1>2, <5>1, <5>2
      <4> QED BY <4>1, <4>2
    <3> QED BY <1>1, <3>1, <3>2 DEF Active
  <2>5. ASSUME Active(f)'
        PROVE  /\ \A x \in End : Pending(f, x)' /\ Home[c] = x[2] => m.id < task'[f].msg.id
               /\ task'[f].step = "clients" => c \notin todo'[f]
    <3>1. Active(f) /\ task'[f] = task[f] /\ todo'[f] = todo[f]
      BY <1>1, <2>5 DEF Active
    <3>2. ASSUME NEW x \in End, Pending(f, x)', Home[c] = x[2] PROVE m.id < task'[f].msg.id
      <4>1. Pending(f, x)
        BY <1>1, <3>2 DEF Pending
      <4>2. Peer(x)[1] = e[1] /\ Peer(x)[2] = e[2] /\ Peer(x) \in End
        BY <1>2, <2>1, <2>3, <3>2, <4>1 DEF Pending
      <4>3. Peer(x) = e
        BY <4>2
      <4>4. x = Peer(e)
        BY <4>3
      <4> QED BY <1>2, <2>3, <3>1, <4>1, <4>4
    <3>3. task'[f].step = "clients" => c \notin todo'[f]
      <4>1. Home[c] /= Home[f]
        BY <1>2, <2>1, <2>3
      <4> QED BY <3>1, <4>1, ClientTask
    <3> QED BY <3>2, <3>3
  <2>6. None \in Actor => GoesOn(None)
    BY <1>3
  <2>7. m \in Payload /\ m.id <= Len(posted') /\ Before(inbox[c], m.from, m.id)
    BY <1>1, <1>2, <2>1
  <2>8. /\ \A b \in End : /\ Active(b)' /\ c \in todo'[b] /\ task'[b].msg.from = m.from
                                 => m.id < task'[b].msg.id
                          /\ Home[c] = b[1] => After(wire'[Peer(b)], m.from, m.id)
        /\ Active(m.from)' =>
              /\ \A x \in End : Pending(m.from, x)' /\ Home[c] = x[2] => m.id < task'[m.from].msg.id
              /\ task'[m.from].step = "clients" /\ c \in todo'[m.from] => m.id < task'[m.from].msg.id
    BY <2>3, <2>4, <2>5
  <2> HIDE Shape
  <2> QED BY <1>4, <2>2, <2>6, <2>7, <2>8, LineInbox
<1> QED BY <1>5, <1>6

LEMMA LineInit == Init => Line
<1> SUFFICES ASSUME Init PROVE Line
  OBVIOUS
<1>1. /\ \A e \in End : wire[e] = <<>>
      /\ \A c \in Clients : inbox[c] = <<>>
      /\ \A a \in Actor : ~Active(a)
      /\ \A i : i \in 1..Len(<<>>) => FALSE
  BY DEF Init, Active
<1>2. Past /\ Queues
  BY <1>1 DEF Past, Queues, Before, Sorted
<1>3. Delivering /\ Received /\ Sending
  BY <1>1, Shape DEF Delivering, Received, Sending
<1> QED BY <1>2, <1>3 DEF Line

LEMMA LineStep == TypeOK /\ Origin /\ Line /\ [Next]_vars => Line'
<1> SUFFICES ASSUME TypeOK, Origin, Line, [Next]_vars PROVE Line'
  OBVIOUS
<1>1. ASSUME NEW c \in Clients, Client(c) PROVE Line'
  <2>1. CASE Accept(c) \/ Leave(c)
    BY <2>1, LineTables
  <2>2. ASSUME NEW ch \in Channels, Subscribe(c, ch) \/ Unsubscribe(c, ch) PROVE Line'
    BY <2>2, LineTables
  <2>3. CASE Broadcast(c)
    <3>1. /\ Addressed("broadcast", None)
          /\ Asks(c, Message("broadcast", c, None)) /\ Begin(c, Message("broadcast", c, None))
          /\ UNCHANGED <<wire, inbox>>
      BY <2>3 DEF Broadcast, Addressed
    <3> QED BY <3>1, LineAsks
  <2>4. ASSUME NEW ch \in Channels, Publish(c, ch) PROVE Line'
    <3>1. /\ Addressed("publish", ch)
          /\ Asks(c, Message("publish", c, ch)) /\ Begin(c, Message("publish", c, ch))
          /\ UNCHANGED <<wire, inbox>>
      BY <2>4 DEF Publish, Addressed
    <3> QED BY <3>1, LineAsks
  <2>5. ASSUME NEW d \in Clients, Send(c, d) PROVE Line'
    BY <2>5, LineSend
  <2> QED BY <1>1, <2>1, <2>2, <2>3, <2>4, <2>5 DEF Client
<1>2. ASSUME NEW a \in Actor, Task(a) PROVE Line'
  BY <1>2, LineGiveClient, LineGiveSession, LineGoesOn DEF Task
<1>3. ASSUME NEW e \in End, Read(e) PROVE Line'
  <2>1. PICK m \in OnWire(Peer(e)) :
           ReadClient(e, m) \/ ReadSubscription(e, m) \/ ReadPayload(e, m) \/ ReadSend(e, m)
    BY <1>3 DEF Read
  <2>2. m \in Payload \cup News
    BY <2>1, TypeParts, ReadsFacts DEF ReadClient, ReadSubscription, ReadPayload, ReadSend
  <2>3. CASE ReadClient(e, m) \/ ReadSubscription(e, m)
    BY <2>2, <2>3, LineTables
  <2> QED BY <2>1, <2>3, LineReadPayload, LineReadSend
<1>4. ASSUME NEW l \in Link, OpenLink(l) \/ CloseLink(l) PROVE Line'
  BY <1>4, LineTables
<1>5. CASE UNCHANGED vars
  BY <1>5, LineTables
<1> QED BY <1>1, <1>2, <1>3, <1>4, <1>5 DEF Next

(* A client gets what another one sends in the order in which it was sent,  *)
(* although a task gives a message to its clients one by one, its sessions  *)
(* are given it after that, and each of these has a strand of its own: on   *)
(* every stretch of the way nothing younger is ahead of anything older.     *)
THEOREM DeliveredInOrder == Spec => []InOrder
<1>1. TypeOK /\ Line => InOrder
  <2> SUFFICES ASSUME TypeOK, Line, NEW c \in Clients,
                      NEW i \in 1..Len(inbox[c]), NEW j \in 1..Len(inbox[c]),
                      i < j, inbox[c][i].from = inbox[c][j].from
               PROVE  inbox[c][i].id < inbox[c][j].id
    BY DEF InOrder
  <2>1. IsPayload(inbox[c][i]) /\ IsPayload(inbox[c][j])
    BY MessageFacts
  <2> QED BY <2>1 DEF Line, Queues, Sorted
<1>2. Init => Line
  BY LineInit
<1>3. TypeOK /\ Origin /\ Line /\ [Next]_vars => Line'
  BY LineStep
<1> QED BY <1>1, <1>2, <1>3, OriginHolds, PTL DEF Spec
=============================================================================
