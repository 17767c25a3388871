-------------------------- MODULE ReplicationKnown --------------------------
(***************************************************************************)
(* What the tables of Replication promise beyond ReplicationSafety, for    *)
(* any states, links, clients and channels: there are no ghosts among the  *)
(* subscriptions, and whoever is connected or subscribed is known, or      *)
(* going to be known, behind every link that has been synced.              *)
(*                                                                         *)
(* The three follow the same argument.  A row or a message about a         *)
(* subscription comes from the state of the client (SubscriptionOrigin), a *)
(* leave is sent by a client that does not come back (LeftForGood), and    *)
(* what sync has read but not sent yet is in left (Announced).             *)
(***************************************************************************)
EXTENDS ReplicationSafety

-----------------------------------------------------------------------------
(* The invariant.                                                          *)

\* A row of a subscription: of a client of this state, or that of a session
\* whose peer belongs to the client's state and has been open and listed.
SubRowOf(s, c, ch) ==
    /\ \A h \in States : <<h, c, ch>> \in subscriptions[s] => h = s /\ Home[c] = s
    /\ \A e \in Session : <<e, c, ch>> \in subscriptions[s] =>
          /\ owner[peer[e]] = Home[c]
          /\ ~Unopened(peer[e])
          /\ peer[e] \notin adding

\* p sends of subscriptions of the clients of its own state only.
SubWireOf(p, c, ch) ==
    \A i \in 1..Len(wire[p]) :
        wire[p][i] \in {SubscribeOf(c, ch), UnsubscribeOf(c, ch)} =>
            Home[c] = owner[p] /\ p \notin adding

\* sync sends of subscriptions that are there, and of nothing else.
SubLeftOf(e, c, ch) ==
    /\ UnsubscribeOf(c, ch) \notin left[e]
    /\ SubscribeOf(c, ch) \in left[e] =>
          sync[e] = "subscriptions" /\ Home[c] = owner[e] /\ Subscribed(c, ch)

\* The thread of c passes on what is so.
SubJobOf(c, ch) ==
    turn[c] \in {"changed", "sending"} =>
        /\ job[c] = SubscribeOf(c, ch) => Subscribed(c, ch)
        /\ job[c] = UnsubscribeOf(c, ch) => ~Subscribed(c, ch)

SubscriptionOrigin ==
    \A c \in Clients, ch \in Channels :
        /\ \A s \in States : SubRowOf(s, c, ch)
        /\ \A p \in Session : SubWireOf(p, c, ch) /\ SubLeftOf(p, c, ch)
        /\ SubJobOf(c, ch)

\* The thread of c is past on_read with an error: c does not come back.
HasLeft(c) ==
    \/ turn[c] = "gone"
    \/ turn[c] \in {"changed", "sending"} /\ job[c] = LeaveOf(c)

\* Whoever has left is not connected, and only those are reported as gone.
LeftForGood ==
    \A c \in Clients :
        /\ HasLeft(c) => ~Connected(c)
        /\ \A p \in Session : \A i \in 1..Len(wire[p]) :
              wire[p][i] = LeaveOf(c) => HasLeft(c)

\* Nothing is known of a client that has not connected yet.
NotBefore ==
    \A c \in Clients : turn[c] = "out" =>
        /\ ~Connected(c)
        /\ \A p \in Session : \A i \in 1..Len(wire[p]) : wire[p][i] /= JoinOf(c)

\* A session that is registered has been listed and open.
WasListed == \A p \in registered : ~Unopened(p) /\ p \notin adding

\* A client that is connected is known behind a registered link, is on its
\* way there, or is among those sync has still to send.
AnnouncedClient(p, c) ==
    LinkUp(p) /\ p \in registered /\ SoleLink(p) /\ Home[c] = owner[p] /\ Connected(c) =>
        \/ WillList(p, c)
        \/ WillSend(p, c, JoinOf(c))
        \/ JoinOf(c) \in left[p]

\* The same for a subscription, once sync has read the table of those.
AnnouncedSubscription(p, c, ch) ==
    LinkUp(p) /\ p \in registered /\ sync[p] \in {"idle", "subscriptions"} /\
        Home[c] = owner[p] /\ Subscribed(c, ch) =>
        \/ WillHold(p, c, ch)
        \/ WillSend(p, c, SubscribeOf(c, ch))
        \/ SubscribeOf(c, ch) \in left[p]

Announced ==
    \A p \in Session, c \in Clients :
        /\ AnnouncedClient(p, c)
        /\ \A ch \in Channels : AnnouncedSubscription(p, c, ch)

KnownInv ==
    /\ IInv
    /\ SubscriptionOrigin
    /\ NoGhostSubscription
    /\ LeftForGood
    /\ NotBefore
    /\ WasListed
    /\ Announced

-----------------------------------------------------------------------------
(* Where the rows of subscriptions come from and where they go.            *)

\* A row that is there after a step was there before, or is that of a client
\* that subscribes here, or has just been read off the wire of its session.
LEMMA SubRowFrom ==
    ASSUME TypeOK, [Next]_vars, NEW s \in States, NEW h, NEW c \in Clients,
           NEW ch \in Channels, <<h, c, ch>> \in subscriptions'[s]
    PROVE  \/ <<h, c, ch>> \in subscriptions[s]
           \/ Subscribe(c, ch) /\ h = s /\ Home[c] = s
           \/ h \in Session /\ ReadSubscribe(h, c, ch) /\ owner[h] = s
<1> DEFINE Goal == \/ <<h, c, ch>> \in subscriptions[s]
                   \/ Subscribe(c, ch) /\ h = s /\ Home[c] = s
                   \/ h \in Session /\ ReadSubscribe(h, c, ch) /\ owner[h] = s
<1> USE DEF linkVars, tableVars, syncVars, clientVars
<1>t. subscriptions \in [States -> SUBSET (Holder \X Clients \X Channels)]
  BY DEF TypeOK
<1>1. CASE UNCHANGED subscriptions
  BY <1>1
<1>2. ASSUME NEW d \in Clients, NEW g \in Channels, Subscribe(d, g) PROVE Goal
  <2>1. Home[d] \in States
    BY OwnerPeerType
  <2>2. subscriptions' = [subscriptions EXCEPT ![Home[d]] =
                             subscriptions[Home[d]] \cup {<<Home[d], d, g>>}]
    BY <1>2 DEF Subscribe, AddSubscription
  <2> QED BY <1>t, <1>2, <2>1, <2>2
<1>3. ASSUME NEW d \in Clients, NEW g \in Channels, Unsubscribe(d, g) PROVE Goal
  BY <1>t, <1>3 DEF Unsubscribe, RemoveSubscription
<1>4. ASSUME NEW e \in Session, PurgeSubscriptions(e) PROVE Goal
  BY <1>t, <1>4 DEF PurgeSubscriptions
<1>5. ASSUME NEW e \in Session, NEW d \in Clients, NEW g \in Channels,
             ReadSubscribe(e, d, g)
      PROVE  Goal
  <2>1. owner[e] \in States
    BY OwnerPeerType
  <2>2. subscriptions' = [subscriptions EXCEPT ![owner[e]] =
                             subscriptions[owner[e]] \cup {<<e, d, g>>}]
    BY <1>5 DEF ReadSubscribe, AddSubscription
  <2> QED BY <1>t, <1>5, <2>1, <2>2
<1>6. ASSUME NEW e \in Session, NEW d \in Clients, NEW g \in Channels,
             ReadUnsubscribe(e, d, g)
      PROVE  Goal
  BY <1>t, <1>6 DEF ReadUnsubscribe, RemoveSubscription
<1>7. ASSUME NEW d \in Clients, ClientRequest(d) \/ PassOn(d) PROVE Goal
  BY <1>1, <1>2, <1>3, <1>7 DEF ClientRequest, Accept, Leave, PassOn, GetSessions,
     Forward, Forwarded
<1>8. ASSUME NEW e \in Session, \/ Open(e) \/ Fail(e) \/ ReadFailed(e) \/ Destroy(e)
                                \/ Read(e) \/ Sync(e)
      PROVE  Goal
  BY <1>1, <1>4, <1>5, <1>6, <1>8 DEF Open, Connect, AddSession, AcceptSession, Opened,
     Fail, HandshakeFailed, Disconnect, ReadFailed, Destroy, PurgeClients, Read, ReadJoin,
     ReadLeave, ReadRegister, Sync, SyncSend, SyncUnlock, SyncSubscriptions
<1> QED BY <1>1, <1>7, <1>8 DEF Next, vars

\* A row that goes is that of a client that unsubscribes here, or it is
\* unsubscribed by a request off the wire of its session, or its session ends.
LEMMA SubRowGone ==
    ASSUME TypeOK, [Next]_vars, NEW s \in States, NEW h, NEW c \in Clients,
           NEW ch \in Channels,
           <<h, c, ch>> \in subscriptions[s], <<h, c, ch>> \notin subscriptions'[s]
    PROVE  \/ Unsubscribe(c, ch) /\ h = s /\ Home[c] = s
           \/ h \in Session /\ owner[h] = s /\ ReadUnsubscribe(h, c, ch)
           \/ h \in Session /\ owner[h] = s /\ PurgeSubscriptions(h)
<1> DEFINE Goal == \/ Unsubscribe(c, ch) /\ h = s /\ Home[c] = s
                   \/ h \in Session /\ owner[h] = s /\ ReadUnsubscribe(h, c, ch)
                   \/ h \in Session /\ owner[h] = s /\ PurgeSubscriptions(h)
<1> USE DEF linkVars, tableVars, syncVars, clientVars
<1>t. subscriptions \in [States -> SUBSET (Holder \X Clients \X Channels)]
  BY DEF TypeOK
<1>1. CASE UNCHANGED subscriptions
  BY <1>1
<1>2. ASSUME NEW d \in Clients, NEW g \in Channels, Subscribe(d, g) PROVE Goal
  BY <1>t, <1>2 DEF Subscribe, AddSubscription
<1>3. ASSUME NEW d \in Clients, NEW g \in Channels, Unsubscribe(d, g) PROVE Goal
  <2>1. subscriptions' = [subscriptions EXCEPT ![Home[d]] =
                             subscriptions[Home[d]] \ {<<Home[d], d, g>>}]
    BY <1>3 DEF Unsubscribe, RemoveSubscription
  <2>2. Home[d] = s /\ <<h, c, ch>> = <<Home[d], d, g>>
    BY <1>t, <2>1
  <2> QED BY <1>3, <2>2
<1>4. ASSUME NEW e \in Session, PurgeSubscriptions(e) PROVE Goal
  <2>1. subscriptions' = [subscriptions EXCEPT ![owner[e]] =
                             {r \in subscriptions[owner[e]] : r[1] /= e}]
    BY <1>4 DEF PurgeSubscriptions
  <2>2. owner[e] = s /\ <<h, c, ch>>[1] = e
    BY <1>t, <2>1
  <2> QED BY <1>4, <2>2
<1>5. ASSUME NEW e \in Session, NEW d \in Clients, NEW g \in Channels,
             ReadSubscribe(e, d, g)
      PROVE  Goal
  BY <1>t, <1>5 DEF ReadSubscribe, AddSubscription
<1>6. ASSUME NEW e \in Session, NEW d \in Clients, NEW g \in Channels,
             ReadUnsubscribe(e, d, g)
      PROVE  Goal
  <2>1. subscriptions' = [subscriptions EXCEPT ![owner[e]] =
                             subscriptions[owner[e]] \ {<<e, d, g>>}]
    BY <1>6 DEF ReadUnsubscribe, RemoveSubscription
  <2>2. owner[e] = s /\ <<h, c, ch>> = <<e, d, g>>
    BY <1>t, <2>1
  <2> QED BY <1>6, <2>2
<1>7. ASSUME NEW d \in Clients, ClientRequest(d) \/ PassOn(d) PROVE Goal
  BY <1>1, <1>2, <1>3, <1>7 DEF ClientRequest, Accept, Leave, PassOn, GetSessions,
     Forward, Forwarded
<1>8. ASSUME NEW e \in Session, \/ Open(e) \/ Fail(e) \/ ReadFailed(e) \/ Destroy(e)
                                \/ Read(e) \/ Sync(e)
      PROVE  Goal
  BY <1>1, <1>4, <1>5, <1>6, <1>8 DEF Open, Connect, AddSession, AcceptSession, Opened,
     Fail, HandshakeFailed, Disconnect, ReadFailed, Destroy, PurgeClients, Read, ReadJoin,
     ReadLeave, ReadRegister, Sync, SyncSend, SyncUnlock, SyncSubscriptions
<1> QED BY <1>1, <1>7, <1>8 DEF Next, vars

\* Only the thread of c changes what c is subscribed to.
LEMMA SubscribedStep ==
    ASSUME TypeOK, [Next]_vars, NEW c \in Clients, NEW ch \in Channels
    PROVE  /\ Subscribed(c, ch) => Subscribed(c, ch)' \/ Unsubscribe(c, ch)
           /\ Subscribed(c, ch)' => Subscribed(c, ch) \/ Subscribe(c, ch)
<1>1. Home[c] \in States /\ Home[c] \notin Session
  BY ReplicationAssumption
<1> QED BY <1>1, SubRowFrom, SubRowGone DEF Subscribed

-----------------------------------------------------------------------------
(* Origin, for subscriptions.                                              *)

\* Every message on the wire of p was there before or has just been sent.
LEMMA OnWire ==
    ASSUME TypeOK, [Next]_vars, NEW p \in Session, NEW i \in 1..Len(wire'[p])
    PROVE  \/ \E j \in 1..Len(wire[p]) : wire'[p][i] = wire[p][j]
           \/ \E d \in Clients : /\ stage[p] = "open" /\ Forward(d, p)
                                 /\ wire'[p][i] = job[d]
           \/ \E m \in left[p] : SyncSend(p, m) /\ wire'[p][i] = m
           \/ Opened(p) /\ wire'[p][i] = RegisterRequest
<1>1. ASSUME NEW m, Appended(p, m)
      PROVE  (\E j \in 1..Len(wire[p]) : wire'[p][i] = wire[p][j]) \/ wire'[p][i] = m
  <2>1. i = Len(wire[p]) + 1 \/ i \in 1..Len(wire[p])
    BY <1>1 DEF Appended
  <2> QED BY <1>1, <2>1 DEF Appended
<1>2. ASSUME Taken(p) PROVE \E j \in 1..Len(wire[p]) : wire'[p][i] = wire[p][j]
  <2>1. i + 1 \in 1..Len(wire[p]) /\ wire'[p][i] = wire[p][i + 1]
    BY <1>2 DEF Taken
  <2> QED BY <2>1
<1>3. CASE wire'[p] = wire[p]
  BY <1>3
<1>4. ASSUME NEW d \in Clients, stage[p] = "open", Forward(d, p), Appended(p, job[d])
      PROVE  \/ \E j \in 1..Len(wire[p]) : wire'[p][i] = wire[p][j]
             \/ wire'[p][i] = job[d]
  BY <1>1, <1>4
<1>5. ASSUME NEW m \in left[p], SyncSend(p, m), Appended(p, m)
      PROVE  \/ \E j \in 1..Len(wire[p]) : wire'[p][i] = wire[p][j]
             \/ wire'[p][i] = m
  BY <1>1, <1>5
<1>6. ASSUME Appended(p, RegisterRequest)
      PROVE  \/ \E j \in 1..Len(wire[p]) : wire'[p][i] = wire[p][j]
             \/ wire'[p][i] = RegisterRequest
  BY <1>1, <1>6
<1> QED BY <1>2, <1>3, <1>4, <1>5, <1>6, WireStep

\* The requests about subscriptions are told apart too.
LEMMA DistinctSub ==
    ASSUME NEW c, NEW ch, NEW d, NEW g
    PROVE  /\ SubscribeOf(c, ch) = SubscribeOf(d, g) => c = d /\ ch = g
           /\ UnsubscribeOf(c, ch) = UnsubscribeOf(d, g) => c = d /\ ch = g
           /\ SubscribeOf(c, ch) /= UnsubscribeOf(d, g)
           /\ SubscribeOf(c, ch) /= JoinOf(d) /\ SubscribeOf(c, ch) /= LeaveOf(d)
           /\ UnsubscribeOf(c, ch) /= JoinOf(d) /\ UnsubscribeOf(c, ch) /= LeaveOf(d)
           /\ SubscribeOf(c, ch) /= RegisterRequest
           /\ UnsubscribeOf(c, ch) /= RegisterRequest
           /\ SubscribeOf(c, ch).client = c /\ UnsubscribeOf(c, ch).client = c
BY DEF JoinOf, LeaveOf, SubscribeOf, UnsubscribeOf, RegisterRequest

LEMMA InitSubOrigin == Init => SubscriptionOrigin
<1> SUFFICES ASSUME Init, NEW c \in Clients, NEW ch \in Channels
             PROVE  /\ \A s \in States : SubRowOf(s, c, ch)
                    /\ \A p \in Session : SubWireOf(p, c, ch) /\ SubLeftOf(p, c, ch)
                    /\ SubJobOf(c, ch)
  BY DEF SubscriptionOrigin
<1>1. \A s \in States : SubRowOf(s, c, ch)
  BY DEF Init, SubRowOf
<1>2. ASSUME NEW p \in Session PROVE SubWireOf(p, c, ch) /\ SubLeftOf(p, c, ch)
  BY DEF Init, SubWireOf, SubLeftOf
<1>3. SubJobOf(c, ch)
  BY DEF Init, SubJobOf
<1> QED BY <1>1, <1>2, <1>3

LEMMA NextSubRow ==
    ASSUME TypeOK, Life, Origin, SubscriptionOrigin, [Next]_vars,
           NEW s \in States, NEW c \in Clients, NEW ch \in Channels
    PROVE  SubRowOf(s, c, ch)'
<1>0. SubRowOf(s, c, ch)
  BY DEF SubscriptionOrigin
<1>1. ASSUME NEW h \in States, <<h, c, ch>> \in subscriptions'[s]
      PROVE  h = s /\ Home[c] = s
  <2>1. h \notin Session
    BY ReplicationAssumption
  <2> QED BY <1>0, <1>1, <2>1, SubRowFrom DEF SubRowOf
<1>2. ASSUME NEW e \in Session, <<e, c, ch>> \in subscriptions'[s]
      PROVE  /\ owner[peer[e]] = Home[c]
             /\ ~Unopened(peer[e])'
             /\ peer[e] \notin adding'
  <2>0. peer[e] \in Session /\ e /= s
    BY ReplicationAssumption
  <2>1. owner[peer[e]] = Home[c] /\ ~Unopened(peer[e]) /\ peer[e] \notin adding
    <3>1. CASE <<e, c, ch>> \in subscriptions[s]
      BY <1>0, <3>1 DEF SubRowOf
    <3>2. CASE ReadSubscribe(e, c, ch)
      <4>1. Reads(e, SubscribeOf(c, ch))
        BY <3>2 DEF ReadSubscribe
      <4>2. /\ wire[peer[e]] /= <<>> /\ 1 \in 1..Len(wire[peer[e]])
            /\ wire[peer[e]][1] = SubscribeOf(c, ch)
        BY <4>1, ReadsFacts
      <4>3. WireOf(peer[e]) /\ SubWireOf(peer[e], c, ch)
        BY <2>0 DEF Origin, SubscriptionOrigin
      <4> QED BY <4>2, <4>3 DEF WireOf, SubWireOf
    <3> QED BY <1>2, <2>0, <3>1, <3>2, SubRowFrom
  <2> QED BY <2>0, <2>1, Onward
<1> QED BY <1>1, <1>2 DEF SubRowOf

LEMMA NextSubWire ==
    ASSUME TypeOK, Life, Origin, SubscriptionOrigin, [Next]_vars,
           NEW p \in Session, NEW c \in Clients, NEW ch \in Channels
    PROVE  SubWireOf(p, c, ch)'
<1> SUFFICES ASSUME NEW i \in 1..Len(wire'[p]),
                    wire'[p][i] \in {SubscribeOf(c, ch), UnsubscribeOf(c, ch)}
             PROVE  Home[c] = owner[p] /\ p \notin adding'
  BY DEF SubWireOf
<1>0. /\ WireOf(p) /\ LifeOf(p) /\ SubWireOf(p, c, ch) /\ SubLeftOf(p, c, ch)
  BY DEF Origin, Life, SubscriptionOrigin
<1>1. ASSUME NEW j \in 1..Len(wire[p]), wire'[p][i] = wire[p][j]
      PROVE  Home[c] = owner[p] /\ p \notin adding'
  <2>1. Home[c] = owner[p] /\ p \notin adding
    BY <1>0, <1>1 DEF SubWireOf
  <2>2. ~Unopened(p)
    <3> SUFFICES ASSUME wire[p] = <<>> PROVE FALSE
      BY <1>0 DEF WireOf
    <3> QED OBVIOUS
  <2> QED BY <2>1, <2>2, Onward
<1>2. ASSUME NEW d \in Clients, Forward(d, p), wire'[p][i] = job[d]
      PROVE  Home[c] = owner[p] /\ p \notin adding'
  <2>1. JobOf(d) /\ p \in snapshot[d] /\ UNCHANGED adding
    BY <1>2 DEF Origin, Forward, TypeOK
  <2>2. owner[p] = Home[d] /\ p \notin adding /\ job[d].client = d
    BY <1>0, <2>1 DEF JobOf, LifeOf
  <2>3. d = c
    BY <1>2, <2>2, DistinctSub
  <2> QED BY <2>1, <2>2, <2>3
<1>3. ASSUME NEW m \in left[p], SyncSend(p, m), wire'[p][i] = m
      PROVE  Home[c] = owner[p] /\ p \notin adding'
  <2>1. sync[p] = "subscriptions" /\ Home[c] = owner[p] /\ UNCHANGED adding
    BY <1>0, <1>3 DEF SubLeftOf, SyncSend
  <2> QED BY <1>0, <2>1 DEF LifeOf
<1>4. wire'[p][i] /= RegisterRequest
  BY DistinctSub
<1> QED BY <1>1, <1>2, <1>3, <1>4, OnWire

\* Only the handlers of e change what its sync is doing.
LEMMA LeftStep ==
    ASSUME TypeOK, [Next]_vars, NEW e \in Session
    PROVE  \/ left'[e] = left[e] /\ sync'[e] = sync[e]
           \/ \E m \in left[e] : SyncSend(e, m)
           \/ SyncUnlock(e)
           \/ SyncSubscriptions(e)
           \/ ReadRegister(e) /\ e \in sessions
<1> DEFINE Goal == \/ left'[e] = left[e] /\ sync'[e] = sync[e]
                   \/ \E m \in left[e] : SyncSend(e, m)
                   \/ SyncUnlock(e)
                   \/ SyncSubscriptions(e)
                   \/ ReadRegister(e) /\ e \in sessions
<1> USE DEF linkVars, tableVars, syncVars, clientVars
<1>t. /\ left \in [Session -> SUBSET Update]
      /\ sync \in [Session -> {"idle", "clients", "between", "subscriptions"}]
  BY DEF TypeOK
<1>1. CASE UNCHANGED <<left, sync>>
  BY <1>1
<1>2. ASSUME NEW d \in Clients, ClientRequest(d) \/ PassOn(d) PROVE UNCHANGED <<left, sync>>
  BY <1>2 DEF ClientRequest, PassOn, Accept, Leave, Subscribe, Unsubscribe,
     GetSessions, Forward, Forwarded
<1>3. ASSUME NEW f \in Session, Open(f) \/ Fail(f) \/ ReadFailed(f) \/ Destroy(f)
      PROVE  UNCHANGED <<left, sync>>
  BY <1>3 DEF Open, Connect, AddSession, AcceptSession, Opened, Fail, HandshakeFailed,
     Disconnect, ReadFailed, Destroy, PurgeClients, PurgeSubscriptions
<1>4. ASSUME NEW f \in Session, Read(f) PROVE Goal
  <2>1. CASE ReadRegister(f)
    BY <1>t, <2>1 DEF ReadRegister
  <2>2. CASE ~ReadRegister(f)
    BY <1>1, <1>4, <2>2 DEF Read, ReadJoin, ReadLeave, ReadSubscribe, ReadUnsubscribe
  <2> QED BY <2>1, <2>2
<1>5. ASSUME NEW f \in Session, Sync(f) PROVE Goal
  <2>1. ASSUME NEW m \in left[f], SyncSend(f, m) PROVE Goal
    BY <1>t, <2>1 DEF SyncSend
  <2>2. CASE SyncUnlock(f)
    BY <1>t, <2>2 DEF SyncUnlock
  <2>3. CASE SyncSubscriptions(f)
    BY <1>t, <2>3 DEF SyncSubscriptions
  <2> QED BY <1>5, <2>1, <2>2, <2>3 DEF Sync
<1>6. CASE UNCHANGED vars
  BY <1>1, <1>6 DEF vars
<1> QED BY <1>1, <1>2, <1>3, <1>4, <1>5, <1>6 DEF Next

\* Only the thread of c changes what it is doing.
LEMMA ThreadStep ==
    ASSUME TypeOK, [Next]_vars, NEW c \in Clients
    PROVE  \/ turn'[c] = turn[c] /\ job'[c] = job[c] /\ todo'[c] = todo[c]
           \/ ClientRequest(c)
           \/ PassOn(c)
<1> DEFINE Goal == \/ turn'[c] = turn[c] /\ job'[c] = job[c] /\ todo'[c] = todo[c]
                   \/ ClientRequest(c)
                   \/ PassOn(c)
<1> USE DEF linkVars, tableVars, syncVars, clientVars
<1>t. /\ turn \in [Clients -> {"out", "changed", "sending", "ready", "gone"}]
      /\ job \in [Clients -> Update]
      /\ todo \in [Clients -> SUBSET Session]
  BY DEF TypeOK
<1>1. CASE UNCHANGED <<turn, job, todo>>
  BY <1>1
<1>2. ASSUME NEW d \in Clients, ClientRequest(d) \/ PassOn(d) PROVE Goal
  <2>1. CASE d = c
    BY <1>2, <2>1
  <2>2. CASE d /= c
    BY <1>t, <1>2, <2>2 DEF ClientRequest, PassOn, Accept, Leave, Subscribe, Unsubscribe,
       GetSessions, Forward, Forwarded
  <2> QED BY <2>1, <2>2
<1>3. ASSUME NEW f \in Session, \/ Open(f) \/ Fail(f) \/ ReadFailed(f) \/ Destroy(f)
                                \/ Read(f) \/ Sync(f)
      PROVE  UNCHANGED <<turn, job, todo>>
  BY <1>3 DEF Open, Connect, AddSession, AcceptSession, Opened, Fail, HandshakeFailed,
     Disconnect, ReadFailed, Destroy, PurgeClients, PurgeSubscriptions, Read, ReadJoin,
     ReadLeave, ReadSubscribe, ReadUnsubscribe, ReadRegister, Sync, SyncSend, SyncUnlock,
     SyncSubscriptions
<1>4. CASE UNCHANGED vars
  BY <1>1, <1>4 DEF vars
<1> QED BY <1>1, <1>2, <1>3, <1>4 DEF Next

LEMMA NextSubLeft ==
    ASSUME TypeOK, Life, Origin, SubscriptionOrigin, [Next]_vars,
           NEW e \in Session, NEW c \in Clients, NEW ch \in Channels
    PROVE  SubLeftOf(e, c, ch)'
<1> USE DEF linkVars, tableVars, syncVars, clientVars
<1>0. SubLeftOf(e, c, ch) /\ owner[e] \in States
  BY OwnerPeerType DEF SubscriptionOrigin
<1>t. /\ left \in [Session -> SUBSET Update]
      /\ sync \in [Session -> {"idle", "clients", "between", "subscriptions"}]
      /\ subscriptions \in [States -> SUBSET (Holder \X Clients \X Channels)]
      /\ \A f \in Session : sync[f] \in {"idle", "between"} => left[f] = {}
  BY DEF TypeOK
<1>1. ASSUME left'[e] \subseteq left[e], sync'[e] = sync[e]
      PROVE  SubLeftOf(e, c, ch)'
  <2>1. SubscribeOf(c, ch) \in left[e] => Subscribed(c, ch) /\ ~Unsubscribe(c, ch)
    BY <1>0 DEF SubLeftOf, Unsubscribe, RemoveSubscription, SubscriptionsLocked
  <2> QED BY <1>0, <1>1, <2>1, SubscribedStep DEF SubLeftOf
<1>2. ASSUME NEW m \in left[e], SyncSend(e, m) PROVE SubLeftOf(e, c, ch)'
  <2>1. left'[e] \subseteq left[e] /\ sync'[e] = sync[e]
    BY <1>t, <1>2 DEF SyncSend
  <2> QED BY <1>1, <2>1
<1>3. CASE SyncUnlock(e)
  BY <1>3 DEF SyncUnlock, SubLeftOf
<1>4. CASE SyncSubscriptions(e)
  <2>1. /\ left'[e] = {SubscribeOf(r[2], r[3]) :
                          r \in {x \in subscriptions[owner[e]] : x[1] = owner[e]}}
        /\ sync'[e] = "subscriptions" /\ UNCHANGED subscriptions
    BY <1>t, <1>4 DEF SyncSubscriptions
  <2>2. ASSUME NEW m \in left'[e]
        PROVE  \E d \in Clients, g \in Channels :
                   m = SubscribeOf(d, g) /\ <<owner[e], d, g>> \in subscriptions[owner[e]]
    <3>1. PICK r \in subscriptions[owner[e]] : r[1] = owner[e] /\ m = SubscribeOf(r[2], r[3])
      BY <2>1
    <3>2. r \in Holder \X Clients \X Channels
      BY <1>0, <1>t
    <3>3. r = <<owner[e], r[2], r[3]>> /\ r[2] \in Clients /\ r[3] \in Channels
      BY <3>1, <3>2
    <3> QED BY <3>1, <3>3
  <2>3. UnsubscribeOf(c, ch) \notin left'[e]
    BY <2>2 DEF SubscribeOf, UnsubscribeOf
  <2>4. ASSUME SubscribeOf(c, ch) \in left'[e]
        PROVE  <<owner[e], c, ch>> \in subscriptions[owner[e]]
    <3>1. PICK d \in Clients, g \in Channels :
             /\ SubscribeOf(c, ch) = SubscribeOf(d, g)
             /\ <<owner[e], d, g>> \in subscriptions[owner[e]]
      BY <2>2, <2>4
    <3>2. d = c /\ g = ch
      BY <3>1, DistinctSub
    <3> QED BY <3>1, <3>2
  <2>5. <<owner[e], c, ch>> \in subscriptions[owner[e]] =>
           Home[c] = owner[e] /\ Subscribed(c, ch)'
    BY <1>0, <2>1 DEF SubscriptionOrigin, SubRowOf, Subscribed
  <2> QED BY <2>1, <2>3, <2>4, <2>5 DEF SubLeftOf
<1>5. CASE ReadRegister(e) /\ e \in sessions
  <2>1. left'[e] = {JoinOf(d) : d \in LocalClients(owner[e])}
    BY <1>t, <1>5 DEF ReadRegister
  <2>2. \A m \in left'[e] : \E d : m = JoinOf(d)
    BY <2>1
  <2> QED BY <2>2, DistinctSub DEF SubLeftOf
<1> QED BY <1>1, <1>2, <1>3, <1>4, <1>5, LeftStep

LEMMA NextSubJob ==
    ASSUME TypeOK, Life, Origin, SubscriptionOrigin, [Next]_vars,
           NEW c \in Clients, NEW ch \in Channels
    PROVE  SubJobOf(c, ch)'
<1> USE DEF linkVars, tableVars, syncVars, clientVars
<1>0. SubJobOf(c, ch)
  BY DEF SubscriptionOrigin
<1>t. /\ turn \in [Clients -> {"out", "changed", "sending", "ready", "gone"}]
      /\ job \in [Clients -> Update]
      /\ subscriptions \in [States -> SUBSET (Holder \X Clients \X Channels)]
      /\ Home[c] \in States /\ Home[c] \in Holder
  BY OwnerPeerType DEF TypeOK
<1>1. ASSUME NEW g \in Channels, Subscribe(c, g) PROVE SubJobOf(c, ch)'
  <2>1. job'[c] = SubscribeOf(c, g)
    BY <1>t, <1>1 DEF Subscribe
  <2>2. <<Home[c], c, g>> \in subscriptions'[Home[c]]
    BY <1>t, <1>1 DEF Subscribe, AddSubscription
  <2> QED BY <2>1, <2>2, DistinctSub DEF SubJobOf, Subscribed
<1>2. ASSUME NEW g \in Channels, Unsubscribe(c, g) PROVE SubJobOf(c, ch)'
  <2>1. job'[c] = UnsubscribeOf(c, g)
    BY <1>t, <1>2 DEF Unsubscribe
  <2>2. <<Home[c], c, g>> \notin subscriptions'[Home[c]]
    BY <1>t, <1>2 DEF Unsubscribe, RemoveSubscription
  <2> QED BY <2>1, <2>2, DistinctSub DEF SubJobOf, Subscribed
<1>3. CASE Accept(c) \/ Leave(c)
  <2>1. job'[c] \in {JoinOf(c), LeaveOf(c)}
    BY <1>t, <1>3 DEF Accept, Leave
  <2> QED BY <2>1, DistinctSub DEF SubJobOf
<1>4. ASSUME job'[c] = job[c],
             turn'[c] \in {"changed", "sending"} => turn[c] \in {"changed", "sending"},
             ~ClientRequest(c)
      PROVE  SubJobOf(c, ch)'
  <2>1. Subscribed(c, ch)' <=> Subscribed(c, ch)
    BY <1>4, SubscribedStep DEF ClientRequest
  <2> QED BY <1>0, <1>4, <2>1 DEF SubJobOf
<1>5. CASE PassOn(c) /\ ~ClientRequest(c)
  BY <1>t, <1>4, <1>5 DEF PassOn, GetSessions, Forward, Forwarded
<1> QED BY <1>1, <1>2, <1>3, <1>4, <1>5, ThreadStep DEF ClientRequest

LEMMA NextSubOrigin ==
    ASSUME TypeOK, Life, Origin, SubscriptionOrigin, [Next]_vars
    PROVE  SubscriptionOrigin'
<1> SUFFICES ASSUME NEW c \in Clients, NEW ch \in Channels
             PROVE  /\ \A s \in States : SubRowOf(s, c, ch)'
                    /\ \A p \in Session : SubWireOf(p, c, ch)' /\ SubLeftOf(p, c, ch)'
                    /\ SubJobOf(c, ch)'
  BY DEF SubscriptionOrigin
<1> QED BY NextSubRow, NextSubWire, NextSubLeft, NextSubJob

-----------------------------------------------------------------------------
(* Ghost subscriptions.                                                    *)

\* A link comes up when its end has done the handshake.
LEMMA LinkUpStep ==
    ASSUME TypeOK, Life, [Next]_vars, NEW p \in Session, LinkUp(p)'
    PROVE  LinkUp(p) \/ Opened(p)
<1> USE DEF linkVars, tableVars, syncVars, clientVars
<1>0. /\ peer[p] \in Session /\ peer[p] /= p /\ LifeOf(p)
      /\ stage \in [Session -> Stages]
  BY ReplicationAssumption DEF Life, TypeOK
<1>1. ASSUME NEW d \in Clients, ClientRequest(d) \/ PassOn(d) PROVE UNCHANGED stage
  BY <1>1 DEF ClientRequest, PassOn, Accept, Leave, Subscribe, Unsubscribe, GetSessions,
     Forward, Forwarded
<1>2. ASSUME NEW e \in Session, Read(e) \/ Sync(e) PROVE UNCHANGED stage
  BY <1>2 DEF Read, ReadJoin, ReadLeave, ReadSubscribe, ReadUnsubscribe, ReadRegister,
     Sync, SyncSend, SyncUnlock, SyncSubscriptions
<1>3. ASSUME NEW e \in Session, Open(e) \/ Fail(e) \/ ReadFailed(e) \/ Destroy(e)
      PROVE  LinkUp(p) \/ Opened(p)
  BY <1>0, <1>3 DEF LinkUp, LifeOf, Open, Connect, AddSession, AcceptSession, Opened,
     Fail, HandshakeFailed, Disconnect, ReadFailed, Destroy, PurgeClients,
     PurgeSubscriptions
<1>4. UNCHANGED stage => LinkUp(p)
  BY DEF LinkUp
<1> QED BY <1>1, <1>2, <1>3, <1>4 DEF Next, vars

\* A link that has just come up has carried nothing.
LEMMA LinkUpHeldFrom ==
    ASSUME TypeOK, Life, Origin, SubscriptionOrigin, [Next]_vars, NEW p \in Session,
           NEW c \in Clients, NEW ch \in Channels, LinkUp(p)', WillHold(p, c, ch)'
    PROVE  LinkUp(p)
<1> SUFFICES ASSUME Opened(p) PROVE FALSE
  BY LinkUpStep
<1>1. /\ peer[p] \in Session /\ peer[peer[p]] = p /\ owner[peer[p]] \in States
  BY ReplicationAssumption
<1>2. Unopened(p) /\ wire[p] = <<>> /\ UNCHANGED subscriptions
  BY DEF Opened, Unopened, Origin, WireOf, tableVars
<1>3. <<peer[p], c, ch>> \notin subscriptions'[owner[peer[p]]]
  BY <1>1, <1>2 DEF SubscriptionOrigin, SubRowOf
<1>4. wire'[p] = <<>> \/ wire'[p] = <<RegisterRequest>>
  BY <1>2 DEF Opened, TypeOK
<1>5. PICK i \in 1..Len(wire'[p]) : wire'[p][i] = SubscribeOf(c, ch)
  BY <1>3 DEF WillHold
<1> QED BY <1>4, <1>5, DistinctSub

\* Who is going to be put down over a link subscribed at its other end.
LEMMA HeldFromPeer ==
    ASSUME SubscriptionOrigin, NEW p \in Session, NEW c \in Clients, NEW ch \in Channels,
           WillHold(p, c, ch)
    PROVE  owner[p] = Home[c] /\ p \notin adding
<1>1. /\ peer[p] \in Session /\ peer[peer[p]] = p /\ owner[peer[p]] \in States
  BY ReplicationAssumption
<1>2. CASE <<peer[p], c, ch>> \in subscriptions[owner[peer[p]]]
  BY <1>1, <1>2 DEF SubscriptionOrigin, SubRowOf
<1>3. ASSUME NEW i \in 1..Len(wire[p]), wire[p][i] = SubscribeOf(c, ch)
      PROVE  owner[p] = Home[c] /\ p \notin adding
  BY <1>3 DEF SubscriptionOrigin, SubWireOf
<1> QED BY <1>2, <1>3 DEF WillHold

\* What a state is going to hold after a step it was going to hold before,
\* unless the request was sent in this step, and then the row is there.
LEMMA WillHoldFrom ==
    ASSUME TypeOK, Life, Origin, SubscriptionOrigin, [Next]_vars, NEW p \in Session,
           NEW c \in Clients, NEW ch \in Channels, WillHold(p, c, ch)'
    PROVE  WillHold(p, c, ch) \/ Subscribed(c, ch)'
<1> DEFINE n == Len(wire[p])
           q == peer[p]
           Held == <<q, c, ch>> \in subscriptions[owner[q]]
<1>0. /\ q \in Session /\ peer[q] = p /\ owner[q] \in States /\ q \notin States
      /\ SubLeftOf(p, c, ch)
  BY ReplicationAssumption DEF SubscriptionOrigin
<1>r. <<q, c, ch>> \in subscriptions'[owner[q]] => Held \/ ReadSubscribe(q, c, ch)
  BY <1>0, SubRowFrom
<1>1. CASE wire'[p] = wire[p]
  <2>1. ~ReadSubscribe(q, c, ch)
    <3> SUFFICES ASSUME Reads(q, SubscribeOf(c, ch)) PROVE FALSE
      BY DEF ReadSubscribe
    <3>1. n \in Nat \ {0} /\ Len(wire'[p]) = n - 1
      BY <1>0, ReadsFacts
    <3> QED BY <1>1, <3>1
  <2> QED BY <1>1, <1>r, <2>1 DEF WillHold, NoneBehind
<1>2. ASSUME NEW m, Appended(p, m), ~ReadSubscribe(q, c, ch),
             m = SubscribeOf(c, ch) => Subscribed(c, ch)'
      PROVE  WillHold(p, c, ch) \/ Subscribed(c, ch)'
  <2>1. n \in Nat /\ Len(wire'[p]) = n + 1 /\ wire'[p][n + 1] = m
        /\ \A i \in 1..n : wire'[p][i] = wire[p][i]
    BY <1>2 DEF Appended
  <2>2. ASSUME NEW i \in Nat, NoneBehind(p, i, UnsubscribeOf(c, ch))'
        PROVE  NoneBehind(p, i, UnsubscribeOf(c, ch))
    BY <2>1, <2>2 DEF NoneBehind
  <2>3. CASE Held /\ NoneBehind(p, 0, UnsubscribeOf(c, ch))'
    BY <2>2, <2>3 DEF WillHold
  <2>4. ASSUME NEW i \in 1..(n + 1), wire'[p][i] = SubscribeOf(c, ch),
               NoneBehind(p, i, UnsubscribeOf(c, ch))'
        PROVE  WillHold(p, c, ch) \/ Subscribed(c, ch)'
    <3>1. CASE i = n + 1
      BY <1>2, <2>1, <2>4, <3>1
    <3>2. CASE i \in 1..n
      BY <2>1, <2>2, <2>4, <3>2 DEF WillHold
    <3> QED BY <2>1, <3>1, <3>2
  <2> QED BY <1>2, <1>r, <2>1, <2>3, <2>4 DEF WillHold
<1>3. ASSUME NEW d \in Clients, Forward(d, p), Appended(p, job[d])
      PROVE  WillHold(p, c, ch) \/ Subscribed(c, ch)'
  <2>1. JobOf(d) /\ turn[d] = "sending" /\ UNCHANGED subscriptions
    BY <1>3 DEF Origin, Forward, tableVars
  <2>2. ASSUME job[d] = SubscribeOf(c, ch) PROVE Subscribed(c, ch)'
    <3>1. d = c
      BY <2>1, <2>2 DEF JobOf, SubscribeOf
    <3> QED BY <2>1, <2>2, <3>1 DEF SubscriptionOrigin, SubJobOf, Subscribed
  <2>3. ~ReadSubscribe(q, c, ch)
    <3> SUFFICES ASSUME Reads(q, SubscribeOf(c, ch)) PROVE FALSE
      BY DEF ReadSubscribe
    <3> QED BY <1>0, <1>3, ReadsFacts DEF Appended
  <2> QED BY <1>2, <1>3, <2>2, <2>3
<1>4. ASSUME NEW m \in left[p], SyncSend(p, m), Appended(p, m)
      PROVE  WillHold(p, c, ch) \/ Subscribed(c, ch)'
  <2>1. m = SubscribeOf(c, ch) => Subscribed(c, ch)'
    BY <1>0, <1>4 DEF SubLeftOf, SyncSend, tableVars, Subscribed
  <2>2. ~ReadSubscribe(q, c, ch)
    <3> SUFFICES ASSUME Reads(q, SubscribeOf(c, ch)) PROVE FALSE
      BY DEF ReadSubscribe
    <3> QED BY <1>0, <1>4, ReadsFacts DEF Appended
  <2> QED BY <1>2, <1>4, <2>1, <2>2
<1>5. ASSUME Opened(p), Appended(p, RegisterRequest)
      PROVE  WillHold(p, c, ch) \/ Subscribed(c, ch)'
  <2>1. RegisterRequest /= SubscribeOf(c, ch)
    BY DistinctSub
  <2>2. ~ReadSubscribe(q, c, ch)
    <3> SUFFICES ASSUME Reads(q, SubscribeOf(c, ch)) PROVE FALSE
      BY DEF ReadSubscribe
    <3> QED BY <1>0, <1>5, ReadsFacts DEF Appended
  <2> QED BY <1>2, <1>5, <2>1, <2>2
<1>6. ASSUME Taken(p), Read(q)
      PROVE  WillHold(p, c, ch)
  <2>1. /\ n \in Nat \ {0} /\ Len(wire'[p]) = n - 1
        /\ \A i \in 1..(n - 1) : wire'[p][i] = wire[p][i + 1]
    BY <1>6 DEF Taken
  <2>2. ASSUME NEW i \in Nat, NoneBehind(p, i, UnsubscribeOf(c, ch))'
        PROVE  NoneBehind(p, i + 1, UnsubscribeOf(c, ch))
    <3> SUFFICES ASSUME NEW j \in 1..n, j > i + 1 PROVE wire[p][j] /= UnsubscribeOf(c, ch)
      BY DEF NoneBehind
    <3>0. n \in Nat
      BY <2>1
    <3>1. j - 1 \in 1..(n - 1) /\ j - 1 > i /\ (j - 1) + 1 = j
      <4> HIDE DEF n
      <4> QED BY <3>0
    <3> QED BY <2>1, <2>2, <3>1 DEF NoneBehind
  <2>3. ASSUME NEW i \in 1..(n - 1), wire'[p][i] = SubscribeOf(c, ch),
               NoneBehind(p, i, UnsubscribeOf(c, ch))'
        PROVE  WillHold(p, c, ch)
    <3>1. /\ i + 1 \in 1..n /\ wire[p][i + 1] = SubscribeOf(c, ch)
          /\ NoneBehind(p, i + 1, UnsubscribeOf(c, ch))
      BY <2>1, <2>2, <2>3
    <3> QED BY <3>1 DEF WillHold
  <2>4. ASSUME <<q, c, ch>> \in subscriptions'[owner[q]],
               NoneBehind(p, 0, UnsubscribeOf(c, ch))'
        PROVE  WillHold(p, c, ch)
    <3>1. NoneBehind(p, 1, UnsubscribeOf(c, ch)) /\ 1 \in 1..n
      BY <2>1, <2>2, <2>4
    <3>2. CASE ReadSubscribe(q, c, ch)
      <4>1. wire[p][1] = SubscribeOf(c, ch)
        BY <1>0, <3>2, ReadsFacts DEF ReadSubscribe
      <4> QED BY <3>1, <4>1 DEF WillHold
    <3>3. CASE Held
      <4>1. wire[p][1] /= UnsubscribeOf(c, ch)
        <5> SUFFICES ASSUME wire[p][1] = UnsubscribeOf(c, ch) PROVE FALSE
          OBVIOUS
        <5>1. \A m : Reads(q, m) => m = UnsubscribeOf(c, ch)
          BY <1>6 DEF Taken, Reads
        <5>2. ReadUnsubscribe(q, c, ch)
          BY <1>6, <5>1 DEF Read, ReadJoin, ReadLeave, ReadSubscribe, ReadUnsubscribe,
             ReadRegister, JoinOf, LeaveOf, SubscribeOf, UnsubscribeOf, RegisterRequest
        <5>3. <<q, c, ch>> \notin subscriptions'[owner[q]]
          BY <1>0, <5>2 DEF ReadUnsubscribe, RemoveSubscription, TypeOK
        <5> QED BY <2>4, <5>3
      <4>2. NoneBehind(p, 0, UnsubscribeOf(c, ch))
        BY <2>1, <3>1, <4>1 DEF NoneBehind
      <4> QED BY <3>3, <4>2 DEF WillHold
    <3> QED BY <1>r, <2>4, <3>2, <3>3
  <2> QED BY <2>1, <2>3, <2>4 DEF WillHold
<1> QED BY <1>1, <1>3, <1>4, <1>5, <1>6, WireStep

\* The thread of c keeps its word, unless it has just done so.
LEMMA WillSendKept ==
    ASSUME TypeOK, Life, Origin, [Next]_vars, NEW p \in Session, NEW c \in Clients,
           NEW m, LinkUp(p), LinkUp(p)', owner[p] = Home[c], WillSend(p, c, m)
    PROVE  WillSend(p, c, m)' \/ Forward(c, p)
<1> USE DEF linkVars, tableVars, syncVars, clientVars
<1>t. /\ turn \in [Clients -> {"out", "changed", "sending", "ready", "gone"}]
      /\ job \in [Clients -> Update]
      /\ todo \in [Clients -> SUBSET Session]
      /\ sessions \subseteq Session /\ stage \in [Session -> Stages]
  BY DEF TypeOK
<1>1. p \in sessions => p \in sessions'
  <2> SUFFICES ASSUME p \in sessions PROVE p \in sessions'
    OBVIOUS
  <2>1. ASSUME NEW d \in Clients, ClientRequest(d) \/ PassOn(d) PROVE UNCHANGED sessions
    BY <2>1 DEF ClientRequest, PassOn, Accept, Leave, Subscribe, Unsubscribe, GetSessions,
       Forward, Forwarded
  <2>2. ASSUME NEW e \in Session, Read(e) \/ Sync(e) PROVE UNCHANGED sessions
    BY <2>2 DEF Read, ReadJoin, ReadLeave, ReadSubscribe, ReadUnsubscribe, ReadRegister,
       Sync, SyncSend, SyncUnlock, SyncSubscriptions
  <2>3. ASSUME NEW e \in Session, Open(e) \/ Fail(e) \/ ReadFailed(e) \/ Destroy(e)
        PROVE  p \in sessions'
    BY <1>t, <2>3 DEF LinkUp, Open, Connect, AddSession, AcceptSession, Opened, Fail,
       HandshakeFailed, Disconnect, ReadFailed, Destroy, PurgeClients, PurgeSubscriptions
  <2> QED BY <2>1, <2>2, <2>3 DEF Next, vars
<1>2. CASE turn'[c] = turn[c] /\ job'[c] = job[c] /\ todo'[c] = todo[c]
  BY <1>1, <1>2 DEF WillSend
<1>3. ~ClientRequest(c) /\ ~Forwarded(c)
  BY DEF ClientRequest, Accept, Leave, Subscribe, Unsubscribe, Forwarded, WillSend
<1>4. CASE GetSessions(c)
  BY <1>t, <1>4 DEF GetSessions, WillSend
<1>5. ASSUME NEW e \in Session, Forward(c, e), e /= p PROVE WillSend(p, c, m)'
  BY <1>t, <1>5 DEF Forward, WillSend
<1> QED BY <1>2, <1>3, <1>4, <1>5, ThreadStep DEF PassOn

\* A request that has just been sent is at the end of the wire.
LEMMA ForwardSends ==
    ASSUME TypeOK, NEW p \in Session, NEW c \in Clients, Forward(c, p), stage[p] = "open"
    PROVE  Appended(p, job[c])
<1>1. wire' = Sent(p, job[c]) /\ job[c] \in Message
  BY MessageTypes DEF Forward, TypeOK
<1> QED BY <1>1, SentFacts DEF Appended

LEMMA UnsubscribeSent ==
    ASSUME TypeOK, NEW p \in Session, NEW c \in Clients, NEW ch \in Channels,
           stage[p] = "open", Forward(c, p), job[c] = UnsubscribeOf(c, ch)
    PROVE  ~WillHold(p, c, ch)'
<1>1. /\ Len(wire[p]) \in Nat /\ Len(wire'[p]) = Len(wire[p]) + 1
      /\ wire'[p][Len(wire[p]) + 1] = UnsubscribeOf(c, ch)
  BY ForwardSends DEF Appended
<1>2. ASSUME NEW i \in 0..Len(wire[p]) PROVE ~NoneBehind(p, i, UnsubscribeOf(c, ch))'
  BY <1>1 DEF NoneBehind
<1>3. ASSUME NEW i \in 1..Len(wire'[p]), wire'[p][i] = SubscribeOf(c, ch)
      PROVE  i \in 0..Len(wire[p])
  <2>1. i /= Len(wire[p]) + 1
    BY <1>1, <1>3, DistinctSub
  <2> QED BY <1>1, <2>1
<1>4. 0 \in 0..Len(wire[p])
  BY <1>1
<1> QED BY <1>2, <1>3, <1>4 DEF WillHold

LEMMA NextNoGhostSubscription ==
    ASSUME TypeOK, Life, Origin, SubscriptionOrigin, NoGhostSubscription, [Next]_vars
    PROVE  NoGhostSubscription'
<1> SUFFICES ASSUME NEW p \in Session, NEW c \in Clients, NEW ch \in Channels,
                    LinkUp(p)', WillHold(p, c, ch)', ~Subscribed(c, ch)'
             PROVE  WillSend(p, c, UnsubscribeOf(c, ch))'
  BY DEF NoGhostSubscription
<1>1. LinkUp(p) /\ WillHold(p, c, ch)
  BY LinkUpHeldFrom, WillHoldFrom
<1>2. owner[p] = Home[c] /\ p \notin adding
  BY <1>1, HeldFromPeer
<1>3. CASE Subscribed(c, ch)
  <2>1. Unsubscribe(c, ch)
    BY <1>3, SubscribedStep
  <2>2. p \in sessions
    BY <1>1, <1>2 DEF Life, LifeOf, LinkUp
  <2>3. turn'[c] = "changed" /\ job'[c] = UnsubscribeOf(c, ch) /\ sessions' = sessions
    BY <2>1 DEF Unsubscribe, linkVars, TypeOK
  <2> QED BY <2>2, <2>3 DEF WillSend
<1>4. CASE WillSend(p, c, UnsubscribeOf(c, ch))
  <2>1. job[c] = UnsubscribeOf(c, ch) /\ stage[p] = "open"
    BY <1>1, <1>4 DEF WillSend, LinkUp
  <2>2. ~Forward(c, p)
    BY <2>1, UnsubscribeSent
  <2> QED BY <1>1, <1>2, <1>4, <2>2, WillSendKept
<1> QED BY <1>1, <1>3, <1>4 DEF NoGhostSubscription

-----------------------------------------------------------------------------
(* Nobody is forgotten.                                                    *)

\* A row of a client that goes: the client leaves here, or a leave is read
\* off the wire of a session of this state, or its session ends.
LEMMA RowGone ==
    ASSUME TypeOK, [Next]_vars, NEW s \in States, NEW c \in Clients,
           clients[s][c] /= None, clients'[s][c] /= clients[s][c]
    PROVE  /\ clients'[s][c] = None
           /\ \/ Leave(c) /\ Home[c] = s
              \/ \E e \in Session : owner[e] = s /\ ReadLeave(e, c)
              \/ clients[s][c] \in Session /\ owner[clients[s][c]] = s
                 /\ PurgeClients(clients[s][c])
<1> DEFINE Goal == /\ clients'[s][c] = None
                   /\ \/ Leave(c) /\ Home[c] = s
                      \/ \E e \in Session : owner[e] = s /\ ReadLeave(e, c)
                      \/ clients[s][c] \in Session /\ owner[clients[s][c]] = s
                         /\ PurgeClients(clients[s][c])
<1> USE DEF linkVars, tableVars, syncVars, clientVars
<1>0. clients \in [States -> [Clients -> Holder \cup {None}]]
  BY DEF TypeOK
<1>1. ASSUME NEW d \in Clients, ClientRequest(d) \/ PassOn(d) PROVE Goal
  <2>1. Home[d] \in States
    BY OwnerPeerType
  <2>2. ~Accept(d)
    BY <1>0, <2>1 DEF Accept, AddClient
  <2>3. CASE Leave(d)
    BY <1>0, <2>1, <2>3 DEF Leave, RemoveClient
  <2> QED BY <1>1, <2>2, <2>3 DEF ClientRequest, Subscribe, Unsubscribe, PassOn,
         GetSessions, Forward, Forwarded
<1>2. ASSUME NEW e \in Session, Open(e) \/ Fail(e) \/ ReadFailed(e) PROVE Goal
  BY <1>2 DEF Open, Connect, AddSession, AcceptSession, Opened, Fail, HandshakeFailed,
     Disconnect, ReadFailed
<1>3. ASSUME NEW e \in Session, Destroy(e) PROVE Goal
  <2>1. owner[e] \in States
    BY OwnerPeerType
  <2>2. PurgeClients(e)
    BY <1>3 DEF Destroy, PurgeSubscriptions
  <2>3. clients' = [clients EXCEPT ![owner[e]] =
                       [d \in Clients |-> IF clients[owner[e]][d] = e THEN None
                                          ELSE clients[owner[e]][d]]]
    BY <2>2 DEF PurgeClients
  <2>4. owner[e] = s /\ clients[s][c] = e /\ clients'[s][c] = None
    BY <1>0, <2>1, <2>3
  <2> QED BY <2>2, <2>4
<1>4. ASSUME NEW e \in Session, Read(e) PROVE Goal
  <2>1. owner[e] \in States
    BY OwnerPeerType
  <2>2. ASSUME NEW d \in Clients PROVE ~ReadJoin(e, d)
    BY <1>0, <2>1 DEF ReadJoin, AddClient
  <2>3. ASSUME NEW d \in Clients, ReadLeave(e, d) PROVE Goal
    <3>1. clients' = [clients EXCEPT ![owner[e]] = [clients[owner[e]] EXCEPT ![d] = None]]
      BY <2>3 DEF ReadLeave, RemoveClient
    <3>2. owner[e] = s /\ d = c /\ clients'[s][c] = None
      BY <1>0, <2>1, <3>1
    <3> QED BY <2>3, <3>2
  <2> QED BY <1>4, <2>2, <2>3 DEF Read, ReadSubscribe, ReadUnsubscribe, ReadRegister
<1>5. ASSUME NEW e \in Session, Sync(e) PROVE Goal
  BY <1>5 DEF Sync, SyncSend, SyncUnlock, SyncSubscriptions
<1>6. ~UNCHANGED vars
  BY DEF vars
<1> QED BY <1>1, <1>2, <1>3, <1>4, <1>5, <1>6 DEF Next

\* Only its own thread puts a client down at its own state.
LEMMA ConnectedFrom ==
    ASSUME TypeOK, Life, [Next]_vars, NEW c \in Clients, Connected(c)'
    PROVE  Connected(c) \/ Accept(c)
<1>1. Home[c] \in States /\ Home[c] \notin Session /\ Home[c] /= None
  BY ReplicationAssumption
<1> QED BY <1>1, RowFrom DEF Connected

\* A client leaves once and for all.
LEMMA HasLeftStep ==
    ASSUME TypeOK, [Next]_vars, NEW c \in Clients
    PROVE  /\ HasLeft(c) => HasLeft(c)' /\ ~ClientRequest(c)
           /\ HasLeft(c)' => HasLeft(c) \/ Leave(c)
<1>t. /\ turn \in [Clients -> {"out", "changed", "sending", "ready", "gone"}]
      /\ job \in [Clients -> Update]
  BY DEF TypeOK
<1>1. HasLeft(c) => ~ClientRequest(c)
  BY DEF HasLeft, ClientRequest, Accept, Leave, Subscribe, Unsubscribe
<1>2. CASE turn'[c] = turn[c] /\ job'[c] = job[c]
  BY <1>1, <1>2 DEF HasLeft
<1>3. CASE PassOn(c)
  BY <1>t, <1>1, <1>3 DEF HasLeft, PassOn, GetSessions, Forward, Forwarded
<1>4. CASE ClientRequest(c) /\ ~Leave(c)
  <2>1. \/ job'[c] = JoinOf(c)
        \/ \E g \in Channels : job'[c] \in {SubscribeOf(c, g), UnsubscribeOf(c, g)}
    BY <1>t, <1>4 DEF ClientRequest, Accept, Subscribe, Unsubscribe
  <2>2. job'[c] /= LeaveOf(c)
    BY <2>1 DEF JoinOf, LeaveOf, SubscribeOf, UnsubscribeOf
  <2>3. turn'[c] = "changed"
    BY <1>t, <1>4 DEF ClientRequest, Accept, Subscribe, Unsubscribe
  <2> QED BY <1>1, <2>2, <2>3, <1>4 DEF HasLeft
<1> QED BY <1>1, <1>2, <1>3, <1>4, ThreadStep

LEMMA InitLeftForGood == Init => LeftForGood /\ NotBefore /\ WasListed
<1> SUFFICES ASSUME Init PROVE LeftForGood /\ NotBefore /\ WasListed
  OBVIOUS
<1>1. ASSUME NEW c \in Clients PROVE ~HasLeft(c)
  BY DEF Init, HasLeft
<1>2. ASSUME NEW p \in Session PROVE Len(wire[p]) = 0
  BY DEF Init
<1>3. ASSUME NEW c \in Clients PROVE ~Connected(c)
  BY ReplicationAssumption DEF Init, Connected
<1> QED BY <1>1, <1>2, <1>3 DEF Init, LeftForGood, NotBefore, WasListed

LEMMA NextLeftForGood ==
    ASSUME TypeOK, Life, Origin, LeftForGood, [Next]_vars
    PROVE  LeftForGood'
<1> SUFFICES ASSUME NEW c \in Clients
             PROVE  /\ HasLeft(c)' => ~Connected(c)'
                    /\ \A p \in Session : \A i \in 1..Len(wire'[p]) :
                          wire'[p][i] = LeaveOf(c) => HasLeft(c)'
  BY DEF LeftForGood
<1>1. ASSUME HasLeft(c)' PROVE ~Connected(c)'
  <2>1. CASE HasLeft(c)
    BY <2>1, HasLeftStep, ConnectedFrom DEF LeftForGood, ClientRequest
  <2>2. CASE Leave(c)
    <3>1. Home[c] \in States /\ Home[c] /= None
      BY ReplicationAssumption
    <3> QED BY <2>2, <3>1 DEF Leave, RemoveClient, Connected, TypeOK
  <2> QED BY <1>1, <2>1, <2>2, HasLeftStep
<1>2. ASSUME NEW p \in Session, NEW i \in 1..Len(wire'[p]), wire'[p][i] = LeaveOf(c)
      PROVE  HasLeft(c)'
  <2> SUFFICES HasLeft(c)
    BY HasLeftStep
  <2>1. ASSUME NEW j \in 1..Len(wire[p]), wire'[p][i] = wire[p][j] PROVE HasLeft(c)
    BY <1>2, <2>1 DEF LeftForGood
  <2>2. ASSUME NEW d \in Clients, Forward(d, p), wire'[p][i] = job[d] PROVE HasLeft(c)
    <3>1. turn[d] = "sending" /\ job[d] = LeaveOf(c) /\ job[d].client = d
      BY <1>2, <2>2 DEF Forward, Origin, JobOf
    <3>2. d = c
      BY <3>1, Distinct
    <3> QED BY <3>1, <3>2 DEF HasLeft
  <2>3. ASSUME NEW m \in left[p], wire'[p][i] = m PROVE FALSE
    BY <1>2, <2>3 DEF Origin, LeftOf
  <2>4. wire'[p][i] /= RegisterRequest
    BY <1>2, Distinct
  <2> QED BY <2>1, <2>2, <2>3, <2>4, OnWire
<1> QED BY <1>1, <1>2

LEMMA NextNotBefore ==
    ASSUME TypeOK, Life, Origin, NotBefore, [Next]_vars
    PROVE  NotBefore'
<1> SUFFICES ASSUME NEW c \in Clients, turn'[c] = "out"
             PROVE  /\ ~Connected(c)'
                    /\ \A p \in Session : \A i \in 1..Len(wire'[p]) : wire'[p][i] /= JoinOf(c)
  BY DEF NotBefore
<1>1. turn[c] = "out" /\ ~Accept(c)
  BY ThreadStep DEF TypeOK, ClientRequest, PassOn, Accept, Leave, Subscribe, Unsubscribe,
     GetSessions, Forward, Forwarded
<1>2. ~Connected(c) /\ \A p \in Session : \A i \in 1..Len(wire[p]) : wire[p][i] /= JoinOf(c)
  BY <1>1 DEF NotBefore
<1>3. ASSUME NEW p \in Session, NEW i \in 1..Len(wire'[p]), wire'[p][i] = JoinOf(c)
      PROVE  FALSE
  <2>1. ASSUME NEW d \in Clients, Forward(d, p), job[d] = JoinOf(c) PROVE FALSE
    <3>1. turn[d] = "sending" /\ job[d].client = d
      BY <2>1 DEF Forward, Origin, JobOf
    <3>2. d = c
      BY <2>1, <3>1, Distinct
    <3> QED BY <1>1, <3>1, <3>2
  <2>2. JoinOf(c) \notin left[p]
    BY <1>2 DEF Origin, LeftOf
  <2>3. wire'[p][i] /= RegisterRequest
    BY <1>3, Distinct
  <2> QED BY <1>2, <1>3, <2>1, <2>2, <2>3, OnWire
<1> QED BY <1>1, <1>2, <1>3, ConnectedFrom

\* A session is registered by its own register handler.
LEMMA RegisteredFrom ==
    ASSUME TypeOK, [Next]_vars, NEW p \in registered'
    PROVE  p \in registered \/ (p \in Session /\ ReadRegister(p) /\ p \in sessions)
<1> USE DEF linkVars, tableVars, syncVars, clientVars
<1>1. CASE UNCHANGED registered
  BY <1>1
<1>2. ASSUME NEW d \in Clients, ClientRequest(d) \/ PassOn(d) PROVE UNCHANGED registered
  BY <1>2 DEF ClientRequest, PassOn, Accept, Leave, Subscribe, Unsubscribe, GetSessions,
     Forward, Forwarded
<1>3. ASSUME NEW e \in Session, \/ Open(e) \/ Fail(e) \/ ReadFailed(e) \/ Destroy(e)
                                \/ Sync(e)
      PROVE  UNCHANGED registered
  BY <1>3 DEF Open, Connect, AddSession, AcceptSession, Opened, Fail, HandshakeFailed,
     Disconnect, ReadFailed, Destroy, PurgeClients, PurgeSubscriptions, Sync, SyncSend,
     SyncUnlock, SyncSubscriptions
<1>4. ASSUME NEW e \in Session, Read(e)
      PROVE  p \in registered \/ (p \in Session /\ ReadRegister(p) /\ p \in sessions)
  <2>1. CASE ReadRegister(e)
    BY <2>1 DEF ReadRegister
  <2>2. CASE ~ReadRegister(e)
    BY <1>1, <1>4, <2>2 DEF Read, ReadJoin, ReadLeave, ReadSubscribe, ReadUnsubscribe
  <2> QED BY <2>1, <2>2
<1>5. CASE UNCHANGED vars
  BY <1>1, <1>5 DEF vars
<1> QED BY <1>1, <1>2, <1>3, <1>4, <1>5 DEF Next

LEMMA NextWasListed ==
    ASSUME TypeOK, Life, WasListed, [Next]_vars
    PROVE  WasListed'
<1> SUFFICES ASSUME NEW p \in registered' PROVE ~Unopened(p)' /\ p \notin adding'
  BY DEF WasListed
<1>1. p \in Session
  BY NextType DEF TypeOK
<1>2. ~Unopened(p) /\ p \notin adding
  <2>1. CASE p \in registered
    BY <2>1 DEF WasListed
  <2>2. CASE ReadRegister(p) /\ p \in sessions
    BY <1>1, <2>2 DEF ReadRegister, Reads, Unopened, Life, LifeOf
  <2> QED BY <2>1, <2>2, RegisteredFrom
<1> QED BY <1>1, <1>2, Onward

\* A message on the wire of p stays on it until it is read.
LEMMA StaysOnWire ==
    ASSUME TypeOK, [Next]_vars, NEW p \in Session, NEW i \in 1..Len(wire[p])
    PROVE  \/ \E j \in 1..Len(wire'[p]) : wire'[p][j] = wire[p][i]
           \/ i = 1 /\ Taken(p) /\ Read(peer[p])
<1>1. ASSUME NEW m, Appended(p, m)
      PROVE  \E j \in 1..Len(wire'[p]) : wire'[p][j] = wire[p][i]
  <2>1. i \in 1..Len(wire'[p]) /\ wire'[p][i] = wire[p][i]
    BY <1>1 DEF Appended
  <2> QED BY <2>1
<1>2. ASSUME Taken(p), i /= 1
      PROVE  \E j \in 1..Len(wire'[p]) : wire'[p][j] = wire[p][i]
  <2>1. i - 1 \in 1..Len(wire'[p]) /\ (i - 1) + 1 = i
    BY <1>2 DEF Taken
  <2>2. wire'[p][i - 1] = wire[p][i]
    BY <1>2, <2>1 DEF Taken
  <2> QED BY <2>1, <2>2
<1>3. CASE wire'[p] = wire[p]
  BY <1>3
<1> QED BY <1>1, <1>2, <1>3, WireStep

\* While c is connected no leave of c is on a wire, so the peer of p reads
\* the join, and then it keeps the row.
LEMMA WillListKept ==
    ASSUME TypeOK, Life, Origin, LeftForGood, [Next]_vars, NEW p \in Session,
           NEW c \in Clients, LinkUp(p), SoleLink(p), Home[c] = owner[p],
           Connected(c)', WillList(p, c)
    PROVE  WillList(p, c)'
<1> DEFINE q == peer[p]
<1> USE DEF linkVars, tableVars, syncVars, clientVars
<1>0. /\ q \in Session /\ peer[q] = p /\ owner[q] \in States /\ owner[q] /= owner[p]
      /\ q /= None /\ q \notin States /\ States \cap Session = {}
      /\ stage[q] \in {"handshake", "open"}
  BY ReplicationAssumption DEF LinkUp
<1>1. LeftForGood' /\ ~HasLeft(c)' /\ ~HasLeft(c)
  BY NextLeftForGood, HasLeftStep DEF LeftForGood
<1>2. ASSUME NEW i \in Nat PROVE NoneBehind(p, i, LeaveOf(c))'
  BY <1>1 DEF NoneBehind, LeftForGood
<1>3. CASE clients[owner[q]][c] = q
  <2> SUFFICES clients'[owner[q]][c] = q
    BY <1>2 DEF WillList
  <2>1. Home[c] /= owner[q]
    BY <1>0
  <2>2. ASSUME NEW e \in Session PROVE ~ReadLeave(e, c)
    <3> SUFFICES ASSUME Reads(e, LeaveOf(c)) PROVE FALSE
      BY DEF ReadLeave
    <3>1. /\ peer[e] \in Session /\ 1 \in 1..Len(wire[peer[e]])
          /\ wire[peer[e]][1] = LeaveOf(c)
      BY ReadsFacts
    <3> QED BY <1>1, <3>1 DEF LeftForGood
  <2>3. ~PurgeClients(q)
    BY <1>0 DEF PurgeClients
  <2> QED BY <1>0, <1>3, <2>1, <2>2, <2>3, RowGone
<1>4. ASSUME NEW i \in 1..Len(wire[p]), wire[p][i] = JoinOf(c)
      PROVE  WillList(p, c)'
  <2>1. CASE \E j \in 1..Len(wire'[p]) : wire'[p][j] = JoinOf(c)
    BY <1>2, <2>1 DEF WillList
  <2>2. CASE i = 1 /\ Taken(p) /\ Read(q)
    <3> SUFFICES clients'[owner[q]][c] = q
      BY <1>2 DEF WillList
    <3>1. \A m : Reads(q, m) => m = JoinOf(c)
      BY <1>4, <2>2 DEF Taken, Reads
    <3>2. ReadJoin(q, c)
      BY <2>2, <3>1 DEF Read, ReadJoin, ReadLeave, ReadSubscribe, ReadUnsubscribe,
         ReadRegister, JoinOf, LeaveOf, SubscribeOf, UnsubscribeOf, RegisterRequest
    <3>3. /\ clients[owner[q]] \in [Clients -> Holder \cup {None}]
          /\ clients \in [States -> [Clients -> Holder \cup {None}]]
      BY <1>0 DEF TypeOK
    <3>4. clients'[owner[q]][c] = IF clients[owner[q]][c] = None THEN q
                                  ELSE clients[owner[q]][c]
      BY <1>0, <3>2, <3>3 DEF ReadJoin, AddClient
    <3>5. RowOf(owner[q], c)
      BY <1>0 DEF Origin
    <3>6. clients[owner[q]][c] \notin States
      BY <1>0, <3>5 DEF RowOf
    <3>7. ASSUME NEW e \in Session, clients[owner[q]][c] = e PROVE e = q
      <4>1. owner[e] = owner[q] /\ owner[peer[e]] = owner[p]
        BY <3>5, <3>7 DEF RowOf
      <4>2. peer[e] \in Session /\ peer[peer[e]] = e
        BY ReplicationAssumption
      <4>3. peer[e] = p
        BY <4>1, <4>2 DEF SoleLink
      <4> QED BY <4>2, <4>3
    <3>8. clients[owner[q]][c] \in States \cup Session \cup {None}
      BY <3>3 DEF Holder
    <3> QED BY <3>4, <3>6, <3>7, <3>8
  <2> QED BY <1>4, <2>1, <2>2, StaysOnWire
<1> QED BY <1>3, <1>4 DEF WillList

\* A join that has just been sent is at the end of the wire.
LEMMA JoinSent ==
    ASSUME NEW p \in Session, NEW c \in Clients, Appended(p, JoinOf(c))
    PROVE  WillList(p, c)'
<1>1. PICK k \in Nat : k = Len(wire[p]) + 1
  BY DEF Appended
<1>2. k \in 1..Len(wire'[p]) /\ Len(wire'[p]) = k /\ wire'[p][k] = JoinOf(c)
  BY <1>1 DEF Appended
<1>3. NoneBehind(p, k, LeaveOf(c))'
  BY <1>1, <1>2 DEF NoneBehind
<1> QED BY <1>2, <1>3 DEF WillList

LEMMA SyncSends ==
    ASSUME TypeOK, NEW p \in Session, NEW m \in left[p], SyncSend(p, m), stage[p] = "open"
    PROVE  Appended(p, m) /\ left'[p] = left[p] \ {m}
<1>1. wire' = Sent(p, m) /\ m \in Message
  BY MessageTypes DEF SyncSend, TypeOK
<1>2. left'[p] = left[p] \ {m}
  BY DEF SyncSend, TypeOK
<1> QED BY <1>1, <1>2, SentFacts DEF Appended

LEMMA NextAnnouncedClient ==
    ASSUME TypeOK, Life, Origin, LeftForGood, WasListed, Announced, [Next]_vars,
           NEW p \in Session, NEW c \in Clients
    PROVE  AnnouncedClient(p, c)'
<1> USE DEF linkVars, tableVars, syncVars, clientVars
<1> SUFFICES ASSUME LinkUp(p)', p \in registered', SoleLink(p), Home[c] = owner[p],
                    Connected(c)'
             PROVE  WillList(p, c)' \/ WillSend(p, c, JoinOf(c))' \/ JoinOf(c) \in left'[p]
  BY DEF AnnouncedClient, SoleLink
<1>t. /\ left \in [Session -> SUBSET Update] /\ sessions \subseteq Session
      /\ turn \in [Clients -> {"out", "changed", "sending", "ready", "gone"}]
      /\ job \in [Clients -> Update]
      /\ sync[p] \in {"idle", "between"} => left[p] = {}
  BY DEF TypeOK
<1>1. CASE p \notin registered
  <2>1. ReadRegister(p) /\ p \in sessions
    BY <1>1, RegisteredFrom
  <2>2. left'[p] = {JoinOf(d) : d \in LocalClients(owner[p])} /\ UNCHANGED clients
    BY <1>t, <2>1 DEF ReadRegister
  <2>3. c \in LocalClients(owner[p])
    BY <2>2 DEF LocalClients, Connected
  <2> QED BY <2>2, <2>3
<1>2. CASE p \in registered
  <2>1. ~Unopened(p) /\ p \notin adding
    BY <1>2 DEF WasListed
  <2>2. LinkUp(p)
    BY <2>1, LinkUpStep DEF Opened, Unopened
  <2>3. stage[p] = "open" /\ p \in sessions
    BY <2>1, <2>2 DEF LinkUp, Life, LifeOf
  <2>4. CASE ~Connected(c)
    <3>1. Accept(c)
      BY <2>4, ConnectedFrom
    <3>2. turn'[c] = "changed" /\ job'[c] = JoinOf(c) /\ sessions' = sessions
      BY <1>t, <3>1 DEF Accept
    <3> QED BY <2>3, <3>2 DEF WillSend
  <2>5. CASE Connected(c) /\ WillList(p, c)
    BY <2>2, <2>5, WillListKept
  <2>6. CASE Connected(c) /\ WillSend(p, c, JoinOf(c))
    <3>1. CASE Forward(c, p)
      <4>1. Appended(p, JoinOf(c))
        BY <2>3, <2>6, <3>1, ForwardSends DEF WillSend
      <4> QED BY <4>1, JoinSent
    <3> QED BY <2>2, <2>6, <3>1, WillSendKept
  <2>7. CASE JoinOf(c) \in left[p]
    <3>1. ASSUME NEW m \in left[p], SyncSend(p, m)
          PROVE  WillList(p, c)' \/ JoinOf(c) \in left'[p]
      <4>1. Appended(p, m) /\ left'[p] = left[p] \ {m}
        BY <2>3, <3>1, SyncSends
      <4> QED BY <2>7, <4>1, JoinSent
    <3>2. ~SyncUnlock(p) /\ ~SyncSubscriptions(p) /\ ~ReadRegister(p)
      BY <1>t, <2>7 DEF SyncUnlock, SyncSubscriptions, ReadRegister, Reads
    <3> QED BY <2>7, <3>1, <3>2, LeftStep
  <2>8. AnnouncedClient(p, c)
    BY DEF Announced
  <2> QED BY <1>2, <2>2, <2>4, <2>5, <2>6, <2>7, <2>8 DEF AnnouncedClient
<1> QED BY <1>1, <1>2

\* While c is subscribed no unsubscribe of c is sent, so the peer of p reads
\* the last request of c, and then it keeps the row.
LEMMA WillHoldKept ==
    ASSUME TypeOK, Life, Origin, SubscriptionOrigin, [Next]_vars, NEW p \in Session,
           NEW c \in Clients, NEW ch \in Channels, LinkUp(p), Home[c] = owner[p],
           Subscribed(c, ch)', WillHold(p, c, ch)
    PROVE  WillHold(p, c, ch)'
<1> DEFINE n == Len(wire[p])
           q == peer[p]
           Held == <<q, c, ch>> \in subscriptions[owner[q]]
<1>0. /\ q \in Session /\ peer[q] = p /\ owner[q] \in States /\ q \notin States
      /\ stage[q] \in {"handshake", "open"}
      /\ SubLeftOf(p, c, ch)
  BY ReplicationAssumption DEF SubscriptionOrigin, LinkUp
<1>k. Held => <<q, c, ch>> \in subscriptions'[owner[q]] \/ ReadUnsubscribe(q, c, ch)
  <2>1. ~PurgeSubscriptions(q)
    BY <1>0 DEF PurgeSubscriptions
  <2> QED BY <1>0, <2>1, SubRowGone
<1>1. CASE wire'[p] = wire[p]
  <2>1. ~ReadUnsubscribe(q, c, ch)
    <3> SUFFICES ASSUME Reads(q, UnsubscribeOf(c, ch)) PROVE FALSE
      BY DEF ReadUnsubscribe
    <3>1. n \in Nat \ {0} /\ Len(wire'[p]) = n - 1
      BY <1>0, ReadsFacts
    <3> QED BY <1>1, <3>1
  <2> QED BY <1>1, <1>k, <2>1 DEF WillHold, NoneBehind
<1>2. ASSUME NEW m, Appended(p, m), m /= UnsubscribeOf(c, ch)
      PROVE  WillHold(p, c, ch)'
  <2>1. n \in Nat /\ Len(wire'[p]) = n + 1 /\ wire'[p][n + 1] = m
        /\ \A i \in 1..n : wire'[p][i] = wire[p][i]
    BY <1>2 DEF Appended
  <2>2. ASSUME NEW i \in Nat, NoneBehind(p, i, UnsubscribeOf(c, ch))
        PROVE  NoneBehind(p, i, UnsubscribeOf(c, ch))'
    <3> SUFFICES ASSUME NEW j \in 1..Len(wire'[p]), j > i
                 PROVE  wire'[p][j] /= UnsubscribeOf(c, ch)
      BY DEF NoneBehind
    <3>1. j = n + 1 \/ j \in 1..n
      BY <2>1
    <3>2. CASE j \in 1..n
      BY <2>1, <2>2, <3>2 DEF NoneBehind
    <3> QED BY <1>2, <2>1, <3>1, <3>2
  <2>3. CASE Held /\ NoneBehind(p, 0, UnsubscribeOf(c, ch))
    <3>1. ~ReadUnsubscribe(q, c, ch)
      <4> SUFFICES ASSUME Reads(q, UnsubscribeOf(c, ch)) PROVE FALSE
        BY DEF ReadUnsubscribe
      <4> QED BY <1>0, <2>1, ReadsFacts
    <3> QED BY <1>k, <2>2, <2>3, <3>1 DEF WillHold
  <2>4. ASSUME NEW i \in 1..n, wire[p][i] = SubscribeOf(c, ch),
               NoneBehind(p, i, UnsubscribeOf(c, ch))
        PROVE  WillHold(p, c, ch)'
    <3>1. i \in 1..Len(wire'[p]) /\ i \in Nat /\ wire'[p][i] = SubscribeOf(c, ch)
      BY <2>1, <2>4
    <3> QED BY <2>2, <2>4, <3>1 DEF WillHold
  <2> QED BY <2>3, <2>4 DEF WillHold
<1>3. ASSUME NEW d \in Clients, Forward(d, p), Appended(p, job[d])
      PROVE  WillHold(p, c, ch)'
  <2>1. JobOf(d) /\ turn[d] = "sending" /\ UNCHANGED subscriptions
    BY <1>3 DEF Origin, Forward, tableVars
  <2>2. job[d] /= UnsubscribeOf(c, ch)
    <3> SUFFICES ASSUME job[d] = UnsubscribeOf(c, ch) PROVE FALSE
      OBVIOUS
    <3>1. d = c
      BY <2>1 DEF JobOf, UnsubscribeOf
    <3> QED BY <2>1, <3>1 DEF SubscriptionOrigin, SubJobOf, Subscribed
  <2> QED BY <1>2, <1>3, <2>2
<1>4. ASSUME NEW m \in left[p], SyncSend(p, m), Appended(p, m)
      PROVE  WillHold(p, c, ch)'
  BY <1>0, <1>2, <1>4 DEF SubLeftOf
<1>5. ASSUME Appended(p, RegisterRequest)
      PROVE  WillHold(p, c, ch)'
  BY <1>2, <1>5, DistinctSub
<1>6. ASSUME Taken(p), Read(q)
      PROVE  WillHold(p, c, ch)'
  <2>1. /\ n \in Nat \ {0} /\ Len(wire'[p]) = n - 1
        /\ \A i \in 1..(n - 1) : wire'[p][i] = wire[p][i + 1]
    BY <1>6 DEF Taken
  <2>2. ASSUME NEW i \in Nat, NEW k \in Nat, k <= i + 1,
               NoneBehind(p, k, UnsubscribeOf(c, ch))
        PROVE  NoneBehind(p, i, UnsubscribeOf(c, ch))'
    <3> SUFFICES ASSUME NEW j \in 1..Len(wire'[p]), j > i
                 PROVE  wire'[p][j] /= UnsubscribeOf(c, ch)
      BY DEF NoneBehind
    <3>1. j \in 1..(n - 1) /\ j + 1 \in 1..n /\ j + 1 > k
      BY <2>1, <2>2
    <3> QED BY <2>1, <2>2, <3>1 DEF NoneBehind
  <2>3. \A m : Reads(q, m) => m = wire[p][1]
    BY <1>6 DEF Taken, Reads
  <2>4. CASE Held /\ NoneBehind(p, 0, UnsubscribeOf(c, ch))
    <3>1. wire[p][1] /= UnsubscribeOf(c, ch)
      BY <2>1, <2>4 DEF NoneBehind
    <3>2. ~ReadUnsubscribe(q, c, ch)
      BY <2>3, <3>1 DEF ReadUnsubscribe
    <3> QED BY <1>k, <2>2, <2>4, <3>2 DEF WillHold
  <2>5. ASSUME NEW i \in 1..n, wire[p][i] = SubscribeOf(c, ch),
               NoneBehind(p, i, UnsubscribeOf(c, ch))
        PROVE  WillHold(p, c, ch)'
    <3>1. CASE i = 1
      <4>1. \A m : Reads(q, m) => m = SubscribeOf(c, ch)
        BY <2>3, <2>5, <3>1
      <4>2. ReadSubscribe(q, c, ch)
        BY <1>6, <4>1 DEF Read, ReadJoin, ReadLeave, ReadSubscribe, ReadUnsubscribe,
           ReadRegister, JoinOf, LeaveOf, SubscribeOf, UnsubscribeOf, RegisterRequest
      <4>3. <<q, c, ch>> \in subscriptions'[owner[q]]
        BY <1>0, <4>2 DEF ReadSubscribe, AddSubscription, TypeOK
      <4> QED BY <2>2, <2>5, <3>1, <4>3 DEF WillHold
    <3>2. CASE i /= 1
      <4>1. i - 1 \in 1..(n - 1) /\ i - 1 \in Nat /\ (i - 1) + 1 = i /\ i \in Nat
        BY <2>1, <3>2
      <4>2. wire'[p][i - 1] = SubscribeOf(c, ch) /\ i - 1 \in 1..Len(wire'[p])
        BY <2>1, <2>5, <4>1
      <4>3. NoneBehind(p, i - 1, UnsubscribeOf(c, ch))'
        BY <2>2, <2>5, <4>1
      <4> QED BY <4>2, <4>3 DEF WillHold
    <3> QED BY <3>1, <3>2
  <2> QED BY <2>4, <2>5 DEF WillHold
<1> QED BY <1>1, <1>3, <1>4, <1>5, <1>6, WireStep

\* A request that has just been sent is at the end of the wire.
LEMMA SubscribeSent ==
    ASSUME NEW p \in Session, NEW c \in Clients, NEW ch \in Channels,
           Appended(p, SubscribeOf(c, ch))
    PROVE  WillHold(p, c, ch)'
<1>1. PICK k \in Nat : k = Len(wire[p]) + 1
  BY DEF Appended
<1>2. k \in 1..Len(wire'[p]) /\ Len(wire'[p]) = k /\ wire'[p][k] = SubscribeOf(c, ch)
  BY <1>1 DEF Appended
<1>3. NoneBehind(p, k, UnsubscribeOf(c, ch))'
  BY <1>1, <1>2 DEF NoneBehind
<1> QED BY <1>2, <1>3 DEF WillHold

LEMMA NextAnnouncedSubscription ==
    ASSUME TypeOK, Life, Origin, SubscriptionOrigin, WasListed, Announced, [Next]_vars,
           NEW p \in Session, NEW c \in Clients, NEW ch \in Channels
    PROVE  AnnouncedSubscription(p, c, ch)'
<1> USE DEF linkVars, tableVars, syncVars, clientVars
<1> SUFFICES ASSUME LinkUp(p)', p \in registered', sync'[p] \in {"idle", "subscriptions"},
                    Home[c] = owner[p], Subscribed(c, ch)'
             PROVE  \/ WillHold(p, c, ch)'
                    \/ WillSend(p, c, SubscribeOf(c, ch))'
                    \/ SubscribeOf(c, ch) \in left'[p]
  BY DEF AnnouncedSubscription
<1>t. /\ left \in [Session -> SUBSET Update] /\ sessions \subseteq Session
      /\ sync \in [Session -> {"idle", "clients", "between", "subscriptions"}]
      /\ turn \in [Clients -> {"out", "changed", "sending", "ready", "gone"}]
      /\ job \in [Clients -> Update]
      /\ sync[p] \in {"idle", "between"} => left[p] = {}
  BY DEF TypeOK
<1>1. ~ReadRegister(p) \/ p \notin sessions
  BY <1>t DEF ReadRegister
<1>2. p \in registered
  BY <1>1, RegisteredFrom
<1>3. ~Unopened(p) /\ p \notin adding
  BY <1>2 DEF WasListed
<1>4. LinkUp(p)
  BY <1>3, LinkUpStep DEF Opened, Unopened
<1>5. stage[p] = "open" /\ p \in sessions
  BY <1>3, <1>4 DEF LinkUp, Life, LifeOf
<1>6. CASE ~Subscribed(c, ch)
  <2>1. Subscribe(c, ch)
    BY <1>6, SubscribedStep
  <2>2. turn'[c] = "changed" /\ job'[c] = SubscribeOf(c, ch) /\ sessions' = sessions
    BY <1>t, <2>1 DEF Subscribe
  <2> QED BY <1>5, <2>2 DEF WillSend
<1>7. CASE SyncSubscriptions(p)
  <2>1. /\ left'[p] = {SubscribeOf(r[2], r[3]) :
                          r \in {x \in subscriptions[owner[p]] : x[1] = owner[p]}}
        /\ UNCHANGED subscriptions
    BY <1>t, <1>7 DEF SyncSubscriptions
  <2>2. <<owner[p], c, ch>> \in subscriptions[owner[p]]
    BY <2>1 DEF Subscribed
  <2>3. /\ <<owner[p], c, ch>>[1] = owner[p] /\ <<owner[p], c, ch>>[2] = c
        /\ <<owner[p], c, ch>>[3] = ch
    OBVIOUS
  <2> QED BY <2>1, <2>2, <2>3
<1>8. CASE Subscribed(c, ch) /\ ~SyncSubscriptions(p)
  <2>1. CASE WillHold(p, c, ch)
    BY <1>4, <2>1, WillHoldKept
  <2>2. CASE WillSend(p, c, SubscribeOf(c, ch))
    <3>1. CASE Forward(c, p)
      <4>1. Appended(p, SubscribeOf(c, ch))
        BY <1>5, <2>2, <3>1, ForwardSends DEF WillSend
      <4> QED BY <4>1, SubscribeSent
    <3> QED BY <1>4, <2>2, <3>1, WillSendKept
  <2>3. CASE SubscribeOf(c, ch) \in left[p]
    <3>1. ASSUME NEW m \in left[p], SyncSend(p, m)
          PROVE  WillHold(p, c, ch)' \/ SubscribeOf(c, ch) \in left'[p]
      <4>1. Appended(p, m) /\ left'[p] = left[p] \ {m}
        BY <1>5, <3>1, SyncSends
      <4> QED BY <2>3, <4>1, SubscribeSent
    <3>2. ~SyncUnlock(p)
      BY <2>3 DEF SyncUnlock
    <3> QED BY <1>1, <1>8, <2>3, <3>1, <3>2, LeftStep
  <2>4. sync[p] \in {"idle", "subscriptions"}
    BY <1>t, <1>1, <1>8, LeftStep DEF SyncSend, SyncUnlock, SubLeftOf
  <2>5. AnnouncedSubscription(p, c, ch)
    BY DEF Announced
  <2> QED BY <1>2, <1>4, <1>8, <2>1, <2>2, <2>3, <2>4, <2>5 DEF AnnouncedSubscription
<1> QED BY <1>6, <1>7, <1>8

-----------------------------------------------------------------------------
(* The theorems.                                                           *)

LEMMA InitKnown == Init => KnownInv
<1> SUFFICES ASSUME Init PROVE KnownInv
  OBVIOUS
<1>1. ASSUME NEW p \in Session PROVE ~LinkUp(p)
  BY DEF Init, LinkUp
<1>2. NoGhostSubscription /\ Announced
  BY <1>1 DEF NoGhostSubscription, Announced, AnnouncedClient, AnnouncedSubscription
<1> QED BY <1>2, InitIInv, InitSubOrigin, InitLeftForGood DEF KnownInv

LEMMA NextKnown == KnownInv /\ [Next]_vars => KnownInv'
<1> SUFFICES ASSUME IInv, SubscriptionOrigin, NoGhostSubscription, LeftForGood,
                    NotBefore, WasListed, Announced, [Next]_vars
             PROVE  KnownInv'
  BY DEF KnownInv
<1>1. TypeOK /\ Life /\ Origin
  BY DEF IInv
<1>2. IInv'
  BY NextIInv
<1>3. SubscriptionOrigin' /\ NoGhostSubscription'
  BY <1>1, NextSubOrigin, NextNoGhostSubscription
<1>4. LeftForGood' /\ NotBefore' /\ WasListed'
  BY <1>1, NextLeftForGood, NextNotBefore, NextWasListed
<1>5. Announced'
  BY <1>1, NextAnnouncedClient, NextAnnouncedSubscription DEF Announced
<1> QED BY <1>2, <1>3, <1>4, <1>5 DEF KnownInv

LEMMA KnownInductive == Spec => []KnownInv
BY InitKnown, NextKnown, PTL DEF Spec

(* No ghost subscriptions: what a state is going to put down over a        *)
(* working link, its peer has in its own table, or the unsubscribe is      *)
(* about to be sent over that very link (subscribe_handler and             *)
(* unsubscribe_handler pass on in the order of the client's strand, sync   *)
(* repeats the rows under the lock of subscriptions_).                     *)
THEOREM SubscriptionGhostFree == Spec => []NoGhostSubscription
<1>1. KnownInv => NoGhostSubscription
  BY DEF KnownInv
<1> QED BY <1>1, KnownInductive, PTL

(* Once register_handler has synced a session, the state behind it is      *)
(* going to list every client that is connected here, whether add_client   *)
(* came before sync read the table or after: join_to_sessions and sync     *)
(* together leave no gap.                                                  *)
THEOREM NobodyForgotten == Spec => []ClientsKnown
<1>1. KnownInv => ClientsKnown
  <2> SUFFICES ASSUME KnownInv, NEW p \in Session, NEW c \in Clients, LinkUp(p), Synced(p),
                      SoleLink(p), Home[c] = owner[p], Connected(c)
               PROVE  WillList(p, c) \/ WillSend(p, c, JoinOf(c))
    BY DEF ClientsKnown
  <2>1. AnnouncedClient(p, c) /\ left[p] = {}
    BY DEF KnownInv, IInv, TypeOK, Announced, Synced
  <2> QED BY <2>1 DEF AnnouncedClient, Synced
<1> QED BY <1>1, KnownInductive, PTL

(* The same for subscriptions, over any number of links of the pair.       *)
THEOREM NoSubscriptionForgotten == Spec => []SubscriptionsKnown
<1>1. KnownInv => SubscriptionsKnown
  <2> SUFFICES ASSUME KnownInv, NEW p \in Session, NEW c \in Clients, NEW ch \in Channels,
                      LinkUp(p), Synced(p), Home[c] = owner[p], Subscribed(c, ch)
               PROVE  WillHold(p, c, ch) \/ WillSend(p, c, SubscribeOf(c, ch))
    BY DEF SubscriptionsKnown
  <2>1. AnnouncedSubscription(p, c, ch) /\ left[p] = {}
    BY DEF KnownInv, IInv, TypeOK, Announced, Synced
  <2> QED BY <2>1 DEF AnnouncedSubscription, Synced
<1> QED BY <1>1, KnownInductive, PTL

-----------------------------------------------------------------------------
(* The tables at rest.                                                     *)

(* When nothing is under way, the two ends of a link that works and has     *)
(* been synced agree on the clients and the subscriptions of the end that   *)
(* accepted it: what sync, join, leave, subscribe and unsubscribe leave     *)
(* behind is right, in whatever order they ran.  (That they come to rest is *)
(* the other half of Converges.)                                            *)
AgreedAtRest ==
    Quiet => \A p \in Session : LinkUp(p) /\ p \in registered /\ SoleLink(p) => Agree(p)

THEOREM TablesAgreeAtRest == Spec => []AgreedAtRest
<1>1. NoGhost /\ NoGhostSubscription /\ ClientsKnown /\ SubscriptionsKnown => AgreedAtRest
  <2> SUFFICES ASSUME NoGhost, NoGhostSubscription, ClientsKnown, SubscriptionsKnown, Quiet,
                      NEW p \in Session, LinkUp(p), p \in registered, SoleLink(p),
                      NEW c \in Clients, Home[c] = owner[p]
               PROVE  /\ Connected(c) <=> clients[owner[peer[p]]][c] = peer[p]
                      /\ \A ch \in Channels : Subscribed(c, ch) <=>
                            <<peer[p], c, ch>> \in subscriptions[owner[peer[p]]]
    BY DEF AgreedAtRest, Agree
  <2>1. wire[p] = <<>> /\ Synced(p)
    BY DEF Quiet, Synced
  <2>2. 1..Len(wire[p]) = {}
    BY <2>1
  <2>3. \A m : ~WillSend(p, c, m)
    BY DEF Quiet, WillSend
  <2>4. WillList(p, c) <=> clients[owner[peer[p]]][c] = peer[p]
    BY <2>2 DEF WillList, NoneBehind
  <2>5. Connected(c) <=> WillList(p, c)
    BY <2>1, <2>3 DEF NoGhost, ClientsKnown
  <2>6. ASSUME NEW ch \in Channels
        PROVE  Subscribed(c, ch) <=> <<peer[p], c, ch>> \in subscriptions[owner[peer[p]]]
    <3>1. WillHold(p, c, ch) <=> <<peer[p], c, ch>> \in subscriptions[owner[peer[p]]]
      BY <2>2 DEF WillHold, NoneBehind
    <3>2. Subscribed(c, ch) <=> WillHold(p, c, ch)
      BY <2>1, <2>3 DEF NoGhostSubscription, SubscriptionsKnown
    <3> QED BY <3>1, <3>2
  <2> QED BY <2>4, <2>5, <2>6
<1> QED BY <1>1, GhostFree, SubscriptionGhostFree, NobodyForgotten, NoSubscriptionForgotten, PTL

-----------------------------------------------------------------------------
(* The tables of clients implement Directory.                              *)

Came == {c \in Clients : turn[c] /= "out"}
Over == {e \in Session : stage[e] \in {"ended", "purging", "released"}}

LEMMA DirectoryInit == Init => Clientele!Init
<1> SUFFICES ASSUME Init PROVE Clientele!Init
  OBVIOUS
<1>1. Came = {} /\ Over = {}
  BY DEF Init, Came, Over
<1> QED BY <1>1 DEF Init, Came, Over, Clientele!Init

\* A step that neither lets a client come, nor ends a session, nor changes a
\* row is none of Directory.
LEMMA DirectoryStutter ==
    ASSUME Came' = Came, clients' = clients, Over' = Over
    PROVE  UNCHANGED Clientele!vars
BY DEF Clientele!vars, Came, Over

\* Everything c can do but come and go leaves Directory alone.
LEMMA DirectoryThread ==
    ASSUME KnownInv, NEW c \in Clients, ClientRequest(c) \/ PassOn(c)
    PROVE  [Clientele!Next]_(Clientele!vars)
<1> USE DEF linkVars, tableVars, syncVars, clientVars
<1>t. /\ turn \in [Clients -> {"out", "changed", "sending", "ready", "gone"}]
      /\ clients \in [States -> [Clients -> Holder \cup {None}]]
      /\ Home[c] \in States /\ JobOf(c)
  BY OwnerPeerType DEF KnownInv, IInv, TypeOK, Origin
<1>1. UNCHANGED stage => Over' = Over
  BY DEF Over
<1>2. ASSUME turn[c] /= "out", turn'[c] /= "out", turn' = [turn EXCEPT ![c] = turn'[c]]
      PROVE  Came' = Came
  BY <1>t, <1>2 DEF Came
<1>3. CASE Accept(c)
  <2>1. Came' = Came \cup {c} /\ c \notin Came
    BY <1>t, <1>3 DEF Accept, Came
  <2>2. clients[Home[c]][c] = None
    <3>1. RowOf(Home[c], c) /\ clients[Home[c]][c] /= Home[c]
      BY <1>t, <1>3 DEF KnownInv, IInv, Origin, NotBefore, Accept, Connected
    <3>2. \A e \in Session : owner[peer[e]] /= owner[e]
      BY ReplicationAssumption
    <3> QED BY <1>t, <3>1, <3>2 DEF RowOf, Holder
  <2>3. clients' = [clients EXCEPT ![Home[c]] = [clients[Home[c]] EXCEPT ![c] = Home[c]]]
    BY <1>3, <2>2 DEF Accept, AddClient
  <2>4. Clientele!Come(c)
    BY <1>1, <1>3, <2>1, <2>3 DEF Accept, Clientele!Come, Came, Over
  <2> QED BY <2>4 DEF Clientele!Next
<1>4. CASE Leave(c)
  <2>1. Came' = Came
    BY <1>t, <1>2, <1>4 DEF Leave
  <2>2. clients[Home[c]][c] = Home[c]
    BY <1>t, <1>4 DEF Leave, JobOf, Connected
  <2>3. Clientele!Go(c)
    BY <1>1, <1>4, <2>1, <2>2 DEF Leave, RemoveClient, Clientele!Go, Came, Over
  <2> QED BY <2>3 DEF Clientele!Next
<1>5. ASSUME NEW ch \in Channels, Subscribe(c, ch) \/ Unsubscribe(c, ch)
      PROVE  [Clientele!Next]_(Clientele!vars)
  <2>1. Came' = Came /\ UNCHANGED <<clients, stage>>
    BY <1>t, <1>2, <1>5 DEF Subscribe, Unsubscribe
  <2> QED BY <1>1, <2>1, DirectoryStutter
<1>6. CASE PassOn(c)
  <2>1. Came' = Came /\ UNCHANGED <<clients, stage>>
    BY <1>t, <1>2, <1>6 DEF PassOn, GetSessions, Forward, Forwarded, Came
  <2> QED BY <1>1, <2>1, DirectoryStutter
<1> QED BY <1>3, <1>4, <1>5, <1>6 DEF ClientRequest

\* A session that is opened or run changes nothing, one that fails is over.
LEMMA DirectoryLink ==
    ASSUME KnownInv, NEW e \in Session, Open(e) \/ Fail(e) \/ ReadFailed(e)
    PROVE  [Clientele!Next]_(Clientele!vars)
<1> USE DEF linkVars, tableVars, syncVars, clientVars
<1>t. stage \in [Session -> Stages]
  BY DEF KnownInv, IInv, TypeOK
<1>1. Came' = Came /\ clients' = clients
  BY DEF Open, Fail, Connect, AddSession, AcceptSession, Opened, HandshakeFailed,
     Disconnect, ReadFailed, Came
<1>2. CASE HandshakeFailed(e) \/ ReadFailed(e)
  <2>1. Over' = Over \cup {e} /\ e \notin Over
    BY <1>t, <1>2 DEF HandshakeFailed, ReadFailed, Over
  <2>2. Clientele!End(e)
    BY <1>1, <2>1 DEF Clientele!End, Came, Over
  <2> QED BY <2>2 DEF Clientele!Next
<1>3. CASE Open(e) \/ Disconnect(e)
  <2>1. Over' = Over
    BY <1>t, <1>3 DEF Open, Connect, AddSession, AcceptSession, Opened, Disconnect, Over
  <2> QED BY <1>1, <2>1, DirectoryStutter
<1> QED BY <1>2, <1>3 DEF Fail

\* remove_state_of_session drops what was learnt over a link that is over.
LEMMA DirectoryDestroy ==
    ASSUME KnownInv, NEW e \in Session, Destroy(e)
    PROVE  [Clientele!Next]_(Clientele!vars)
<1> USE DEF linkVars, tableVars, syncVars, clientVars
<1>t. /\ stage \in [Session -> Stages] /\ owner[e] \in States /\ e /= None
      /\ clients \in [States -> [Clients -> Holder \cup {None}]]
  BY ReplicationAssumption DEF KnownInv, IInv, TypeOK
<1>1. Came' = Came /\ Over' = Over
  BY <1>t DEF Destroy, PurgeClients, PurgeSubscriptions, Came, Over
<1>2. CASE PurgeClients(e)
  <2> DEFINE s == owner[e]
             lost == {c \in Clients : clients[s][c] = e}
  <2>1. clients' = [clients EXCEPT ![s] =
                       [c \in Clients |-> IF c \in lost THEN None ELSE clients[s][c]]]
    BY <1>2 DEF PurgeClients
  <2>2. CASE lost = {}
    <3>1. [c \in Clients |-> IF c \in lost THEN None ELSE clients[s][c]] = clients[s]
      BY <1>t, <2>2
    <3>2. clients' = clients
      BY <1>t, <2>1, <3>1
    <3> QED BY <1>1, <3>2, DirectoryStutter
  <2>3. CASE lost /= {}
    <3>1. e \in Over
      BY <1>2 DEF PurgeClients, Over
    <3>2. ASSUME NEW c \in lost PROVE s /= Home[c] /\ clients[s][c] /= None
      <4>1. RowOf(s, c) /\ owner[peer[e]] /= s
        BY <1>t, ReplicationAssumption DEF KnownInv, IInv, Origin
      <4> QED BY <1>t, <4>1 DEF RowOf
    <3>3. Clientele!Forget(s, lost)
      BY <1>1, <2>1, <2>3, <3>1, <3>2 DEF Clientele!Forget, Clientele!Stale, Came, Over
    <3>4. lost \in SUBSET Clients
      OBVIOUS
    <3> QED BY <1>t, <3>3, <3>4 DEF Clientele!Next
  <2> QED BY <2>2, <2>3
<1>3. CASE PurgeSubscriptions(e)
  BY <1>1, <1>3, DirectoryStutter DEF PurgeSubscriptions
<1> QED BY <1>2, <1>3 DEF Destroy

\* A join is learnt of if there is no row, and a leave takes away the row of
\* a client that has left.
LEMMA DirectoryRead ==
    ASSUME KnownInv, NEW e \in Session, Read(e)
    PROVE  [Clientele!Next]_(Clientele!vars)
<1> USE DEF linkVars, tableVars, syncVars, clientVars
<1> DEFINE s == owner[e]
           p == peer[e]
<1>t. /\ TypeOK /\ clients \in [States -> [Clients -> Holder \cup {None}]]
      /\ s \in States /\ p \in Session /\ owner[p] /= s /\ WireOf(p)
      /\ clients[s] \in [Clients -> Holder \cup {None}]
  BY ReplicationAssumption DEF KnownInv, IInv, TypeOK, Origin
<1>1. Came' = Came /\ Over' = Over
  BY DEF Read, ReadJoin, ReadLeave, ReadSubscribe, ReadUnsubscribe, ReadRegister, Reads,
     Came, Over
<1>2. ASSUME NEW c \in Clients, ReadJoin(e, c) PROVE [Clientele!Next]_(Clientele!vars)
  <2>1. 1 \in 1..Len(wire[p]) /\ wire[p][1] = JoinOf(c) /\ stage[e] = "open"
    BY <1>t, <1>2, ReadsFacts DEF ReadJoin
  <2>2. Home[c] = owner[p] /\ c \in Came /\ e \notin Over
    BY <1>t, <2>1 DEF WireOf, KnownInv, NotBefore, Came, Over
  <2>3. CASE clients[s][c] = None
    <3>1. clients' = [clients EXCEPT ![s] = [clients[s] EXCEPT ![c] = e]]
      BY <1>2, <2>3 DEF ReadJoin, AddClient
    <3>2. Clientele!Learn(e, c)
      BY <1>1, <2>2, <2>3, <3>1 DEF Clientele!Learn, Came, Over
    <3> QED BY <3>2 DEF Clientele!Next
  <2>4. CASE clients[s][c] /= None
    <3>1. clients' = [clients EXCEPT ![s] = [clients[s] EXCEPT ![c] = clients[s][c]]]
      BY <1>2, <2>4 DEF ReadJoin, AddClient
    <3>2. clients' = clients
      BY <1>t, <3>1
    <3> QED BY <1>1, <3>2, DirectoryStutter
  <2> QED BY <2>3, <2>4
<1>3. ASSUME NEW c \in Clients, ReadLeave(e, c) PROVE [Clientele!Next]_(Clientele!vars)
  <2>1. 1 \in 1..Len(wire[p]) /\ wire[p][1] = LeaveOf(c)
    BY <1>t, <1>3, ReadsFacts DEF ReadLeave
  <2>2. Home[c] = owner[p] /\ HasLeft(c) /\ Home[c] \in States
    BY <1>t, <2>1, OwnerPeerType DEF WireOf, KnownInv, LeftForGood
  <2>3. clients[Home[c]][c] = None
    <3>1. RowOf(Home[c], c) /\ clients[Home[c]][c] /= Home[c]
      BY <2>2 DEF KnownInv, IInv, Origin, LeftForGood, Connected
    <3>2. \A f \in Session : owner[peer[f]] /= owner[f]
      BY ReplicationAssumption
    <3> QED BY <1>t, <2>2, <3>1, <3>2 DEF RowOf, Holder
  <2>4. c \in Came
    BY <2>2 DEF HasLeft, Came
  <2>5. clients' = [clients EXCEPT ![s] = [clients[s] EXCEPT ![c] = None]]
    BY <1>3 DEF ReadLeave, RemoveClient
  <2>6. CASE clients[s][c] = None
    <3>1. clients' = clients
      BY <1>t, <2>5, <2>6
    <3> QED BY <1>1, <3>1, DirectoryStutter
  <2>7. CASE clients[s][c] /= None
    <3>1. [clients[s] EXCEPT ![c] = None] =
             [d \in Clients |-> IF d \in {c} THEN None ELSE clients[s][d]]
      BY <1>t
    <3>2. Clientele!Forget(s, {c})
      BY <1>1, <1>t, <2>2, <2>3, <2>4, <2>5, <2>7, <3>1
      DEF Clientele!Forget, Clientele!Stale, Clientele!Left, Came, Over
    <3> QED BY <1>t, <3>2 DEF Clientele!Next
  <2> QED BY <2>6, <2>7
<1>4. CASE UNCHANGED clients
  BY <1>1, <1>4, DirectoryStutter
<1> QED BY <1>2, <1>3, <1>4 DEF Read, ReadSubscribe, ReadUnsubscribe, ReadRegister

LEMMA DirectoryStep ==
    ASSUME KnownInv, [Next]_vars
    PROVE  [Clientele!Next]_(Clientele!vars)
<1>1. ASSUME NEW e \in Session, Sync(e) PROVE [Clientele!Next]_(Clientele!vars)
  <2>1. Came' = Came /\ clients' = clients /\ Over' = Over
    BY <1>1 DEF Sync, SyncSend, SyncUnlock, SyncSubscriptions, linkVars, tableVars,
       clientVars, Came, Over
  <2> QED BY <2>1, DirectoryStutter
<1>2. CASE UNCHANGED vars
  <2>1. Came' = Came /\ clients' = clients /\ Over' = Over
    BY <1>2 DEF vars, Came, Over
  <2> QED BY <2>1, DirectoryStutter
<1> QED BY <1>1, <1>2, DirectoryThread, DirectoryLink, DirectoryDestroy, DirectoryRead DEF Next

(* The tables of clients implement Directory: a state learns of a client   *)
(* only after it connected and only over a link to its own state, add_client*)
(* never moves a row from one session to another, and a row goes only if   *)
(* its client has left (leave_handler) or its link is over                 *)
(* (remove_state_of_session).                                              *)
THEOREM ImplementsDirectory == Spec => IsDirectory
<1>1. KnownInv /\ [Next]_vars => [Clientele!Next]_(Clientele!vars)
  BY DirectoryStep
<1> QED BY <1>1, DirectoryInit, KnownInductive, PTL DEF Spec, IsDirectory, Clientele!Spec
=============================================================================
