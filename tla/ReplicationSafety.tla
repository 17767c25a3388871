-------------------------- MODULE ReplicationSafety -------------------------
(***************************************************************************)
(* What holds of Replication in every reachable state, for any states,     *)
(* links, clients and channels: everything keeps its type, session objects *)
(* are listed and destroyed at the right time, no row outlives its         *)
(* session, and there are no ghosts.                                       *)
(*                                                                         *)
(* NoGhost is not inductive.  It needs to know where every row and every   *)
(* message comes from (Origin), which in turn needs to know that nothing   *)
(* passes through a session that is not open or not yet listed (Life).     *)
(***************************************************************************)
EXTENDS Replication, SequenceTheorems, TLAPS

-----------------------------------------------------------------------------
(* Types.                                                                  *)

LEMMA UpdateTypes ==
    ASSUME NEW c \in Clients
    PROVE  /\ JoinOf(c) \in Update /\ LeaveOf(c) \in Update
           /\ \A ch \in Channels :
                 SubscribeOf(c, ch) \in Update /\ UnsubscribeOf(c, ch) \in Update
BY DEF Update, JoinOf, LeaveOf, SubscribeOf, UnsubscribeOf

LEMMA MessageTypes == RegisterRequest \in Message /\ Update \subseteq Message
BY DEF Message

LEMMA OwnerPeerType ==
    /\ \A e \in Session : owner[e] \in States /\ peer[e] \in Session
    /\ \A c \in Clients : Home[c] \in States
    /\ States \subseteq Holder /\ Session \subseteq Holder
BY ReplicationAssumption DEF Holder

\* What the operations on the tables leave of their types.
LEMMA AddClientType ==
    ASSUME TypeOK, NEW s \in States, NEW c \in Clients, NEW id \in Holder,
           AddClient(s, c, id)
    PROVE  clients' \in [States -> [Clients -> Holder \cup {None}]]
<1> DEFINE row == [clients[s] EXCEPT ![c] =
                      IF clients[s][c] = None THEN id ELSE clients[s][c]]
<1>1. clients[s] \in [Clients -> Holder \cup {None}]
  BY DEF TypeOK
<1>2. row \in [Clients -> Holder \cup {None}]
  BY <1>1
<1>3. clients' = [clients EXCEPT ![s] = row]
  BY DEF AddClient
<1> QED BY <1>2, <1>3 DEF TypeOK

LEMMA RemoveClientType ==
    ASSUME TypeOK, NEW s \in States, NEW c \in Clients, RemoveClient(s, c)
    PROVE  clients' \in [States -> [Clients -> Holder \cup {None}]]
BY DEF TypeOK, RemoveClient

LEMMA AddSubscriptionType ==
    ASSUME TypeOK, NEW s \in States, NEW c \in Clients, NEW ch \in Channels,
           NEW id \in Holder, AddSubscription(s, id, c, ch)
    PROVE  subscriptions' \in [States -> SUBSET (Holder \X Clients \X Channels)]
BY DEF TypeOK, AddSubscription

LEMMA RemoveSubscriptionType ==
    ASSUME TypeOK, NEW s \in States, NEW c \in Clients, NEW ch \in Channels,
           NEW id \in Holder, RemoveSubscription(s, id, c, ch)
    PROVE  subscriptions' \in [States -> SUBSET (Holder \X Clients \X Channels)]
BY DEF TypeOK, RemoveSubscription

LEMMA SentType ==
    ASSUME TypeOK, NEW e \in Session, NEW m \in Message
    PROVE  Sent(e, m) \in [Session -> Seq(Message)]
<1>1. Append(wire[e], m) \in Seq(Message)
  BY AppendProperties DEF TypeOK
<1> QED BY <1>1 DEF TypeOK, Sent

LEMMA ReadsType ==
    ASSUME TypeOK, NEW e \in Session, NEW m, Reads(e, m)
    PROVE  /\ wire' \in [Session -> Seq(Message)]
           /\ m \in Message
<1>1. peer[e] \in Session /\ wire[peer[e]] \in Seq(Message) /\ wire[peer[e]] /= <<>>
  BY OwnerPeerType DEF TypeOK, Reads
<1>2. Tail(wire[peer[e]]) \in Seq(Message) /\ Head(wire[peer[e]]) \in Message
  BY <1>1, HeadTailProperties
<1> QED BY <1>2 DEF TypeOK, Reads

LEMMA InitType == Init => TypeOK
<1> SUFFICES ASSUME Init PROVE TypeOK
  OBVIOUS
<1>1. 0 \in 0..MaxRequests
  BY ReplicationAssumption
<1>2. <<>> \in Seq(Message)
  OBVIOUS
<1> QED
  BY <1>1, <1>2, UpdateTypes, ReplicationAssumption DEF Init, TypeOK, Stages, Seeds

LEMMA ClientRequestType ==
    ASSUME TypeOK, NEW c \in Clients, ClientRequest(c)
    PROVE  TypeOK'
<1> USE DEF linkVars, tableVars, syncVars, clientVars
<1>0. Home[c] \in States /\ Home[c] \in Holder
  BY OwnerPeerType
<1>1. CASE Accept(c)
  <2>1. clients' \in [States -> [Clients -> Holder \cup {None}]]
    BY <1>0, <1>1, AddClientType DEF Accept
  <2> QED BY <1>1, <2>1, UpdateTypes DEF TypeOK, Accept
<1>2. CASE Leave(c)
  <2>1. clients' \in [States -> [Clients -> Holder \cup {None}]]
    BY <1>0, <1>2, RemoveClientType DEF Leave
  <2> QED BY <1>2, <2>1, UpdateTypes DEF TypeOK, Leave
<1>3. ASSUME NEW ch \in Channels, Subscribe(c, ch) PROVE TypeOK'
  <2>1. subscriptions' \in [States -> SUBSET (Holder \X Clients \X Channels)]
    BY <1>0, <1>3, AddSubscriptionType DEF Subscribe
  <2>2. requests[c] + 1 \in 0..MaxRequests
    BY <1>3, ReplicationAssumption DEF TypeOK, Subscribe
  <2> QED BY <1>3, <2>1, <2>2, UpdateTypes DEF TypeOK, Subscribe
<1>4. ASSUME NEW ch \in Channels, Unsubscribe(c, ch) PROVE TypeOK'
  <2>1. subscriptions' \in [States -> SUBSET (Holder \X Clients \X Channels)]
    BY <1>0, <1>4, RemoveSubscriptionType DEF Unsubscribe
  <2>2. requests[c] + 1 \in 0..MaxRequests
    BY <1>4, ReplicationAssumption DEF TypeOK, Unsubscribe
  <2> QED BY <1>4, <2>1, <2>2, UpdateTypes DEF TypeOK, Unsubscribe
<1> QED BY <1>1, <1>2, <1>3, <1>4 DEF ClientRequest

LEMMA PassOnType ==
    ASSUME TypeOK, NEW c \in Clients, PassOn(c)
    PROVE  TypeOK'
<1> USE DEF linkVars, tableVars, syncVars, clientVars
<1>1. CASE GetSessions(c)
  BY <1>1 DEF TypeOK, GetSessions
<1>2. ASSUME NEW e \in Session, Forward(c, e) PROVE TypeOK'
  <2>1. wire' \in [Session -> Seq(Message)]
    BY <1>2, SentType, MessageTypes DEF Forward, TypeOK
  <2> QED BY <1>2, <2>1 DEF TypeOK, Forward
<1>3. CASE Forwarded(c)
  BY <1>3 DEF TypeOK, Forwarded
<1> QED BY <1>1, <1>2, <1>3 DEF PassOn

LEMMA LinkType ==
    ASSUME TypeOK, NEW e \in Session, Open(e) \/ Fail(e) \/ ReadFailed(e)
    PROVE  TypeOK'
<1> USE DEF tableVars, syncVars, clientVars, Stages
<1>1. CASE Connect(e)
  BY <1>1 DEF TypeOK, Connect
<1>2. CASE AddSession(e)
  BY <1>2 DEF TypeOK, AddSession
<1>3. CASE AcceptSession(e)
  BY <1>3 DEF TypeOK, AcceptSession
<1>4. CASE Opened(e)
  <2>1. Append(wire[e], RegisterRequest) \in Seq(Message)
    BY MessageTypes, AppendProperties DEF TypeOK
  <2>2. wire' \in [Session -> Seq(Message)]
    BY <1>4, <2>1 DEF TypeOK, Opened
  <2> QED BY <1>4, <2>2 DEF TypeOK, Opened
<1>5. CASE HandshakeFailed(e)
  BY <1>5 DEF TypeOK, HandshakeFailed
<1>6. CASE Disconnect(e)
  BY <1>6 DEF TypeOK, Disconnect
<1>7. CASE ReadFailed(e)
  BY <1>7 DEF TypeOK, ReadFailed
<1> QED BY <1>1, <1>2, <1>3, <1>4, <1>5, <1>6, <1>7 DEF Open, Fail

LEMMA DestroyType ==
    ASSUME TypeOK, NEW e \in Session, Destroy(e)
    PROVE  TypeOK'
<1> USE DEF syncVars, clientVars, Stages
<1>0. owner[e] \in States
  BY OwnerPeerType
<1>1. CASE PurgeClients(e)
  <2> DEFINE row == [c \in Clients |-> IF clients[owner[e]][c] = e THEN None
                                       ELSE clients[owner[e]][c]]
  <2>1. clients[owner[e]] \in [Clients -> Holder \cup {None}]
    BY <1>0 DEF TypeOK
  <2>2. row \in [Clients -> Holder \cup {None}]
    BY <2>1
  <2>3. clients' = [clients EXCEPT ![owner[e]] = row]
    BY <1>1 DEF PurgeClients
  <2>4. clients' \in [States -> [Clients -> Holder \cup {None}]]
    BY <1>0, <2>2, <2>3 DEF TypeOK
  <2> QED BY <1>1, <2>4 DEF TypeOK, PurgeClients
<1>2. CASE PurgeSubscriptions(e)
  <2>1. subscriptions' \in [States -> SUBSET (Holder \X Clients \X Channels)]
    BY <1>0, <1>2 DEF TypeOK, PurgeSubscriptions
  <2> QED BY <1>2, <2>1 DEF TypeOK, PurgeSubscriptions
<1> QED BY <1>1, <1>2 DEF Destroy

LEMMA ReadType ==
    ASSUME TypeOK, NEW e \in Session, Read(e)
    PROVE  TypeOK'
<1> USE DEF tableVars, syncVars, clientVars
<1>0. owner[e] \in States /\ e \in Holder
  BY OwnerPeerType
<1>1. ASSUME NEW c \in Clients, ReadJoin(e, c) PROVE TypeOK'
  <2>1. clients' \in [States -> [Clients -> Holder \cup {None}]]
    BY <1>0, <1>1, AddClientType DEF ReadJoin
  <2>2. wire' \in [Session -> Seq(Message)]
    BY <1>1, ReadsType DEF ReadJoin
  <2> QED BY <1>1, <2>1, <2>2 DEF TypeOK, ReadJoin
<1>2. ASSUME NEW c \in Clients, ReadLeave(e, c) PROVE TypeOK'
  <2>1. clients' \in [States -> [Clients -> Holder \cup {None}]]
    BY <1>0, <1>2, RemoveClientType DEF ReadLeave
  <2>2. wire' \in [Session -> Seq(Message)]
    BY <1>2, ReadsType DEF ReadLeave
  <2> QED BY <1>2, <2>1, <2>2 DEF TypeOK, ReadLeave
<1>3. ASSUME NEW c \in Clients, NEW ch \in Channels, ReadSubscribe(e, c, ch)
      PROVE  TypeOK'
  <2>1. subscriptions' \in [States -> SUBSET (Holder \X Clients \X Channels)]
    BY <1>0, <1>3, AddSubscriptionType DEF ReadSubscribe
  <2>2. wire' \in [Session -> Seq(Message)]
    BY <1>3, ReadsType DEF ReadSubscribe
  <2> QED BY <1>3, <2>1, <2>2 DEF TypeOK, ReadSubscribe
<1>4. ASSUME NEW c \in Clients, NEW ch \in Channels, ReadUnsubscribe(e, c, ch)
      PROVE  TypeOK'
  <2>1. subscriptions' \in [States -> SUBSET (Holder \X Clients \X Channels)]
    BY <1>0, <1>4, RemoveSubscriptionType DEF ReadUnsubscribe
  <2>2. wire' \in [Session -> Seq(Message)]
    BY <1>4, ReadsType DEF ReadUnsubscribe
  <2> QED BY <1>4, <2>1, <2>2 DEF TypeOK, ReadUnsubscribe
<1>5. CASE ReadRegister(e)
  <2>1. wire' \in [Session -> Seq(Message)]
    BY <1>5, ReadsType DEF ReadRegister
  <2> DEFINE joins == {JoinOf(c) : c \in LocalClients(owner[e])}
  <2>2. joins \in SUBSET Update
    BY UpdateTypes DEF LocalClients
  <2>3. CASE e \in sessions
    <3>0. left' = [left EXCEPT ![e] = joins]
      BY <1>5, <2>3 DEF ReadRegister
    <3>1. left' \in [Session -> SUBSET Update]
      <4> HIDE DEF joins
      <4> QED BY <3>0, <2>2 DEF TypeOK
    <3>2. sync' = [sync EXCEPT ![e] = "clients"]
      BY <1>5, <2>3 DEF ReadRegister
    <3> QED BY <1>5, <2>1, <3>1, <3>2, <2>3 DEF TypeOK, ReadRegister
  <2>4. CASE e \notin sessions
    BY <1>5, <2>1, <2>4 DEF TypeOK, ReadRegister
  <2> QED BY <2>3, <2>4
<1> QED BY <1>1, <1>2, <1>3, <1>4, <1>5 DEF Read

LEMMA SyncType ==
    ASSUME TypeOK, NEW e \in Session, Sync(e)
    PROVE  TypeOK'
<1> USE DEF linkVars, tableVars, clientVars
<1>1. ASSUME NEW m \in left[e], SyncSend(e, m) PROVE TypeOK'
  <2>1. wire' \in [Session -> Seq(Message)]
    BY <1>1, SentType, MessageTypes DEF SyncSend, TypeOK
  <2> QED BY <1>1, <2>1 DEF TypeOK, SyncSend
<1>2. CASE SyncUnlock(e)
  BY <1>2 DEF TypeOK, SyncUnlock
<1>3. CASE SyncSubscriptions(e)
  <2> DEFINE rows == {x \in subscriptions[owner[e]] : x[1] = owner[e]}
  <2>1. rows \subseteq Holder \X Clients \X Channels
    BY OwnerPeerType DEF TypeOK
  <2>2. {SubscribeOf(r[2], r[3]) : r \in rows} \subseteq Update
    BY <2>1, UpdateTypes
  <2>3. left' \in [Session -> SUBSET Update]
    BY <1>3, <2>2 DEF TypeOK, SyncSubscriptions
  <2> QED BY <1>3, <2>3 DEF TypeOK, SyncSubscriptions
<1> QED BY <1>1, <1>2, <1>3 DEF Sync

LEMMA NextType == TypeOK /\ [Next]_vars => TypeOK'
<1> SUFFICES ASSUME TypeOK, [Next]_vars PROVE TypeOK'
  OBVIOUS
<1>1. CASE UNCHANGED vars
  BY <1>1 DEF vars, TypeOK
<1> QED
  BY <1>1, ClientRequestType, PassOnType, LinkType, DestroyType, ReadType, SyncType
  DEF Next

(* The types of Replication, with what goes with them: sync has something  *)
(* left to send only while it holds a lock, and send_to_sessions sends to  *)
(* sessions of its copy only.                                              *)
THEOREM TypeCorrect == Spec => []TypeOK
BY InitType, NextType, PTL DEF Spec

-----------------------------------------------------------------------------
(* The invariant.                                                          *)

\* e cannot have sent anything yet.
Unopened(e) == stage[e] \in {"absent", "handshake"}

\* The life of session object e.
LifeOf(e) ==
    /\ stage[e] = "absent" =>
          /\ e \notin sessions
          /\ e \notin adding
          /\ sync[e] = "idle"
          /\ \A c \in Clients : e \notin snapshot[c]
    /\ e \in adding =>
          /\ e \notin sessions
          /\ sync[e] = "idle"
          /\ \A c \in Clients : e \notin snapshot[c]
    /\ stage[e] \in {"handshake", "open", "broken"} /\ e \notin adding => e \in sessions
    /\ stage[e] = "ended" /\ e \in sessions => e \in Introduced
    /\ stage[e] \in {"purging", "released"} =>
          /\ e \notin sessions
          /\ e \notin adding
          /\ \A c \in Clients : e \notin snapshot[c]
    /\ stage[e] = "open" => stage[peer[e]] /= "absent"

Life == \A e \in Session : LifeOf(e)

\* A row of a client: its own state's, or that of a session whose peer
\* belongs to the client's state and has been open and listed.
RowOf(s, c) ==
    /\ clients[s][c] \in States => clients[s][c] = s /\ Home[c] = s
    /\ clients[s][c] \in Session =>
          LET e == clients[s][c]
          IN  /\ owner[e] = s
              /\ owner[peer[e]] = Home[c]
              /\ stage[e] \in {"open", "broken", "ended"}
              /\ ~Unopened(peer[e])
              /\ peer[e] \notin adding

\* What p has sent: joins and leaves of clients of its own state only.
WireOf(p) ==
    /\ Unopened(p) => wire[p] = <<>>
    /\ \A c \in Clients, i \in 1..Len(wire[p]) :
          wire[p][i] \in {JoinOf(c), LeaveOf(c)} =>
              Home[c] = owner[p] /\ p \notin adding

\* What sync has still to send over e: joins of clients that are connected.
LeftOf(e) ==
    \A c \in Clients :
        /\ LeaveOf(c) \notin left[e]
        /\ JoinOf(c) \in left[e] =>
              sync[e] = "clients" /\ Home[c] = owner[e] /\ Connected(c)

\* The news that the thread of c passes on is about c.
JobOf(c) ==
    /\ job[c].client = c
    /\ \A e \in snapshot[c] : owner[e] = Home[c]
    /\ turn[c] \in {"changed", "sending"} /\ job[c] /= LeaveOf(c) => Connected(c)
    /\ turn[c] = "ready" => Connected(c)

Origin ==
    /\ \A s \in States, c \in Clients : RowOf(s, c)
    /\ \A p \in Session : WireOf(p) /\ LeftOf(p)
    /\ \A c \in Clients : JobOf(c)

\* The rows of subscriptions that came over e.
SubscriptionsOf(e, s) ==
    \A c \in Clients, ch \in Channels :
        <<e, c, ch>> \in subscriptions[s] =>
            owner[e] = s /\ stage[e] \in {"open", "broken", "ended", "purging"}

Subs == \A e \in Session, s \in States : SubscriptionsOf(e, s)

IInv == TypeOK /\ Life /\ Origin /\ Subs /\ NoGhost

-----------------------------------------------------------------------------
(* Life.                                                                   *)

LEMMA InitLife == Init => Life
BY ReplicationAssumption DEF Init, Life, LifeOf, Seeds

LEMMA NextLife ==
    ASSUME TypeOK, Life, [Next]_vars
    PROVE  Life'
<1> USE DEF linkVars, tableVars, syncVars, clientVars
<1> SUFFICES ASSUME NEW f \in Session PROVE LifeOf(f)'
  BY DEF Life
<1>0. LifeOf(f) /\ peer[f] \in Session /\ LifeOf(peer[f])
  BY OwnerPeerType DEF Life
<1>t. /\ stage \in [Session -> Stages]
      /\ sync \in [Session -> {"idle", "clients", "between", "subscriptions"}]
      /\ snapshot \in [Clients -> SUBSET Session]
      /\ adding \subseteq Introduced
  BY DEF TypeOK
<1>1. CASE UNCHANGED <<stage, adding, sessions, sync, snapshot>>
  BY <1>0, <1>1 DEF LifeOf
<1>2. ASSUME NEW c \in Clients, ClientRequest(c) \/ PassOn(c)
      PROVE  LifeOf(f)'
  <2>1. CASE ClientRequest(c)
    BY <1>1, <2>1 DEF ClientRequest, Accept, Leave, Subscribe, Unsubscribe
  <2>2. CASE GetSessions(c)
    BY <1>0, <1>t, <2>2 DEF LifeOf, GetSessions
  <2>3. ASSUME NEW e \in Session, Forward(c, e) PROVE LifeOf(f)'
    BY <1>1, <2>3 DEF Forward
  <2>4. CASE Forwarded(c)
    BY <1>0, <1>t, <2>4 DEF LifeOf, Forwarded
  <2> QED BY <1>2, <2>1, <2>2, <2>3, <2>4 DEF PassOn
<1>3. ASSUME NEW e \in Session, Open(e) PROVE LifeOf(f)'
  <2>1. CASE Connect(e)
    BY <1>0, <1>t, <2>1 DEF LifeOf, Connect
  <2>2. CASE AddSession(e)
    BY <1>0, <1>t, <2>2 DEF LifeOf, AddSession
  <2>3. CASE AcceptSession(e)
    BY <1>0, <1>t, <2>3 DEF LifeOf, AcceptSession
  <2>4. CASE Opened(e)
    BY <1>0, <1>t, <2>4 DEF LifeOf, Opened
  <2> QED BY <1>3, <2>1, <2>2, <2>3, <2>4 DEF Open
<1>4. ASSUME NEW e \in Session, Fail(e) \/ ReadFailed(e) PROVE LifeOf(f)'
  <2>1. CASE HandshakeFailed(e)
    BY <1>0, <1>t, <2>1 DEF LifeOf, HandshakeFailed
  <2>2. CASE Disconnect(e)
    BY <1>0, <1>t, <2>2 DEF LifeOf, Disconnect
  <2>3. CASE ReadFailed(e)
    BY <1>0, <1>t, <2>3 DEF LifeOf, ReadFailed
  <2> QED BY <1>4, <2>1, <2>2, <2>3 DEF Fail
<1>5. ASSUME NEW e \in Session, Destroy(e) PROVE LifeOf(f)'
  BY <1>0, <1>t, <1>5 DEF LifeOf, Destroy, PurgeClients, PurgeSubscriptions, Referenced
<1>6. ASSUME NEW e \in Session, Read(e) PROVE LifeOf(f)'
  <2>1. CASE ReadRegister(e)
    BY <1>0, <1>t, <2>1 DEF LifeOf, ReadRegister, Reads
  <2>2. CASE ~ReadRegister(e)
    BY <1>1, <1>6, <2>2 DEF Read, ReadJoin, ReadLeave, ReadSubscribe, ReadUnsubscribe
  <2> QED BY <2>1, <2>2
<1>7. ASSUME NEW e \in Session, Sync(e) PROVE LifeOf(f)'
  <2>1. ASSUME NEW m \in left[e], SyncSend(e, m) PROVE LifeOf(f)'
    BY <1>1, <2>1 DEF SyncSend
  <2>2. CASE SyncUnlock(e)
    BY <1>0, <1>t, <2>2 DEF LifeOf, SyncUnlock
  <2>3. CASE SyncSubscriptions(e)
    BY <1>0, <1>t, <2>3 DEF LifeOf, SyncSubscriptions
  <2> QED BY <1>7, <2>1, <2>2, <2>3 DEF Sync
<1>8. CASE UNCHANGED vars
  BY <1>1, <1>8 DEF vars
<1> QED BY <1>2, <1>3, <1>4, <1>5, <1>6, <1>7, <1>8 DEF Next

-----------------------------------------------------------------------------
(* What sending and reading do to the wire.                                *)

LEMMA SentFacts ==
    ASSUME TypeOK, NEW e \in Session, NEW m \in Message, wire' = Sent(e, m)
    PROVE  /\ \A p \in Session : p /= e => wire'[p] = wire[p]
           /\ stage[e] /= "open" => wire'[e] = wire[e]
           /\ stage[e] = "open" =>
                 /\ Len(wire[e]) \in Nat
                 /\ Len(wire'[e]) = Len(wire[e]) + 1
                 /\ wire'[e][Len(wire[e]) + 1] = m
                 /\ \A i \in 1..Len(wire[e]) : wire'[e][i] = wire[e][i]
<1>1. wire[e] \in Seq(Message) /\ wire \in [Session -> Seq(Message)]
  BY DEF TypeOK
<1>2. wire' = IF stage[e] = "open" THEN [wire EXCEPT ![e] = Append(wire[e], m)] ELSE wire
  BY DEF Sent
<1>3. stage[e] = "open" => wire'[e] = Append(wire[e], m)
  BY <1>1, <1>2
<1>4. \A p \in Session : p /= e => wire'[p] = wire[p]
  BY <1>1, <1>2
<1>5. Len(wire[e]) \in Nat
  BY <1>1, LenProperties
<1> QED BY <1>1, <1>2, <1>3, <1>4, <1>5, AppendProperties

LEMMA ReadsFacts ==
    ASSUME TypeOK, NEW e \in Session, NEW m, Reads(e, m)
    PROVE  /\ peer[e] \in Session /\ peer[peer[e]] = e
           /\ owner[peer[e]] /= owner[e] /\ owner[e] \in States
           /\ stage[e] = "open" /\ sync[e] = "idle"
           /\ wire[peer[e]] /= <<>>
           /\ Len(wire[peer[e]]) \in Nat \ {0}
           /\ wire[peer[e]][1] = m
           /\ \A p \in Session : p /= peer[e] => wire'[p] = wire[p]
           /\ Len(wire'[peer[e]]) = Len(wire[peer[e]]) - 1
           /\ \A i \in 1..Len(wire'[peer[e]]) :
                 wire'[peer[e]][i] = wire[peer[e]][i + 1]
<1> DEFINE p == peer[e]
<1>1. p \in Session /\ peer[p] = e /\ owner[p] /= owner[e] /\ owner[e] \in States
  BY ReplicationAssumption
<1>2. wire[p] \in Seq(Message) /\ wire \in [Session -> Seq(Message)] /\ wire[p] /= <<>>
  BY <1>1 DEF TypeOK, Reads
<1>3. wire' = [wire EXCEPT ![p] = Tail(wire[p])] /\ m = Head(wire[p])
  BY DEF Reads
<1>4. wire'[p] = Tail(wire[p])
  BY <1>1, <1>2, <1>3
<1>5. Len(wire[p]) \in Nat \ {0} /\ m = wire[p][1]
  BY <1>2, <1>3, EmptySeq, LenProperties
<1>6. /\ Len(Tail(wire[p])) = Len(wire[p]) - 1
      /\ \A i \in 1..Len(Tail(wire[p])) : Tail(wire[p])[i] = wire[p][i + 1]
  BY <1>2, HeadTailProperties
<1> QED BY <1>1, <1>2, <1>3, <1>4, <1>5, <1>6 DEF Reads

\* The requests are told apart by what they ask and by whom.
LEMMA Distinct ==
    ASSUME NEW c \in Clients, NEW d, NEW f
    PROVE  /\ JoinOf(c) = JoinOf(d) => c = d
           /\ LeaveOf(c) = LeaveOf(d) => c = d
           /\ JoinOf(c) /= LeaveOf(d)
           /\ JoinOf(c) /= SubscribeOf(d, f) /\ LeaveOf(c) /= SubscribeOf(d, f)
           /\ JoinOf(c) /= UnsubscribeOf(d, f) /\ LeaveOf(c) /= UnsubscribeOf(d, f)
           /\ JoinOf(c) /= RegisterRequest /\ LeaveOf(c) /= RegisterRequest
           /\ JoinOf(d).client = d /\ LeaveOf(d).client = d
           /\ SubscribeOf(d, f).client = d /\ UnsubscribeOf(d, f).client = d
BY DEF JoinOf, LeaveOf, SubscribeOf, UnsubscribeOf, RegisterRequest

-----------------------------------------------------------------------------
(* Origin.                                                                 *)

LEMMA InitOrigin == Init => Origin
<1> SUFFICES ASSUME Init PROVE Origin
  OBVIOUS
<1>1. ASSUME NEW s \in States, NEW c \in Clients PROVE RowOf(s, c)
  BY ReplicationAssumption DEF Init, RowOf
<1>2. ASSUME NEW p \in Session PROVE WireOf(p) /\ LeftOf(p)
  BY ReplicationAssumption DEF Init, WireOf, LeftOf, Unopened
<1>3. ASSUME NEW c \in Clients PROVE JobOf(c)
  BY <1>3, Distinct DEF Init, JobOf
<1> QED BY <1>1, <1>2, <1>3 DEF Origin

\* A session that has been open stays so, and one that has been listed or
\* run is not going to be listed for the first time.
LEMMA Onward ==
    ASSUME TypeOK, Life, [Next]_vars, NEW e \in Session
    PROVE  /\ ~Unopened(e) => ~Unopened(e)'
           /\ ~Unopened(e) /\ e \notin adding => e \notin adding'
<1> USE DEF linkVars, tableVars, syncVars, clientVars, Unopened
<1>t. stage \in [Session -> Stages]
  BY DEF TypeOK
<1>1. CASE UNCHANGED <<stage, adding>>
  BY <1>1
<1>2. ASSUME NEW c \in Clients, ClientRequest(c) \/ PassOn(c)
      PROVE  UNCHANGED <<stage, adding>>
  BY <1>2 DEF ClientRequest, PassOn, Accept, Leave, Subscribe, Unsubscribe,
              GetSessions, Forward, Forwarded
<1>3. ASSUME NEW f \in Session, Open(f) \/ Fail(f) \/ ReadFailed(f) \/ Destroy(f)
      PROVE  /\ ~Unopened(e) => ~Unopened(e)'
             /\ ~Unopened(e) /\ e \notin adding => e \notin adding'
  BY <1>t, <1>3 DEF Open, Connect, AddSession, AcceptSession, Opened, Fail,
         HandshakeFailed, Disconnect, ReadFailed, Destroy, PurgeClients, PurgeSubscriptions
<1>4. ASSUME NEW f \in Session, Read(f) \/ Sync(f)
      PROVE  UNCHANGED <<stage, adding>>
  BY <1>4 DEF Read, ReadJoin, ReadLeave, ReadSubscribe, ReadUnsubscribe,
              ReadRegister, Sync, SyncSend, SyncUnlock, SyncSubscriptions
<1>5. CASE UNCHANGED vars
  BY <1>5 DEF vars
<1> QED BY <1>1, <1>2, <1>3, <1>4, <1>5 DEF Next

\* Every row that is there after a step was there before, is that of a client
\* that is accepted here, or has just been read off the wire of its session.
LEMMA RowFrom ==
    ASSUME TypeOK, Life, [Next]_vars, NEW s \in States, NEW c \in Clients
    PROVE  \/ clients'[s][c] = clients[s][c]
           \/ clients'[s][c] = None
           \/ Accept(c) /\ clients'[s][c] = s /\ Home[c] = s
           \/ \E e \in Session : /\ clients'[s][c] = e /\ owner[e] = s
                                 /\ ReadJoin(e, c)
<1> DEFINE From(t, d) ==
           \/ clients'[t][d] = clients[t][d]
           \/ clients'[t][d] = None
           \/ Accept(d) /\ clients'[t][d] = t /\ Home[d] = t
           \/ \E e \in Session : /\ clients'[t][d] = e /\ owner[e] = t
                                 /\ ReadJoin(e, d)
<1> USE DEF linkVars, tableVars, syncVars, clientVars
<1>0. clients \in [States -> [Clients -> Holder \cup {None}]]
  BY DEF TypeOK
<1>1. CASE UNCHANGED clients
  BY <1>1
<1>2. ASSUME NEW d \in Clients, ClientRequest(d) PROVE From(s, c)
  <2>1. Home[d] \in States
    BY OwnerPeerType
  <2>2. CASE Accept(d)
    BY <1>0, <2>1, <2>2 DEF Accept, AddClient
  <2>3. CASE Leave(d)
    BY <1>0, <2>1, <2>3 DEF Leave, RemoveClient
  <2>4. CASE \E ch \in Channels : Subscribe(d, ch) \/ Unsubscribe(d, ch)
    BY <1>1, <2>4 DEF Subscribe, Unsubscribe
  <2> QED BY <1>2, <2>2, <2>3, <2>4 DEF ClientRequest
<1>3. ASSUME NEW d \in Clients, PassOn(d) PROVE From(s, c)
  BY <1>1, <1>3 DEF PassOn, GetSessions, Forward, Forwarded
<1>4. ASSUME NEW e \in Session, Open(e) \/ Fail(e) \/ ReadFailed(e) PROVE From(s, c)
  BY <1>1, <1>4 DEF Open, Connect, AddSession, AcceptSession, Opened, Fail,
         HandshakeFailed, Disconnect, ReadFailed
<1>5. ASSUME NEW e \in Session, Destroy(e) PROVE From(s, c)
  <2>1. owner[e] \in States
    BY OwnerPeerType
  <2>2. CASE PurgeClients(e)
    BY <1>0, <2>1, <2>2 DEF PurgeClients
  <2>3. CASE PurgeSubscriptions(e)
    BY <1>1, <2>3 DEF PurgeSubscriptions
  <2> QED BY <1>5, <2>2, <2>3 DEF Destroy
<1>6. ASSUME NEW e \in Session, Read(e) PROVE From(s, c)
  <2>1. owner[e] \in States
    BY OwnerPeerType
  <2>2. ASSUME NEW d \in Clients, ReadJoin(e, d) PROVE From(s, c)
    <3>1. /\ \A t \in States, f \in Clients : t /= owner[e] \/ f /= d =>
                clients'[t][f] = clients[t][f]
          /\ clients'[owner[e]][d] \in {clients[owner[e]][d], e}
      BY <1>0, <2>1, <2>2 DEF ReadJoin, AddClient
    <3> QED BY <2>2, <3>1
  <2>3. ASSUME NEW d \in Clients, ReadLeave(e, d) PROVE From(s, c)
    BY <1>0, <2>1, <2>3 DEF ReadLeave, RemoveClient
  <2>4. CASE ReadRegister(e)
    BY <1>1, <2>4 DEF ReadRegister
  <2>5. ASSUME NEW d \in Clients, NEW ch \in Channels,
               ReadSubscribe(e, d, ch) \/ ReadUnsubscribe(e, d, ch)
        PROVE  From(s, c)
    BY <1>1, <2>5 DEF ReadSubscribe, ReadUnsubscribe
  <2> QED BY <1>6, <2>2, <2>3, <2>4, <2>5 DEF Read
<1>7. ASSUME NEW e \in Session, Sync(e) PROVE From(s, c)
  BY <1>1, <1>7 DEF Sync, SyncSend, SyncUnlock, SyncSubscriptions
<1>8. CASE UNCHANGED vars
  BY <1>1, <1>8 DEF vars
<1> QED BY <1>2, <1>3, <1>4, <1>5, <1>6, <1>7, <1>8 DEF Next

LEMMA EndOfRows ==
    ASSUME TypeOK, [Next]_vars, NEW e \in Session,
           stage[e] \in {"open", "broken", "ended"}
    PROVE  stage'[e] \in {"open", "broken", "ended"} \/ PurgeClients(e)
<1> USE DEF linkVars, tableVars, syncVars, clientVars
<1>t. stage \in [Session -> Stages]
  BY DEF TypeOK
<1>1. ASSUME NEW f \in Session, Open(f) \/ Fail(f) \/ ReadFailed(f) \/ Destroy(f)
      PROVE  stage'[e] \in {"open", "broken", "ended"} \/ PurgeClients(e)
  <2>1. CASE PurgeClients(f)
    BY <1>t, <2>1 DEF PurgeClients
  <2> QED BY <1>t, <1>1, <2>1 DEF Open, Connect, AddSession, AcceptSession, Opened,
         Fail, HandshakeFailed, Disconnect, ReadFailed, Destroy, PurgeSubscriptions
<1>2. ASSUME NEW c \in Clients, ClientRequest(c) \/ PassOn(c)
      PROVE  UNCHANGED stage
  BY <1>2 DEF ClientRequest, PassOn, Accept, Leave, Subscribe, Unsubscribe,
              GetSessions, Forward, Forwarded
<1>3. ASSUME NEW f \in Session, Read(f) \/ Sync(f)
      PROVE  UNCHANGED stage
  BY <1>3 DEF Read, ReadJoin, ReadLeave, ReadSubscribe, ReadUnsubscribe,
              ReadRegister, Sync, SyncSend, SyncUnlock, SyncSubscriptions
<1> QED BY <1>1, <1>2, <1>3 DEF Next, vars

LEMMA NextRow ==
    ASSUME TypeOK, Life, Origin, [Next]_vars, NEW s \in States, NEW c \in Clients
    PROVE  RowOf(s, c)'
<1>0. RowOf(s, c)
  BY DEF Origin
<1>t. States \cap Session = {} /\ None \notin States \cup Session
  BY ReplicationAssumption
<1>1. CASE clients'[s][c] \in States
  <2>1. clients'[s][c] \notin Session /\ clients'[s][c] /= None
    BY <1>1, <1>t
  <2>2. clients'[s][c] = s /\ Home[c] = s
    <3>1. CASE clients'[s][c] = clients[s][c]
      BY <1>0, <1>1, <3>1 DEF RowOf
    <3> QED BY <2>1, <3>1, RowFrom
  <2> QED BY <2>1, <2>2 DEF RowOf
<1>2. ASSUME NEW e \in Session, clients'[s][c] = e
      PROVE  RowOf(s, c)'
  <2>0. e \notin States /\ e /= None /\ peer[e] \in Session
    BY <1>t, OwnerPeerType
  <2>1. CASE ReadJoin(e, c) /\ owner[e] = s
    <3>1. Reads(e, JoinOf(c)) /\ UNCHANGED <<stage, adding>>
      BY <2>1 DEF ReadJoin
    <3>2. /\ stage[e] = "open" /\ wire[peer[e]] /= <<>>
          /\ 1 \in 1..Len(wire[peer[e]]) /\ wire[peer[e]][1] = JoinOf(c)
      BY <3>1, ReadsFacts
    <3>3. WireOf(peer[e])
      BY <2>0 DEF Origin
    <3>4. Home[c] = owner[peer[e]] /\ peer[e] \notin adding /\ ~Unopened(peer[e])
      BY <3>2, <3>3 DEF WireOf
    <3> QED BY <1>2, <2>0, <2>1, <3>1, <3>2, <3>4 DEF RowOf, Unopened
  <2>2. CASE clients[s][c] = e
    <3>1. /\ owner[e] = s /\ owner[peer[e]] = Home[c]
          /\ stage[e] \in {"open", "broken", "ended"}
          /\ ~Unopened(peer[e]) /\ peer[e] \notin adding
      BY <1>0, <2>2 DEF RowOf
    <3>2. ~Unopened(peer[e])' /\ peer[e] \notin adding'
      BY <2>0, <3>1, Onward
    <3>3. ~PurgeClients(e)
      <4> SUFFICES ASSUME PurgeClients(e) PROVE FALSE
        OBVIOUS
      <4>1. clients \in [States -> [Clients -> Holder \cup {None}]]
        BY DEF TypeOK
      <4>2. clients' = [clients EXCEPT ![s] =
                           [d \in Clients |-> IF clients[s][d] = e THEN None ELSE clients[s][d]]]
        BY <3>1 DEF PurgeClients
      <4>3. clients'[s][c] = None
        BY <2>2, <4>1, <4>2
      <4> QED BY <1>2, <2>0, <4>3
    <3>4. stage'[e] \in {"open", "broken", "ended"}
      BY <3>1, <3>3, EndOfRows
    <3> QED BY <1>2, <2>0, <3>1, <3>2, <3>4 DEF RowOf
  <2>3. (ReadJoin(e, c) /\ owner[e] = s) \/ clients[s][c] = e
    <3>1. e /= s /\ e /= None
      BY <2>0
    <3>2. CASE clients'[s][c] = clients[s][c]
      BY <1>2, <3>2
    <3> QED BY <1>2, <3>1, <3>2, RowFrom
  <2> QED BY <2>1, <2>2, <2>3
<1> QED BY <1>1, <1>2 DEF RowOf

\* What one step does to the wire of p: m goes to its end, or its head is read.
Appended(p, m) ==
    /\ Len(wire[p]) \in Nat
    /\ Len(wire'[p]) = Len(wire[p]) + 1
    /\ wire'[p][Len(wire[p]) + 1] = m
    /\ \A i \in 1..Len(wire[p]) : wire'[p][i] = wire[p][i]

Taken(p) ==
    /\ Len(wire[p]) \in Nat \ {0}
    /\ Len(wire'[p]) = Len(wire[p]) - 1
    /\ \A i \in 1..Len(wire'[p]) : wire'[p][i] = wire[p][i + 1]
    /\ Reads(peer[p], wire[p][1])

LEMMA WireStep ==
    ASSUME TypeOK, [Next]_vars, NEW p \in Session
    PROVE  \/ wire'[p] = wire[p]
           \/ stage[p] = "open" /\ \E c \in Clients : Forward(c, p) /\ Appended(p, job[c])
           \/ stage[p] = "open" /\ \E m \in left[p] : SyncSend(p, m) /\ Appended(p, m)
           \/ Opened(p) /\ Appended(p, RegisterRequest)
           \/ Taken(p) /\ Read(peer[p]) /\ wire[p] /= <<>>
<1> DEFINE Goal ==
           \/ wire'[p] = wire[p]
           \/ stage[p] = "open" /\ \E c \in Clients : Forward(c, p) /\ Appended(p, job[c])
           \/ stage[p] = "open" /\ \E m \in left[p] : SyncSend(p, m) /\ Appended(p, m)
           \/ Opened(p) /\ Appended(p, RegisterRequest)
           \/ Taken(p) /\ Read(peer[p]) /\ wire[p] /= <<>>
<1> USE DEF linkVars, tableVars, syncVars, clientVars
<1>1. ASSUME NEW c \in Clients, ClientRequest(c) \/ PassOn(c) PROVE Goal
  <2>1. CASE ClientRequest(c)
    BY <2>1 DEF ClientRequest, Accept, Leave, Subscribe, Unsubscribe
  <2>2. CASE GetSessions(c) \/ Forwarded(c)
    BY <2>2 DEF GetSessions, Forwarded
  <2>3. ASSUME NEW e \in Session, Forward(c, e) PROVE Goal
    <3>1. wire' = Sent(e, job[c]) /\ job[c] \in Message
      BY <2>3, MessageTypes DEF Forward, TypeOK
    <3> QED BY <2>3, <3>1, SentFacts DEF Appended
  <2> QED BY <1>1, <2>1, <2>2, <2>3 DEF PassOn
<1>2. ASSUME NEW e \in Session, Open(e) PROVE Goal
  <2>1. CASE Connect(e) \/ AddSession(e) \/ AcceptSession(e)
    BY <2>1 DEF Connect, AddSession, AcceptSession
  <2>2. CASE Opened(e)
    <3>1. CASE e = p /\ e \in Remote
      <4>1. wire[p] \in Seq(Message) /\ wire \in [Session -> Seq(Message)]
        BY DEF TypeOK
      <4>2. wire'[p] = Append(wire[p], RegisterRequest)
        BY <2>2, <3>1, <4>1 DEF Opened
      <4>3. Appended(p, RegisterRequest)
        BY <4>1, <4>2, MessageTypes, AppendProperties, LenProperties DEF Appended
      <4> QED BY <2>2, <3>1, <4>3
    <3>2. CASE e /= p \/ e \notin Remote
      BY <2>2, <3>2 DEF Opened, TypeOK
    <3> QED BY <3>1, <3>2
  <2> QED BY <1>2, <2>1, <2>2 DEF Open
<1>3. ASSUME NEW e \in Session, Fail(e) \/ ReadFailed(e) \/ Destroy(e) PROVE Goal
  BY <1>3 DEF Fail, HandshakeFailed, Disconnect, ReadFailed, Destroy, PurgeClients,
              PurgeSubscriptions
<1>4. ASSUME NEW e \in Session, Read(e) PROVE Goal
  <2>1. PICK m : Reads(e, m)
    BY <1>4 DEF Read, ReadJoin, ReadLeave, ReadSubscribe, ReadUnsubscribe, ReadRegister
  <2>2. CASE p = peer[e]
    <3>1. peer[p] = e /\ wire[p][1] = m
      BY <2>1, <2>2, ReadsFacts
    <3>2. Taken(p) /\ wire[p] /= <<>>
      BY <2>1, <2>2, <3>1, ReadsFacts DEF Taken
    <3> QED BY <1>4, <3>1, <3>2
  <2>3. CASE p /= peer[e]
    BY <2>1, <2>3, ReadsFacts
  <2> QED BY <2>2, <2>3
<1>5. ASSUME NEW e \in Session, Sync(e) PROVE Goal
  <2>1. ASSUME NEW m \in left[e], SyncSend(e, m) PROVE Goal
    <3>1. wire' = Sent(e, m) /\ m \in Message
      BY <2>1, MessageTypes DEF SyncSend, TypeOK
    <3> QED BY <2>1, <3>1, SentFacts DEF Appended
  <2>2. CASE SyncUnlock(e) \/ SyncSubscriptions(e)
    BY <2>2 DEF SyncUnlock, SyncSubscriptions
  <2> QED BY <1>5, <2>1, <2>2 DEF Sync
<1>6. CASE UNCHANGED vars
  BY <1>6 DEF vars
<1> QED BY <1>1, <1>2, <1>3, <1>4, <1>5, <1>6 DEF Next

LEMMA NextWire ==
    ASSUME TypeOK, Life, Origin, [Next]_vars, NEW p \in Session
    PROVE  WireOf(p)'
<1>0. WireOf(p) /\ LeftOf(p) /\ LifeOf(p)
  BY DEF Origin, Life
<1>t. /\ Len(wire[p]) \in Nat /\ (wire[p] = <<>> => Len(wire[p]) = 0)
      /\ wire'[p] \in Seq(Message)
      /\ stage \in [Session -> Stages]
  <2>1. wire[p] \in Seq(Message) /\ stage \in [Session -> Stages]
    BY DEF TypeOK
  <2>2. wire'[p] \in Seq(Message)
    BY NextType DEF TypeOK
  <2> QED BY <2>1, <2>2, LenProperties
<1>1. ASSUME wire'[p] = wire[p] PROVE WireOf(p)'
  <2>1. Unopened(p)' => Unopened(p)
    BY Onward
  <2>2. p \notin adding /\ ~Unopened(p) => p \notin adding'
    BY Onward
  <2>3. wire[p] = <<>> => 1..Len(wire[p]) = {}
    BY <1>t
  <2> QED BY <1>0, <1>1, <2>1, <2>2, <2>3 DEF WireOf
<1>2. ASSUME NEW m, Appended(p, m), ~Unopened(p)', p \notin adding' \/ p \in adding,
             \A c \in Clients : m \in {JoinOf(c), LeaveOf(c)} =>
                 Home[c] = owner[p] /\ p \notin adding'
      PROVE  WireOf(p)'
  <2> SUFFICES ASSUME NEW c \in Clients, NEW i \in 1..Len(wire'[p]),
                      wire'[p][i] \in {JoinOf(c), LeaveOf(c)}
               PROVE  Home[c] = owner[p] /\ p \notin adding'
    BY <1>2 DEF WireOf
  <2>1. CASE i = Len(wire[p]) + 1
    BY <1>2, <2>1 DEF Appended
  <2>2. CASE i \in 1..Len(wire[p])
    BY <1>0, <1>2, <2>2 DEF Appended, WireOf
  <2>3. i = Len(wire[p]) + 1 \/ i \in 1..Len(wire[p])
    BY <1>2 DEF Appended
  <2> QED BY <2>1, <2>2, <2>3
<1>3. ASSUME NEW c \in Clients, stage[p] = "open", Forward(c, p), Appended(p, job[c])
      PROVE  WireOf(p)'
  <2>1. JobOf(c) /\ p \in snapshot[c] /\ UNCHANGED <<stage, adding>>
    BY <1>3 DEF Origin, Forward, TypeOK
  <2>2. owner[p] = Home[c] /\ p \notin adding /\ job[c].client = c
    BY <1>0, <2>1 DEF JobOf, LifeOf
  <2>3. \A d \in Clients : job[c] \in {JoinOf(d), LeaveOf(d)} => d = c
    BY <2>2, Distinct
  <2> QED BY <1>2, <1>3, <2>1, <2>2, <2>3 DEF Unopened
<1>4. ASSUME NEW m \in left[p], stage[p] = "open", SyncSend(p, m), Appended(p, m)
      PROVE  WireOf(p)'
  <2>1. UNCHANGED <<stage, adding>>
    BY <1>4 DEF SyncSend
  <2>2. \A d \in Clients : m \in {JoinOf(d), LeaveOf(d)} =>
           Home[d] = owner[p] /\ p \notin adding
    BY <1>0 DEF LeftOf, LifeOf
  <2> QED BY <1>2, <1>4, <2>1, <2>2 DEF Unopened
<1>5. ASSUME Opened(p), Appended(p, RegisterRequest) PROVE WireOf(p)'
  <2>1. stage'[p] = "open" /\ UNCHANGED adding
    BY <1>5, <1>t DEF Opened
  <2>2. \A d \in Clients : RegisterRequest \notin {JoinOf(d), LeaveOf(d)}
    BY Distinct
  <2> QED BY <1>2, <1>5, <2>1, <2>2 DEF Unopened
<1>6. ASSUME Taken(p), Read(peer[p]), wire[p] /= <<>> PROVE WireOf(p)'
  <2>1. UNCHANGED <<stage, adding>>
    BY <1>6 DEF Read, ReadJoin, ReadLeave, ReadSubscribe, ReadUnsubscribe,
                ReadRegister, tableVars, syncVars, clientVars
  <2>2. \A i \in 1..Len(wire'[p]) : i + 1 \in 1..Len(wire[p])
    BY <1>6 DEF Taken
  <2>3. ~Unopened(p)
    BY <1>0, <1>6 DEF WireOf
  <2> QED BY <1>0, <1>6, <2>1, <2>2, <2>3 DEF WireOf, Taken, Unopened
<1> QED BY <1>1, <1>3, <1>4, <1>5, <1>6, WireStep

\* Only its own thread takes a client that is connected out of the table.
LEMMA StaysConnected ==
    ASSUME TypeOK, Life, Origin, [Next]_vars, NEW c \in Clients, Connected(c)
    PROVE  Connected(c)' \/ Leave(c)
<1> DEFINE Goal == Connected(c)' \/ Leave(c)
<1> USE DEF linkVars, tableVars, syncVars, clientVars
<1>0. /\ clients \in [States -> [Clients -> Holder \cup {None}]]
      /\ Home[c] \in States /\ Home[c] /= None /\ Home[c] \notin Session
      /\ clients[Home[c]][c] = Home[c]
  BY ReplicationAssumption DEF TypeOK, Connected
<1>1. ASSUME UNCHANGED clients PROVE Goal
  BY <1>0, <1>1 DEF Connected
<1>2. ASSUME NEW d \in Clients, ClientRequest(d) \/ PassOn(d) PROVE Goal
  <2>1. Home[d] \in States
    BY OwnerPeerType
  <2>2. CASE Accept(d)
    BY <1>0, <2>1, <2>2 DEF Accept, AddClient, Connected
  <2>3. CASE Leave(d)
    BY <1>0, <2>1, <2>3 DEF Leave, RemoveClient, Connected
  <2> QED BY <1>1, <1>2, <2>2, <2>3 DEF ClientRequest, Subscribe, Unsubscribe,
             PassOn, GetSessions, Forward, Forwarded
<1>3. ASSUME NEW e \in Session, Open(e) \/ Fail(e) \/ ReadFailed(e) PROVE Goal
  BY <1>1, <1>3 DEF Open, Connect, AddSession, AcceptSession, Opened, Fail,
         HandshakeFailed, Disconnect, ReadFailed
<1>4. ASSUME NEW e \in Session, Destroy(e) PROVE Goal
  <2>1. owner[e] \in States
    BY OwnerPeerType
  <2>2. CASE PurgeClients(e)
    BY <1>0, <2>1, <2>2 DEF PurgeClients, Connected
  <2> QED BY <1>1, <1>4, <2>2 DEF Destroy, PurgeSubscriptions
<1>5. ASSUME NEW e \in Session, Read(e) PROVE Goal
  <2>1. owner[e] \in States
    BY OwnerPeerType
  <2>2. ASSUME NEW d \in Clients, ReadJoin(e, d) PROVE Goal
    BY <1>0, <2>1, <2>2 DEF ReadJoin, AddClient, Connected
  <2>3. ASSUME NEW d \in Clients, ReadLeave(e, d) PROVE Goal
    <3>1. /\ 1 \in 1..Len(wire[peer[e]]) /\ wire[peer[e]][1] = LeaveOf(d)
          /\ peer[e] \in Session /\ owner[peer[e]] /= owner[e]
      BY <2>3, ReadsFacts DEF ReadLeave
    <3>2. Home[d] = owner[peer[e]]
      BY <3>1 DEF Origin, WireOf
    <3>3. clients'[Home[c]][c] = clients[Home[c]][c]
      BY <1>0, <2>1, <2>3, <3>1, <3>2 DEF ReadLeave, RemoveClient
    <3> QED BY <1>0, <3>3 DEF Connected
  <2> QED BY <1>1, <1>5, <2>2, <2>3 DEF Read, ReadSubscribe, ReadUnsubscribe, ReadRegister
<1>6. ASSUME NEW e \in Session, Sync(e) PROVE Goal
  BY <1>1, <1>6 DEF Sync, SyncSend, SyncUnlock, SyncSubscriptions
<1>7. CASE UNCHANGED vars
  BY <1>1, <1>7 DEF vars
<1> QED BY <1>2, <1>3, <1>4, <1>5, <1>6, <1>7 DEF Next

LEMMA NextLeft ==
    ASSUME TypeOK, Life, Origin, [Next]_vars, NEW e \in Session
    PROVE  LeftOf(e)'
<1> SUFFICES ASSUME NEW c \in Clients
             PROVE  /\ LeaveOf(c) \notin left'[e]
                    /\ JoinOf(c) \in left'[e] =>
                          sync'[e] = "clients" /\ Home[c] = owner[e] /\ Connected(c)'
  BY DEF LeftOf
<1> DEFINE Goal == /\ LeaveOf(c) \notin left'[e]
                   /\ JoinOf(c) \in left'[e] =>
                         sync'[e] = "clients" /\ Home[c] = owner[e] /\ Connected(c)'
<1> USE DEF linkVars, tableVars, syncVars, clientVars
<1>0. LeftOf(e)
  BY DEF Origin
<1>t. /\ left \in [Session -> SUBSET Update]
      /\ sync \in [Session -> {"idle", "clients", "between", "subscriptions"}]
      /\ \A f \in Session : sync[f] \in {"idle", "between"} => left[f] = {}
  BY DEF TypeOK
<1>1. ASSUME left'[e] \subseteq left[e], sync'[e] = sync[e]
      PROVE  Goal
  <2>1. JoinOf(c) \in left[e] => Connected(c) /\ ~Leave(c)
    BY <1>0 DEF LeftOf, Leave, RemoveClient, ClientsLocked
  <2> QED BY <1>0, <1>1, <2>1, StaysConnected DEF LeftOf
<1>2. ASSUME left'[e] = {} PROVE Goal
  BY <1>2
<1>3. ASSUME NEW d \in Clients, ClientRequest(d) \/ PassOn(d) PROVE Goal
  BY <1>1, <1>3 DEF ClientRequest, PassOn, Accept, Leave, Subscribe, Unsubscribe,
         GetSessions, Forward, Forwarded
<1>4. ASSUME NEW f \in Session, Open(f) \/ Fail(f) \/ ReadFailed(f) \/ Destroy(f)
      PROVE  Goal
  BY <1>1, <1>4 DEF Open, Connect, AddSession, AcceptSession, Opened, Fail,
         HandshakeFailed, Disconnect, ReadFailed, Destroy, PurgeClients, PurgeSubscriptions
<1>5. ASSUME NEW f \in Session, Read(f) PROVE Goal
  <2>1. CASE ReadRegister(f) /\ f \in sessions /\ f = e
    <3>1. /\ left'[e] = {JoinOf(d) : d \in LocalClients(owner[e])}
          /\ sync'[e] = "clients" /\ UNCHANGED clients
      BY <1>t, <2>1 DEF ReadRegister
    <3>2. ASSUME NEW d \in LocalClients(owner[e])
          PROVE  d \in Clients /\ Home[d] = owner[e] /\ Connected(d)'
      <4>1. d \in Clients /\ clients[owner[e]][d] = owner[e] /\ owner[e] \in States
        BY <3>2, OwnerPeerType DEF LocalClients
      <4>2. Home[d] = owner[e]
        BY <4>1 DEF Origin, RowOf
      <4> QED BY <3>1, <4>1, <4>2 DEF Connected
    <3>3. ASSUME NEW m \in left'[e] PROVE \E d \in LocalClients(owner[e]) : m = JoinOf(d)
      BY <3>1
    <3>4. LeaveOf(c) \notin left'[e]
      BY <3>3 DEF JoinOf, LeaveOf
    <3>5. JoinOf(c) \in left'[e] => c \in LocalClients(owner[e])
      BY <3>3 DEF JoinOf
    <3> QED BY <3>1, <3>2, <3>4, <3>5
  <2>2. CASE ~(ReadRegister(f) /\ f \in sessions /\ f = e)
    BY <1>t, <1>1, <1>5, <2>2 DEF Read, ReadJoin, ReadLeave, ReadSubscribe,
       ReadUnsubscribe, ReadRegister
  <2> QED BY <2>1, <2>2
<1>6. ASSUME NEW f \in Session, Sync(f) PROVE Goal
  <2>1. ASSUME NEW m \in left[f], SyncSend(f, m) PROVE Goal
    BY <1>t, <1>1, <2>1 DEF SyncSend
  <2>2. CASE SyncUnlock(f)
    BY <1>t, <1>1, <1>2, <2>2 DEF SyncUnlock
  <2>3. CASE SyncSubscriptions(f)
    <3>1. CASE f = e
      <4>1. \A m \in left'[e] : \E d, g : m = SubscribeOf(d, g)
        BY <1>t, <2>3, <3>1 DEF SyncSubscriptions
      <4> QED BY <4>1, Distinct
    <3>2. CASE f /= e
      BY <1>t, <1>1, <2>3, <3>2 DEF SyncSubscriptions
    <3> QED BY <3>1, <3>2
  <2> QED BY <1>6, <2>1, <2>2, <2>3 DEF Sync
<1>7. CASE UNCHANGED vars
  BY <1>1, <1>7 DEF vars
<1> QED BY <1>3, <1>4, <1>5, <1>6, <1>7 DEF Next

LEMMA NextJob ==
    ASSUME TypeOK, Life, Origin, [Next]_vars, NEW c \in Clients
    PROVE  JobOf(c)'
<1> USE DEF linkVars, tableVars, syncVars, clientVars
<1>0. JobOf(c)
  BY DEF Origin
<1>t. /\ turn \in [Clients -> {"out", "changed", "sending", "ready", "gone"}]
      /\ job \in [Clients -> Update]
      /\ snapshot \in [Clients -> SUBSET Session]
      /\ clients \in [States -> [Clients -> Holder \cup {None}]]
  BY DEF TypeOK
<1>1. ASSUME turn'[c] = turn[c], job'[c] = job[c], snapshot'[c] = snapshot[c], ~Leave(c)
      PROVE  JobOf(c)'
  BY <1>0, <1>1, StaysConnected DEF JobOf
<1>2. CASE Accept(c)
  <2>1. /\ Home[c] \in States /\ States \cap Session = {} /\ None \notin States
        /\ \A e \in Session : owner[peer[e]] /= owner[e]
    BY ReplicationAssumption
  <2>2. clients[Home[c]][c] \in {Home[c], None}
    <3>1. RowOf(Home[c], c)
      BY <2>1 DEF Origin
    <3> QED BY <1>t, <2>1, <3>1 DEF RowOf, Holder
  <2>3. clients'[Home[c]][c] = Home[c]
    BY <1>t, <1>2, <2>1, <2>2 DEF Accept, AddClient
  <2> QED BY <1>0, <1>t, <1>2, <2>3, Distinct DEF Accept, JobOf, Connected
<1>3. CASE Leave(c)
  BY <1>0, <1>t, <1>3, Distinct DEF Leave, JobOf
<1>4. ASSUME NEW ch \in Channels, Subscribe(c, ch) \/ Unsubscribe(c, ch)
      PROVE  JobOf(c)'
  BY <1>0, <1>t, <1>4, Distinct DEF Subscribe, Unsubscribe, JobOf, Connected
<1>5. CASE PassOn(c)
  <2>1. CASE GetSessions(c)
    BY <1>0, <1>t, <2>1 DEF GetSessions, JobOf, Connected
  <2>2. ASSUME NEW e \in Session, Forward(c, e) PROVE JobOf(c)'
    BY <1>0, <1>t, <2>2 DEF Forward, JobOf, Connected
  <2>3. CASE Forwarded(c)
    BY <1>0, <1>t, <2>3 DEF Forwarded, JobOf, Connected
  <2> QED BY <1>5, <2>1, <2>2, <2>3 DEF PassOn
<1>6. ASSUME NEW d \in Clients, ClientRequest(d) \/ PassOn(d), d /= c
      PROVE  JobOf(c)'
  <2>1. turn'[c] = turn[c] /\ job'[c] = job[c] /\ snapshot'[c] = snapshot[c]
    BY <1>t, <1>6 DEF ClientRequest, PassOn, Accept, Leave, Subscribe, Unsubscribe,
         GetSessions, Forward, Forwarded
  <2> QED BY <1>1, <1>3, <2>1
<1>7. ASSUME NEW e \in Session,
             \/ Open(e) \/ Fail(e) \/ ReadFailed(e) \/ Destroy(e)
             \/ Read(e) \/ Sync(e)
      PROVE  UNCHANGED clientVars
  BY <1>7 DEF Open, Connect, AddSession, AcceptSession, Opened, Fail,
         HandshakeFailed, Disconnect, ReadFailed, Destroy, PurgeClients,
         PurgeSubscriptions, Read, ReadJoin, ReadLeave, ReadSubscribe,
         ReadUnsubscribe, ReadRegister, Sync, SyncSend, SyncUnlock, SyncSubscriptions
<1>8. CASE UNCHANGED vars
  BY <1>1, <1>3, <1>8 DEF vars
<1> QED BY <1>1, <1>2, <1>3, <1>4, <1>5, <1>6, <1>7, <1>8 DEF Next, ClientRequest

LEMMA NextOrigin ==
    ASSUME TypeOK, Life, Origin, [Next]_vars
    PROVE  Origin'
<1>1. ASSUME NEW s \in States, NEW c \in Clients PROVE RowOf(s, c)'
  BY NextRow
<1>2. ASSUME NEW p \in Session PROVE WireOf(p)' /\ LeftOf(p)'
  BY NextWire, NextLeft
<1>3. ASSUME NEW c \in Clients PROVE JobOf(c)'
  BY NextJob
<1> QED BY <1>1, <1>2, <1>3 DEF Origin

-----------------------------------------------------------------------------
(* Ghosts.                                                                 *)

\* A row that appears under the peer of p is that of a join read off p.
LEMMA RowThroughLink ==
    ASSUME TypeOK, Life, [Next]_vars, NEW p \in Session, NEW c \in Clients,
           clients'[owner[peer[p]]][c] = peer[p]
    PROVE  \/ clients[owner[peer[p]]][c] = peer[p]
           \/ ReadJoin(peer[p], c) /\ wire[p][1] = JoinOf(c)
<1>1. /\ peer[p] \in Session /\ peer[peer[p]] = p /\ owner[peer[p]] \in States
      /\ peer[p] /= None /\ peer[p] /= owner[peer[p]]
  BY ReplicationAssumption
<1>2. CASE ReadJoin(peer[p], c)
  BY <1>1, <1>2, ReadsFacts DEF ReadJoin
<1> QED BY <1>1, <1>2, RowFrom

\* What a state is going to list after a step it was going to list before,
\* unless the join was sent in this step, and then the client is connected.
LEMMA WillListFrom ==
    ASSUME TypeOK, Life, Origin, [Next]_vars, NEW p \in Session, NEW c \in Clients,
           WillList(p, c)'
    PROVE  WillList(p, c) \/ Connected(c)'
<1> DEFINE n == Len(wire[p])
           Listed == clients[owner[peer[p]]][c] = peer[p]
<1>0. peer[p] \in Session /\ LeftOf(p)
  BY OwnerPeerType DEF Origin
<1>1. CASE wire'[p] = wire[p]
  <2>1. CASE Listed
    BY <1>1, <2>1 DEF WillList, NoneBehind
  <2>2. CASE ReadJoin(peer[p], c)
    <3>1. Reads(peer[p], JoinOf(c)) /\ peer[peer[p]] = p
      BY <2>2, ReplicationAssumption DEF ReadJoin
    <3>2. n \in Nat \ {0} /\ Len(wire'[p]) = n - 1
      BY <1>0, <3>1, ReadsFacts
    <3> QED BY <1>1, <3>2
  <2>3. CASE ~(clients'[owner[peer[p]]][c] = peer[p])
    BY <1>1, <2>3 DEF WillList, NoneBehind
  <2> QED BY <2>1, <2>2, <2>3, RowThroughLink
<1>2. ASSUME NEW m, Appended(p, m), UNCHANGED clients, m = JoinOf(c) => Connected(c)
      PROVE  WillList(p, c) \/ Connected(c)'
  <2>1. n \in Nat /\ Len(wire'[p]) = n + 1 /\ wire'[p][n + 1] = m
        /\ \A i \in 1..n : wire'[p][i] = wire[p][i]
    BY <1>2 DEF Appended
  <2>2. ASSUME NEW i \in Nat, NoneBehind(p, i, LeaveOf(c))'
        PROVE  NoneBehind(p, i, LeaveOf(c))
    BY <2>1, <2>2 DEF NoneBehind
  <2>3. CASE Listed /\ NoneBehind(p, 0, LeaveOf(c))'
    BY <2>2, <2>3 DEF WillList
  <2>4. ASSUME NEW i \in 1..(n + 1), wire'[p][i] = JoinOf(c),
               NoneBehind(p, i, LeaveOf(c))'
        PROVE  WillList(p, c) \/ Connected(c)'
    <3>1. CASE i = n + 1
      BY <1>2, <2>1, <2>4, <3>1 DEF Connected
    <3>2. CASE i \in 1..n
      BY <2>1, <2>2, <2>4, <3>2 DEF WillList
    <3> QED BY <2>1, <3>1, <3>2
  <2> QED BY <1>2, <2>1, <2>3, <2>4 DEF WillList
<1>3. ASSUME NEW d \in Clients, Forward(d, p), Appended(p, job[d])
      PROVE  WillList(p, c) \/ Connected(c)'
  <2>1. JobOf(d) /\ turn[d] = "sending" /\ UNCHANGED clients
    BY <1>3 DEF Origin, Forward, tableVars
  <2>2. job[d] = JoinOf(c) => d = c /\ job[d] /= LeaveOf(d)
    <3>1. job[d].client = d
      BY <2>1 DEF JobOf
    <3>2. JoinOf(c).client = c /\ JoinOf(c) /= LeaveOf(d)
      BY DEF JoinOf, LeaveOf
    <3> QED BY <3>1, <3>2
  <2> QED BY <1>2, <1>3, <2>1, <2>2 DEF JobOf
<1>4. ASSUME NEW m \in left[p], SyncSend(p, m), Appended(p, m)
      PROVE  WillList(p, c) \/ Connected(c)'
  BY <1>0, <1>2, <1>4 DEF LeftOf, SyncSend, tableVars
<1>5. ASSUME Opened(p), Appended(p, RegisterRequest)
      PROVE  WillList(p, c) \/ Connected(c)'
  BY <1>2, <1>5, Distinct DEF Opened, tableVars
<1>6. ASSUME Taken(p), Read(peer[p])
      PROVE  WillList(p, c)
  <2>1. /\ n \in Nat \ {0} /\ Len(wire'[p]) = n - 1
        /\ \A i \in 1..(n - 1) : wire'[p][i] = wire[p][i + 1]
    BY <1>6 DEF Taken
  <2>2. ASSUME NEW i \in Nat, NoneBehind(p, i, LeaveOf(c))'
        PROVE  NoneBehind(p, i + 1, LeaveOf(c))
    <3> SUFFICES ASSUME NEW j \in 1..n, j > i + 1 PROVE wire[p][j] /= LeaveOf(c)
      BY DEF NoneBehind
    <3>1. j - 1 \in 1..(n - 1) /\ j - 1 > i /\ (j - 1) + 1 = j
      BY <2>1
    <3> QED BY <2>1, <2>2, <3>1 DEF NoneBehind
  <2>3. ASSUME NEW i \in 1..(n - 1), wire'[p][i] = JoinOf(c), NoneBehind(p, i, LeaveOf(c))'
        PROVE  WillList(p, c)
    <3>1. i + 1 \in 1..n /\ wire[p][i + 1] = JoinOf(c) /\ NoneBehind(p, i + 1, LeaveOf(c))
      BY <2>1, <2>2, <2>3
    <3> QED BY <3>1 DEF WillList
  <2>4. ASSUME clients'[owner[peer[p]]][c] = peer[p], NoneBehind(p, 0, LeaveOf(c))'
        PROVE  WillList(p, c)
    <3>1. NoneBehind(p, 1, LeaveOf(c)) /\ 1 \in 1..n
      BY <2>1, <2>2, <2>4
    <3>2. CASE wire[p][1] = JoinOf(c)
      BY <3>1, <3>2 DEF WillList
    <3>3. CASE Listed
      <4>1. wire[p][1] /= LeaveOf(c)
        <5> SUFFICES ASSUME wire[p][1] = LeaveOf(c) PROVE FALSE
          OBVIOUS
        <5>1. \A m : Reads(peer[p], m) => m = LeaveOf(c)
          BY <1>6 DEF Taken, Reads
        <5>2. ReadLeave(peer[p], c)
          BY <1>6, <5>1 DEF Read, ReadJoin, ReadLeave, ReadSubscribe, ReadUnsubscribe,
             ReadRegister, JoinOf, LeaveOf, SubscribeOf, UnsubscribeOf, RegisterRequest
        <5>3. owner[peer[p]] \in States /\ peer[p] /= None
          BY ReplicationAssumption
        <5>4. clients'[owner[peer[p]]][c] = None
          BY <5>2, <5>3 DEF ReadLeave, RemoveClient, TypeOK
        <5> QED BY <2>4, <5>3, <5>4
      <4>2. NoneBehind(p, 0, LeaveOf(c))
        BY <2>1, <3>1, <4>1 DEF NoneBehind
      <4> QED BY <3>3, <4>2 DEF WillList
    <3> QED BY <2>4, <3>2, <3>3, RowThroughLink
  <2> QED BY <2>1, <2>3, <2>4 DEF WillList
<1> QED BY <1>1, <1>3, <1>4, <1>5, <1>6, WireStep

\* A link that has just come up has carried nothing.
LEMMA LinkUpFrom ==
    ASSUME TypeOK, Life, Origin, [Next]_vars, NEW p \in Session, NEW c \in Clients,
           LinkUp(p)', WillList(p, c)'
    PROVE  LinkUp(p)
<1> USE DEF linkVars, tableVars, syncVars, clientVars
<1>0. /\ peer[p] \in Session /\ peer[peer[p]] = p /\ owner[peer[p]] \in States
      /\ peer[p] \notin States /\ peer[p] /= None /\ peer[p] /= p
      /\ LifeOf(p) /\ WireOf(p) /\ stage \in [Session -> Stages]
  BY ReplicationAssumption DEF Life, Origin, TypeOK
<1>1. CASE Opened(p)
  <2>1. Unopened(p) /\ wire[p] = <<>> /\ UNCHANGED clients
    BY <1>0, <1>1 DEF Opened, Unopened, WireOf
  <2>2. clients'[owner[peer[p]]][c] /= peer[p]
    BY <1>0, <2>1 DEF Origin, RowOf
  <2>3. wire'[p] = <<>> \/ wire'[p] = <<RegisterRequest>>
    BY <1>1, <2>1 DEF Opened, TypeOK
  <2>4. PICK i \in 1..Len(wire'[p]) : wire'[p][i] = JoinOf(c)
    BY <2>2 DEF WillList
  <2> QED BY <2>3, <2>4, Distinct
<1>2. CASE ~Opened(p)
  <2>1. ASSUME NEW d \in Clients, ClientRequest(d) \/ PassOn(d) PROVE UNCHANGED stage
    BY <2>1 DEF ClientRequest, PassOn, Accept, Leave, Subscribe, Unsubscribe,
                GetSessions, Forward, Forwarded
  <2>2. ASSUME NEW e \in Session, Read(e) \/ Sync(e) PROVE UNCHANGED stage
    BY <2>2 DEF Read, ReadJoin, ReadLeave, ReadSubscribe, ReadUnsubscribe,
                ReadRegister, Sync, SyncSend, SyncUnlock, SyncSubscriptions
  <2>3. ASSUME NEW e \in Session, Open(e) \/ Fail(e) \/ ReadFailed(e) \/ Destroy(e)
        PROVE  LinkUp(p)
    BY <1>0, <1>2, <2>3 DEF LinkUp, LifeOf, Open, Connect, AddSession, AcceptSession,
       Opened, Fail, HandshakeFailed, Disconnect, ReadFailed, Destroy, PurgeClients,
       PurgeSubscriptions
  <2>4. UNCHANGED stage => LinkUp(p)
    BY DEF LinkUp
  <2> QED BY <2>1, <2>2, <2>3, <2>4 DEF Next, vars
<1> QED BY <1>1, <1>2

\* The thread of c keeps its word, unless it has just done so.
LEMMA WillSendOn ==
    ASSUME TypeOK, Life, Origin, [Next]_vars, NEW p \in Session, NEW c \in Clients,
           LinkUp(p), LinkUp(p)', owner[p] = Home[c],
           WillSend(p, c, LeaveOf(c))
    PROVE  WillSend(p, c, LeaveOf(c))' \/ Forward(c, p)
<1> DEFINE Goal == WillSend(p, c, LeaveOf(c))' \/ Forward(c, p)
<1> USE DEF linkVars, tableVars, syncVars, clientVars
<1>t. /\ turn \in [Clients -> {"out", "changed", "sending", "ready", "gone"}]
      /\ job \in [Clients -> Update]
      /\ todo \in [Clients -> SUBSET Session]
      /\ stage \in [Session -> Stages]
      /\ sessions \subseteq Session
  BY DEF TypeOK
<1>1. ASSUME turn'[c] = turn[c], job'[c] = job[c], todo'[c] = todo[c],
             p \in sessions => p \in sessions'
      PROVE  Goal
  BY <1>1 DEF WillSend
<1>2. ASSUME NEW d \in Clients, ClientRequest(d) \/ PassOn(d) PROVE Goal
  <2>1. CASE d /= c
    BY <1>t, <1>1, <1>2, <2>1 DEF ClientRequest, PassOn, Accept, Leave, Subscribe,
       Unsubscribe, GetSessions, Forward, Forwarded
  <2>2. CASE d = c
    <3>1. ~ClientRequest(c)
      BY DEF ClientRequest, Accept, Leave, Subscribe, Unsubscribe, WillSend
    <3>2. CASE GetSessions(c)
      BY <1>t, <3>2 DEF GetSessions, WillSend
    <3>3. ASSUME NEW e \in Session, Forward(c, e), e /= p PROVE Goal
      BY <1>t, <3>3 DEF Forward, WillSend
    <3>4. ~Forwarded(c)
      BY DEF Forwarded, WillSend
    <3> QED BY <1>2, <2>2, <3>1, <3>2, <3>3, <3>4 DEF PassOn
  <2> QED BY <2>1, <2>2
<1>3. ASSUME NEW e \in Session, Open(e) \/ Fail(e) \/ ReadFailed(e) \/ Destroy(e)
      PROVE  Goal
  BY <1>t, <1>1, <1>3 DEF LinkUp, Open, Connect, AddSession, AcceptSession, Opened, Fail,
     HandshakeFailed, Disconnect, ReadFailed, Destroy, PurgeClients, PurgeSubscriptions
<1>4. ASSUME NEW e \in Session, Read(e) \/ Sync(e) PROVE Goal
  BY <1>1, <1>4 DEF Read, ReadJoin, ReadLeave, ReadSubscribe, ReadUnsubscribe,
     ReadRegister, Sync, SyncSend, SyncUnlock, SyncSubscriptions
<1>5. CASE UNCHANGED vars
  BY <1>1, <1>5 DEF vars
<1> QED BY <1>2, <1>3, <1>4, <1>5 DEF Next

\* A leave that has just been sent is behind every join.
LEMMA LeaveSent ==
    ASSUME TypeOK, Life, Origin, [Next]_vars, NEW p \in Session, NEW c \in Clients,
           stage[p] = "open", Forward(c, p), job[c] = LeaveOf(c)
    PROVE  ~WillList(p, c)'
<1>1. wire' = Sent(p, LeaveOf(c)) /\ LeaveOf(c) \in Message
  BY MessageTypes, UpdateTypes DEF Forward
<1>2. /\ Len(wire[p]) \in Nat /\ Len(wire'[p]) = Len(wire[p]) + 1
      /\ wire'[p][Len(wire[p]) + 1] = LeaveOf(c)
  BY <1>1, SentFacts
<1>3. ASSUME NEW i \in 0..Len(wire[p]) PROVE ~NoneBehind(p, i, LeaveOf(c))'
  BY <1>2 DEF NoneBehind
<1>4. ASSUME NEW i \in 1..Len(wire'[p]), wire'[p][i] = JoinOf(c)
      PROVE  i \in 0..Len(wire[p])
  <2>1. i /= Len(wire[p]) + 1
    BY <1>2, <1>4 DEF JoinOf, LeaveOf
  <2> QED BY <1>2, <2>1
<1>5. 0 \in 0..Len(wire[p])
  BY <1>2
<1> QED BY <1>3, <1>4, <1>5 DEF WillList

\* Whom a state is going to list through a link connects at its other end.
LEMMA ListedFromPeer ==
    ASSUME Origin, NEW p \in Session, NEW c \in Clients, WillList(p, c)
    PROVE  owner[p] = Home[c] /\ p \notin adding
<1>1. /\ peer[p] \in Session /\ peer[peer[p]] = p /\ owner[peer[p]] \in States
  BY ReplicationAssumption
<1>2. CASE clients[owner[peer[p]]][c] = peer[p]
  BY <1>1, <1>2 DEF Origin, RowOf
<1>3. ASSUME NEW i \in 1..Len(wire[p]), wire[p][i] = JoinOf(c)
      PROVE  owner[p] = Home[c] /\ p \notin adding
  BY <1>3 DEF Origin, WireOf
<1> QED BY <1>2, <1>3 DEF WillList

LEMMA NextNoGhost ==
    ASSUME TypeOK, Life, Origin, NoGhost, [Next]_vars
    PROVE  NoGhost'
<1> SUFFICES ASSUME NEW p \in Session, NEW c \in Clients,
                    LinkUp(p)', WillList(p, c)', ~Connected(c)'
             PROVE  WillSend(p, c, LeaveOf(c))'
  BY DEF NoGhost
<1>1. LinkUp(p) /\ WillList(p, c)
  BY LinkUpFrom, WillListFrom
<1>2. owner[p] = Home[c] /\ p \notin adding
  BY <1>1, ListedFromPeer
<1>3. CASE Connected(c)
  <2>1. Leave(c)
    BY <1>3, StaysConnected
  <2>2. p \in sessions
    BY <1>1, <1>2 DEF Life, LifeOf, LinkUp
  <2>3. turn'[c] = "changed" /\ job'[c] = LeaveOf(c) /\ sessions' = sessions
    BY <2>1 DEF Leave, linkVars, TypeOK
  <2> QED BY <2>2, <2>3 DEF WillSend
<1>4. CASE WillSend(p, c, LeaveOf(c))
  <2>1. job[c] = LeaveOf(c) /\ stage[p] = "open"
    BY <1>1, <1>4 DEF WillSend, LinkUp
  <2>2. ~Forward(c, p)
    BY <2>1, LeaveSent
  <2> QED BY <1>1, <1>2, <1>4, <2>2, WillSendOn
<1> QED BY <1>1, <1>3, <1>4 DEF NoGhost

-----------------------------------------------------------------------------
(* Subscriptions.                                                          *)

LEMMA NextSubs ==
    ASSUME TypeOK, Subs, [Next]_vars
    PROVE  Subs'
<1> USE DEF linkVars, tableVars, syncVars, clientVars
<1> SUFFICES ASSUME NEW e \in Session, NEW s \in States PROVE SubscriptionsOf(e, s)'
  BY DEF Subs
<1>0. SubscriptionsOf(e, s)
  BY DEF Subs
<1>t. /\ stage \in [Session -> Stages]
      /\ subscriptions \in [States -> SUBSET (Holder \X Clients \X Channels)]
      /\ States \cap Session = {}
  BY ReplicationAssumption DEF TypeOK
<1>1. ASSUME subscriptions' = subscriptions,
             stage[e] \in {"open", "broken", "ended", "purging"} =>
                 stage'[e] \in {"open", "broken", "ended", "purging"}
      PROVE  SubscriptionsOf(e, s)'
  BY <1>0, <1>1 DEF SubscriptionsOf
<1>2. ASSUME NEW d \in Clients, ClientRequest(d) PROVE SubscriptionsOf(e, s)'
  <2>1. Home[d] \in States /\ Home[d] /= e
    BY <1>t, OwnerPeerType
  <2>2. ASSUME NEW g \in Channels, Subscribe(d, g) PROVE SubscriptionsOf(e, s)'
    BY <1>0, <1>t, <2>1, <2>2 DEF Subscribe, AddSubscription, SubscriptionsOf
  <2>3. ASSUME NEW g \in Channels, Unsubscribe(d, g) PROVE SubscriptionsOf(e, s)'
    BY <1>0, <1>t, <2>1, <2>3 DEF Unsubscribe, RemoveSubscription, SubscriptionsOf
  <2> QED BY <1>1, <1>2, <2>2, <2>3 DEF ClientRequest, Accept, Leave
<1>3. ASSUME NEW d \in Clients, PassOn(d) PROVE SubscriptionsOf(e, s)'
  BY <1>1, <1>3 DEF PassOn, GetSessions, Forward, Forwarded
<1>4. ASSUME NEW f \in Session, Open(f) \/ Fail(f) \/ ReadFailed(f) \/ PurgeClients(f)
      PROVE  SubscriptionsOf(e, s)'
  BY <1>t, <1>1, <1>4 DEF Open, Connect, AddSession, AcceptSession, Opened, Fail,
     HandshakeFailed, Disconnect, ReadFailed, PurgeClients
<1>5. ASSUME NEW f \in Session, PurgeSubscriptions(f) PROVE SubscriptionsOf(e, s)'
  <2>1. owner[f] \in States
    BY OwnerPeerType
  <2>2. subscriptions' = [subscriptions EXCEPT ![owner[f]] =
                             {r \in subscriptions[owner[f]] : r[1] /= f}]
    BY <1>5 DEF PurgeSubscriptions
  <2>3. ASSUME NEW c \in Clients, NEW g \in Channels, <<e, c, g>> \in subscriptions'[s]
        PROVE  owner[e] = s /\ stage'[e] \in {"open", "broken", "ended", "purging"}
    <3>1. <<e, c, g>> \in subscriptions[s]
      BY <1>t, <2>1, <2>2, <2>3
    <3>2. owner[e] = s /\ stage[e] \in {"open", "broken", "ended", "purging"}
      BY <1>0, <3>1 DEF SubscriptionsOf
    <3>3. f /= e
      BY <1>t, <2>1, <2>2, <2>3, <3>2
    <3> QED BY <1>t, <1>5, <3>2, <3>3 DEF PurgeSubscriptions
  <2> QED BY <2>3 DEF SubscriptionsOf
<1>6. ASSUME NEW f \in Session, Read(f) PROVE SubscriptionsOf(e, s)'
  <2>1. owner[f] \in States
    BY OwnerPeerType
  <2>2. ASSUME NEW d \in Clients, NEW g \in Channels, ReadSubscribe(f, d, g)
        PROVE  SubscriptionsOf(e, s)'
    <3>1. stage[f] = "open" /\ stage' = stage
      BY <2>2 DEF ReadSubscribe, Reads
    <3> QED BY <1>0, <1>t, <2>1, <2>2, <3>1 DEF ReadSubscribe, AddSubscription,
         SubscriptionsOf
  <2>3. ASSUME NEW d \in Clients, NEW g \in Channels, ReadUnsubscribe(f, d, g)
        PROVE  SubscriptionsOf(e, s)'
    BY <1>0, <1>t, <2>1, <2>3 DEF ReadUnsubscribe, RemoveSubscription, SubscriptionsOf
  <2> QED BY <1>1, <1>6, <2>2, <2>3 DEF Read, ReadJoin, ReadLeave, ReadRegister
<1>7. ASSUME NEW f \in Session, ReadFailed(f) \/ Sync(f) PROVE SubscriptionsOf(e, s)'
  BY <1>t, <1>1, <1>7 DEF ReadFailed, Sync, SyncSend, SyncUnlock, SyncSubscriptions
<1>8. CASE UNCHANGED vars
  BY <1>1, <1>8 DEF vars
<1> QED BY <1>2, <1>3, <1>4, <1>5, <1>6, <1>7, <1>8 DEF Next, Destroy

-----------------------------------------------------------------------------
(* The theorems.                                                           *)

LEMMA InitIInv == Init => IInv
<1> SUFFICES ASSUME Init PROVE IInv
  OBVIOUS
<1>1. TypeOK /\ Life /\ Origin
  BY InitType, InitLife, InitOrigin
<1>2. Subs
  BY DEF Init, Subs, SubscriptionsOf
<1>3. NoGhost
  <2> SUFFICES ASSUME NEW p \in Session PROVE ~LinkUp(p)
    BY DEF NoGhost
  <2> QED BY DEF Init, LinkUp
<1> QED BY <1>1, <1>2, <1>3 DEF IInv

LEMMA NextIInv == IInv /\ [Next]_vars => IInv'
<1> SUFFICES ASSUME TypeOK, Life, Origin, Subs, NoGhost, [Next]_vars
             PROVE  TypeOK' /\ Life' /\ Origin' /\ Subs' /\ NoGhost'
  BY DEF IInv
<1>1. TypeOK'
  BY NextType
<1>2. Life' /\ Origin'
  BY NextLife, NextOrigin
<1>3. Subs' /\ NoGhost'
  BY NextSubs, NextNoGhost
<1> QED BY <1>1, <1>2, <1>3

LEMMA Inductive == Spec => []IInv
BY InitIInv, NextIInv, PTL DEF Spec

(* A session is listed while it can send and not longer, and nothing uses  *)
(* a session whose destructor has begun: the order of add_session, run and *)
(* remove_session in session_listener, session_handler and session.        *)
THEOREM ListedInTime == Spec => []Listing
<1>1. IInv => Listing
  <2> SUFFICES ASSUME IInv, NEW e \in Session
               PROVE  /\ stage[e] \in {"open", "broken"} /\ e \notin adding => e \in sessions
                      /\ stage[e] = "ended" /\ e \in sessions => e \in Introduced
                      /\ stage[e] \in {"purging", "released"} => ~Referenced(e)
    BY DEF Listing
  <2>1. LifeOf(e)
    BY DEF IInv, Life
  <2> QED BY <2>1 DEF LifeOf, Referenced
<1> QED BY <1>1, Inductive, PTL

(* No row of a client or of a subscription outlives the session it came    *)
(* over: what session::~session removes is all that was put down, even if  *)
(* requests were being handled when the link broke.                        *)
THEOREM RowsHaveSessions == Spec => []NoOrphans
<1>1. IInv => NoOrphans
  <2> SUFFICES ASSUME IInv, NEW e \in Session, NEW s \in States, NEW c \in Clients
               PROVE  /\ clients[s][c] = e =>
                            owner[e] = s /\ stage[e] \in {"open", "broken", "ended"}
                      /\ \A ch \in Channels : <<e, c, ch>> \in subscriptions[s] =>
                            owner[e] = s /\ stage[e] \in {"open", "broken", "ended", "purging"}
    BY DEF NoOrphans
  <2>1. RowOf(s, c) /\ SubscriptionsOf(e, s)
    BY DEF IInv, Origin, Subs
  <2> QED BY <2>1 DEF RowOf, SubscriptionsOf
<1> QED BY <1>1, Inductive, PTL

(* No ghosts, however many states, links and clients there are: whoever is *)
(* going to be listed over a working link is connected, or the news that   *)
(* it left is about to be sent over that link (state::sync under the lock  *)
(* of clients_, join_to_sessions, leave_to_sessions).                      *)
THEOREM GhostFree == Spec => []NoGhost
<1>1. IInv => NoGhost
  BY DEF IInv
<1> QED BY <1>1, Inductive, PTL
=============================================================================
