---------------------------- MODULE Replication -----------------------------
(***************************************************************************)
(* How the states of a cluster keep track of each other's clients and      *)
(* subscriptions.                                                          *)
(*                                                                         *)
(* A state is one process.  It keeps three tables (state.hpp): sessions_,  *)
(* its ends of the links to other states; clients_, one row per client id  *)
(* with the session it came through (the state's own id for a client that  *)
(* is connected here); subscriptions_, the same per client and channel.    *)
(* When a client comes, goes, subscribes or unsubscribes, its state        *)
(* changes its own table and then tells every session; a state that gets   *)
(* a "register" over a session tells that session everything it has        *)
(* (state::sync).  What arrives over a session is put down under that      *)
(* session and removed when the session object is destroyed.               *)
(*                                                                         *)
(* Every table has a lock of its own.  A step here is what one thread does *)
(* between two points where another can see it: one table operation, or    *)
(* one message handed to the socket of one session.  The way from there to *)
(* the peer is the first-in first-out channel that Outbox implements.      *)
(***************************************************************************)
EXTENDS Naturals, Sequences

CONSTANTS
    States,         \* the processes, by their ids
    Session,        \* the session objects: the two ends of each link
    owner,          \* owner[e]: the state that holds end e
    peer,           \* peer[e]: the other end of the link
    Remote,         \* the ends that opened their link (session_context remote)
    Introduced,     \* those of them opened by session_handler, at any time;
                    \*   the others are opened by server::start
    Clients,        \* the clients, by their ids
    Home,           \* Home[c]: the state c connects to
    Channels,
    MaxRequests,    \* bound: how often a client subscribes or unsubscribes
    None            \* no row, no client, no channel

ASSUME ReplicationAssumption ==
    /\ owner \in [Session -> States]
    /\ peer \in [Session -> Session]
    /\ \A e \in Session : /\ peer[peer[e]] = e
                          /\ owner[peer[e]] /= owner[e]
                          /\ (e \in Remote) = (peer[e] \notin Remote)
    /\ Remote \subseteq Session
    /\ Introduced \subseteq Remote
    /\ Home \in [Clients -> States]
    /\ MaxRequests \in Nat
    /\ States \cap Session = {}
    /\ None \notin States \cup Session \cup Clients \cup Channels

-----------------------------------------------------------------------------
(* The requests that travel over a link.  Acknowledgements change nothing  *)
(* and are left out.                                                       *)

JoinOf(c)            == [action |-> "join", client |-> c, channel |-> None]
LeaveOf(c)           == [action |-> "leave", client |-> c, channel |-> None]
SubscribeOf(c, ch)   == [action |-> "subscribe", client |-> c, channel |-> ch]
UnsubscribeOf(c, ch) == [action |-> "unsubscribe", client |-> c, channel |-> ch]
RegisterRequest      == [action |-> "register", client |-> None, channel |-> None]

Update ==
    [action : {"join", "leave"}, client : Clients, channel : {None}] \cup
    [action : {"subscribe", "unsubscribe"}, client : Clients, channel : Channels]

Message == Update \cup {RegisterRequest}

Holder == States \cup Session       \* what a row may be put down under

VARIABLES
    stage,          \* stage[e]: the life of session object e, see Stages
    adding,         \* the ends that run but are not yet put into sessions_
    sessions,       \* the ends listed in the sessions_ of their owner
    registered,     \* the ends marked with mark_as_registered
    clients,        \* clients[s][c]: the session of the row of c in clients_
    subscriptions,  \* subscriptions[s]: rows <<session, client, channel>>
    wire,           \* wire[e]: sent by e and not yet read by its peer
    sync,           \* sync[e]: where the register handler of e is in sync
    left,           \* left[e]: what that sync has still to send
    turn,           \* turn[c]: what the thread that serves client c does
    job,            \* job[c]: the update that thread is passing on
    snapshot,       \* snapshot[c]: the sessions it got from get_sessions
    todo,           \* todo[c]: those of them not sent to yet
    requests        \* requests[c]: how many requests c has made

vars == <<stage, adding, sessions, registered, clients, subscriptions, wire,
          sync, left, turn, job, snapshot, todo, requests>>
linkVars == <<stage, adding, sessions, registered, wire>>
tableVars == <<clients, subscriptions>>
syncVars == <<sync, left>>
clientVars == <<turn, job, snapshot, todo, requests>>

(***************************************************************************)
(* absent      not created yet                                             *)
(* handshake   the websocket handshake is in progress: is_open() is false  *)
(* open        is_open(): it sends and reads                               *)
(* broken      the socket has failed and no handler knows yet              *)
(* ended       its last handler has returned                               *)
(* purging     its destructor has removed its clients                      *)
(* released    its destructor has removed its subscriptions too            *)
(***************************************************************************)
Stages == {"absent", "handshake", "open", "broken", "ended", "purging", "released"}

TypeOK ==
    /\ stage \in [Session -> Stages]
    /\ adding \subseteq Introduced
    /\ sessions \subseteq Session
    /\ registered \subseteq Session
    /\ clients \in [States -> [Clients -> Holder \cup {None}]]
    /\ subscriptions \in [States -> SUBSET (Holder \X Clients \X Channels)]
    /\ wire \in [Session -> Seq(Message)]
    /\ sync \in [Session -> {"idle", "clients", "between", "subscriptions"}]
    /\ left \in [Session -> SUBSET Update]
    /\ turn \in [Clients -> {"out", "changed", "sending", "ready", "gone"}]
    /\ job \in [Clients -> Update]
    /\ snapshot \in [Clients -> SUBSET Session]
    /\ todo \in [Clients -> SUBSET Session]
    /\ requests \in [Clients -> 0..MaxRequests]
    /\ \A e \in Session : sync[e] \in {"idle", "between"} => left[e] = {}
    /\ \A c \in Clients : todo[c] \subseteq snapshot[c]

\* server::start has connected the configured links and listed them; no io
\* thread has run before.
Seeds == Remote \ Introduced

Init ==
    /\ stage = [e \in Session |-> IF e \in Seeds THEN "handshake" ELSE "absent"]
    /\ adding = {}
    /\ sessions = Seeds
    /\ registered = {}
    /\ clients = [s \in States |-> [c \in Clients |-> None]]
    /\ subscriptions = [s \in States |-> {}]
    /\ wire = [e \in Session |-> <<>>]
    /\ sync = [e \in Session |-> "idle"]
    /\ left = [e \in Session |-> {}]
    /\ turn = [c \in Clients |-> "out"]
    /\ job = [c \in Clients |-> JoinOf(c)]
    /\ snapshot = [c \in Clients |-> {}]
    /\ todo = [c \in Clients |-> {}]
    /\ requests = [c \in Clients |-> 0]

-----------------------------------------------------------------------------
(* The tables.  sync holds a shared lock on clients_ and then on           *)
(* subscriptions_ while it sends their rows: nobody writes to them then.   *)

\* Mutants of the next two: sync sends from a copy of the rows, without the lock.
ClientsNeverLocked(s) == FALSE
SubscriptionsNeverLocked(s) == FALSE

ClientsLocked(s) == \E e \in Session : owner[e] = s /\ sync[e] = "clients"

SubscriptionsLocked(s) ==
    \E e \in Session : owner[e] = s /\ sync[e] = "subscriptions"

\* Mutant of AddClient: a row that is there is taken over (insert_or_assign).
AddClientOver(s, c, id) ==
    /\ ~ClientsLocked(s)
    /\ clients' = [clients EXCEPT ![s] = [@ EXCEPT ![c] = id]]

\* add_client: ids are unique in clients_, whatever session a row came through.
AddClient(s, c, id) ==
    /\ ~ClientsLocked(s)
    /\ clients' = [clients EXCEPT ![s] = [@ EXCEPT ![c] =
                      IF clients[s][c] = None THEN id ELSE clients[s][c]]]

\* remove_client asks for the client id only.
RemoveClient(s, c) ==
    /\ ~ClientsLocked(s)
    /\ clients' = [clients EXCEPT ![s] = [@ EXCEPT ![c] = None]]

AddSubscription(s, id, c, ch) ==
    /\ ~SubscriptionsLocked(s)
    /\ subscriptions' = [subscriptions EXCEPT ![s] = @ \cup {<<id, c, ch>>}]

RemoveSubscription(s, id, c, ch) ==
    /\ ~SubscriptionsLocked(s)
    /\ subscriptions' = [subscriptions EXCEPT ![s] = @ \ {<<id, c, ch>>}]

-----------------------------------------------------------------------------
(* A client and the thread that serves it: the listener until run(), then  *)
(* the strand of the client, so one step after the other.                  *)

\* client_listener::on_accept: the row first, the news after.
Accept(c) ==
    /\ turn[c] = "out"
    /\ AddClient(Home[c], c, Home[c])
    /\ job' = [job EXCEPT ![c] = JoinOf(c)]
    /\ turn' = [turn EXCEPT ![c] = "changed"]
    /\ UNCHANGED <<subscriptions, snapshot, todo, requests, linkVars, syncVars>>

\* client::on_read and on_accept with an error.  Subscriptions stay.
Leave(c) ==
    /\ turn[c] = "ready"
    /\ RemoveClient(Home[c], c)
    /\ job' = [job EXCEPT ![c] = LeaveOf(c)]
    /\ turn' = [turn EXCEPT ![c] = "changed"]
    /\ UNCHANGED <<subscriptions, snapshot, todo, requests, linkVars, syncVars>>

\* subscribe_handler, on_client: the news is passed on even if there was
\* such a row already.
Subscribe(c, ch) ==
    /\ turn[c] = "ready"
    /\ requests[c] < MaxRequests
    /\ AddSubscription(Home[c], Home[c], c, ch)
    /\ job' = [job EXCEPT ![c] = SubscribeOf(c, ch)]
    /\ turn' = [turn EXCEPT ![c] = "changed"]
    /\ requests' = [requests EXCEPT ![c] = @ + 1]
    /\ UNCHANGED <<clients, snapshot, todo, linkVars, syncVars>>

\* unsubscribe_handler, on_client.
Unsubscribe(c, ch) ==
    /\ turn[c] = "ready"
    /\ requests[c] < MaxRequests
    /\ RemoveSubscription(Home[c], Home[c], c, ch)
    /\ job' = [job EXCEPT ![c] = UnsubscribeOf(c, ch)]
    /\ turn' = [turn EXCEPT ![c] = "changed"]
    /\ requests' = [requests EXCEPT ![c] = @ + 1]
    /\ UNCHANGED <<clients, snapshot, todo, linkVars, syncVars>>

\* send_to_sessions: get_sessions copies the table under its lock ...
GetSessions(c) ==
    /\ turn[c] = "changed"
    /\ snapshot' = [snapshot EXCEPT ![c] = {e \in sessions : owner[e] = Home[c]}]
    /\ todo' = [todo EXCEPT ![c] = {e \in sessions : owner[e] = Home[c]}]
    /\ turn' = [turn EXCEPT ![c] = "sending"]
    /\ UNCHANGED <<job, requests, linkVars, tableVars, syncVars>>

\* session::send: a session that is not open drops the message.
Sent(e, m) == IF stage[e] = "open" THEN [wire EXCEPT ![e] = Append(@, m)] ELSE wire

\* ... and the sessions of the copy are sent to, one after the other ...
Forward(c, e) ==
    /\ turn[c] = "sending"
    /\ e \in todo[c]
    /\ wire' = Sent(e, job[c])
    /\ todo' = [todo EXCEPT ![c] = @ \ {e}]
    /\ UNCHANGED <<stage, adding, sessions, registered, turn, job, snapshot,
                   requests, tableVars, syncVars>>

\* ... and then the copy, which kept them alive, is destroyed.
Forwarded(c) ==
    /\ turn[c] = "sending"
    /\ todo[c] = {}
    /\ snapshot' = [snapshot EXCEPT ![c] = {}]
    /\ turn' = [turn EXCEPT ![c] =
                    IF job[c] = LeaveOf(c) THEN "gone" ELSE "ready"]
    /\ UNCHANGED <<job, todo, requests, linkVars, tableVars, syncVars>>

-----------------------------------------------------------------------------
(* The life of a link.                                                     *)

\* session_handler: run(remote) first, add_session after.
Connect(e) ==
    /\ e \in Introduced
    /\ stage[e] = "absent"
    /\ stage' = [stage EXCEPT ![e] = "handshake"]
    /\ adding' = adding \cup {e}
    /\ UNCHANGED <<sessions, registered, wire, tableVars, syncVars, clientVars>>

AddSession(e) ==
    /\ e \in adding
    /\ adding' = adding \ {e}
    /\ sessions' = sessions \cup {e}
    /\ UNCHANGED <<stage, registered, wire, tableVars, syncVars, clientVars>>

\* session_listener::on_accept: add_session first, run(local) after.
AcceptSession(e) ==
    /\ e \notin Remote
    /\ stage[e] = "absent"
    /\ stage[peer[e]] /= "absent"
    /\ stage' = [stage EXCEPT ![e] = "handshake"]
    /\ sessions' = sessions \cup {e}
    /\ UNCHANGED <<adding, registered, wire, tableVars, syncVars, clientVars>>

\* session::on_accept: whoever opened the link asks to be registered.
Opened(e) ==
    /\ stage[e] = "handshake"
    /\ stage[peer[e]] /= "absent"
    /\ stage' = [stage EXCEPT ![e] = "open"]
    /\ wire' = IF e \in Remote THEN [wire EXCEPT ![e] = Append(@, RegisterRequest)]
                               ELSE wire
    /\ UNCHANGED <<adding, sessions, registered, tableVars, syncVars, clientVars>>

\* session::on_accept with an error: remove_session.
HandshakeFailed(e) ==
    /\ stage[e] = "handshake"
    /\ stage' = [stage EXCEPT ![e] = "ended"]
    /\ sessions' = sessions \ {e}
    /\ UNCHANGED <<adding, registered, wire, tableVars, syncVars, clientVars>>

\* The peer closes, a process dies, the network fails: is_open() turns false.
Disconnect(e) ==
    /\ stage[e] = "open"
    /\ stage' = [stage EXCEPT ![e] = "broken"]
    /\ UNCHANGED <<adding, sessions, registered, wire, tableVars, syncVars, clientVars>>

\* Mutant of ReadFailed: the session stays listed.
ReadFailedListed(e) ==
    /\ stage[e] = "broken"
    /\ sync[e] = "idle"
    /\ stage' = [stage EXCEPT ![e] = "ended"]
    /\ UNCHANGED <<adding, sessions, registered, wire, tableVars, syncVars, clientVars>>

\* session::on_read with an error: remove_session.  There is no pending read
\* while a request is being handled.
ReadFailed(e) ==
    /\ stage[e] = "broken"
    /\ sync[e] = "idle"
    /\ stage' = [stage EXCEPT ![e] = "ended"]
    /\ sessions' = sessions \ {e}
    /\ UNCHANGED <<adding, registered, wire, tableVars, syncVars, clientVars>>

\* Whatever holds a shared_ptr to e: its handlers, the table, session_handler
\* and the copies of the table.
Referenced(e) ==
    \/ stage[e] \in {"handshake", "open", "broken"}
    \/ e \in sessions
    \/ e \in adding
    \/ \E c \in Clients : e \in snapshot[c]

\* Mutants of PurgeClients: copies of the table do not keep a session alive;
\* the rows are left behind.
PurgeClientsEager(e) ==
    /\ stage[e] = "ended"
    /\ e \notin sessions
    /\ ~ClientsLocked(owner[e])
    /\ clients' = [clients EXCEPT ![owner[e]] =
                      [c \in Clients |-> IF @[c] = e THEN None ELSE @[c]]]
    /\ stage' = [stage EXCEPT ![e] = "purging"]
    /\ UNCHANGED <<adding, sessions, registered, wire, subscriptions, syncVars, clientVars>>

PurgeClientsKept(e) ==
    /\ stage[e] = "ended"
    /\ ~Referenced(e)
    /\ stage' = [stage EXCEPT ![e] = "purging"]
    /\ UNCHANGED <<adding, sessions, registered, wire, tableVars, syncVars, clientVars>>

\* session::~session: remove_state_of_session, the clients ...
PurgeClients(e) ==
    /\ stage[e] = "ended"
    /\ ~Referenced(e)
    /\ ~ClientsLocked(owner[e])
    /\ clients' = [clients EXCEPT ![owner[e]] =
                      [c \in Clients |-> IF @[c] = e THEN None ELSE @[c]]]
    /\ stage' = [stage EXCEPT ![e] = "purging"]
    /\ UNCHANGED <<adding, sessions, registered, wire, subscriptions, syncVars, clientVars>>

\* Mutant of PurgeSubscriptions: only the clients are removed.
PurgeSubscriptionsKept(e) ==
    /\ stage[e] = "purging"
    /\ stage' = [stage EXCEPT ![e] = "released"]
    /\ UNCHANGED <<adding, sessions, registered, wire, tableVars, syncVars, clientVars>>

\* ... and then the subscriptions.
PurgeSubscriptions(e) ==
    /\ stage[e] = "purging"
    /\ ~SubscriptionsLocked(owner[e])
    /\ subscriptions' = [subscriptions EXCEPT ![owner[e]] = {r \in @ : r[1] /= e}]
    /\ stage' = [stage EXCEPT ![e] = "released"]
    /\ UNCHANGED <<adding, sessions, registered, wire, clients, syncVars, clientVars>>

-----------------------------------------------------------------------------
(* What session::on_read and the kernel do with a request.                 *)

\* The next message for e is m and is taken off the wire.
Reads(e, m) ==
    /\ stage[e] = "open"
    /\ sync[e] = "idle"
    /\ wire[peer[e]] /= <<>>
    /\ m = Head(wire[peer[e]])
    /\ wire' = [wire EXCEPT ![peer[e]] = Tail(@)]

\* join_handler, on_session.
ReadJoin(e, c) ==
    /\ Reads(e, JoinOf(c))
    /\ AddClient(owner[e], c, e)
    /\ UNCHANGED <<stage, adding, sessions, registered, subscriptions, syncVars, clientVars>>

\* leave_handler, on_session: whatever session the row came through.
ReadLeave(e, c) ==
    /\ Reads(e, LeaveOf(c))
    /\ RemoveClient(owner[e], c)
    /\ UNCHANGED <<stage, adding, sessions, registered, subscriptions, syncVars, clientVars>>

\* subscribe_handler, on_session.
ReadSubscribe(e, c, ch) ==
    /\ Reads(e, SubscribeOf(c, ch))
    /\ AddSubscription(owner[e], e, c, ch)
    /\ UNCHANGED <<stage, adding, sessions, registered, clients, syncVars, clientVars>>

\* unsubscribe_handler, on_session.
ReadUnsubscribe(e, c, ch) ==
    /\ Reads(e, UnsubscribeOf(c, ch))
    /\ RemoveSubscription(owner[e], e, c, ch)
    /\ UNCHANGED <<stage, adding, sessions, registered, clients, syncVars, clientVars>>

\* Mutant of LocalClients: the clients of all sessions but this state's own.
ForeignClients(s) == {c \in Clients : clients[s][c] \in Session}

LocalClients(s) == {c \in Clients : clients[s][c] = s}

\* register_handler, on_session, up to the loop of sync over the clients:
\* it runs under the lock of the table.  (Introducing the other sessions
\* comes before it and touches no table.)
ReadRegister(e) ==
    /\ Reads(e, RegisterRequest)
    /\ IF e \in sessions
       THEN /\ registered' = registered \cup {e}
            /\ sync' = [sync EXCEPT ![e] = "clients"]
            /\ left' = [left EXCEPT ![e] = {JoinOf(c) : c \in LocalClients(owner[e])}]
       ELSE UNCHANGED <<registered, sync, left>>
    /\ UNCHANGED <<stage, adding, sessions, tableVars, clientVars>>

\* One turn of either loop.
SyncSend(e, m) ==
    /\ m \in left[e]
    /\ wire' = Sent(e, m)
    /\ left' = [left EXCEPT ![e] = @ \ {m}]
    /\ UNCHANGED <<stage, adding, sessions, registered, sync, tableVars, clientVars>>

\* Mutant of SyncUnlock: the loop is left early.
SyncUnlockEarly(e) ==
    /\ sync[e] \in {"clients", "subscriptions"}
    /\ sync' = [sync EXCEPT ![e] = IF @ = "clients" THEN "between" ELSE "idle"]
    /\ UNCHANGED <<left, linkVars, tableVars, clientVars>>

\* The end of either loop: the lock is released.
SyncUnlock(e) ==
    /\ sync[e] \in {"clients", "subscriptions"}
    /\ left[e] = {}
    /\ sync' = [sync EXCEPT ![e] = IF @ = "clients" THEN "between" ELSE "idle"]
    /\ UNCHANGED <<left, linkVars, tableVars, clientVars>>

\* Mutant of SyncSubscriptions: the rows of the session itself are sent back.
SyncSubscriptionsBack(e) ==
    /\ sync[e] = "between"
    /\ sync' = [sync EXCEPT ![e] = "subscriptions"]
    /\ left' = [left EXCEPT ![e] =
                   {SubscribeOf(r[2], r[3]) :
                       r \in {x \in subscriptions[owner[e]] : x[1] = e}}]
    /\ UNCHANGED <<linkVars, tableVars, clientVars>>

\* The loop over the subscriptions.
SyncSubscriptions(e) ==
    /\ sync[e] = "between"
    /\ sync' = [sync EXCEPT ![e] = "subscriptions"]
    /\ left' = [left EXCEPT ![e] =
                   {SubscribeOf(r[2], r[3]) :
                       r \in {x \in subscriptions[owner[e]] : x[1] = owner[e]}}]
    /\ UNCHANGED <<linkVars, tableVars, clientVars>>

-----------------------------------------------------------------------------
ClientRequest(c) ==
    \/ Accept(c)
    \/ Leave(c)
    \/ \E ch \in Channels : Subscribe(c, ch) \/ Unsubscribe(c, ch)

PassOn(c) ==
    \/ GetSessions(c)
    \/ \E e \in Session : Forward(c, e)
    \/ Forwarded(c)

Open(e) == Connect(e) \/ AddSession(e) \/ AcceptSession(e) \/ Opened(e)

Fail(e) == HandshakeFailed(e) \/ Disconnect(e)

Destroy(e) == PurgeClients(e) \/ PurgeSubscriptions(e)

Read(e) ==
    \/ \E c \in Clients : ReadJoin(e, c) \/ ReadLeave(e, c)
    \/ \E c \in Clients, ch \in Channels :
          ReadSubscribe(e, c, ch) \/ ReadUnsubscribe(e, c, ch)
    \/ ReadRegister(e)

Sync(e) == (\E m \in left[e] : SyncSend(e, m)) \/ SyncUnlock(e) \/ SyncSubscriptions(e)

Next ==
    \/ \E c \in Clients : ClientRequest(c) \/ PassOn(c)
    \/ \E e \in Session : \/ Open(e) \/ Fail(e) \/ ReadFailed(e) \/ Destroy(e)
                          \/ Read(e) \/ Sync(e)

Spec == Init /\ [][Next]_vars

\* The io threads run every handler that is ready, a handshake that has begun
\* ends, well or not, and a socket notices that its peer is gone.  Nobody has
\* to connect, to leave, to ask or to cut a working link.
PeerGone(e) == stage[peer[e]] \in {"broken", "ended", "purging", "released"}

Fairness ==
    /\ \A c \in Clients : WF_vars(PassOn(c))
    /\ \A e \in Session :
          /\ WF_vars(AddSession(e))
          /\ WF_vars(AcceptSession(e))
          /\ WF_vars(Opened(e) \/ HandshakeFailed(e))
          /\ WF_vars(PeerGone(e) /\ Disconnect(e))
          /\ WF_vars(ReadFailed(e))
          /\ WF_vars(Destroy(e))
          /\ WF_vars(Read(e))
          /\ WF_vars(Sync(e))

FairSpec == Spec /\ Fairness

-----------------------------------------------------------------------------
(* Safety.                                                                 *)

\* What is sent over p still gets read.
LinkUp(p) == stage[p] = "open" /\ stage[peer[p]] \in {"handshake", "open"}

\* Behind position i of the wire of p there is no m.
NoneBehind(p, i, m) == \A j \in 1..Len(wire[p]) : j > i => wire[p][j] /= m

\* Once the peer of p has read what is on the wire it lists c through this link.
WillList(p, c) ==
    \/ clients[owner[peer[p]]][c] = peer[p] /\ NoneBehind(p, 0, LeaveOf(c))
    \/ \E i \in 1..Len(wire[p]) :
          wire[p][i] = JoinOf(c) /\ NoneBehind(p, i, LeaveOf(c))

\* ... it holds the subscription of c to ch.
WillHold(p, c, ch) ==
    \/ /\ <<peer[p], c, ch>> \in subscriptions[owner[peer[p]]]
       /\ NoneBehind(p, 0, UnsubscribeOf(c, ch))
    \/ \E i \in 1..Len(wire[p]) :
          wire[p][i] = SubscribeOf(c, ch) /\ NoneBehind(p, i, UnsubscribeOf(c, ch))

Connected(c) == clients[Home[c]][c] = Home[c]

Subscribed(c, ch) == <<Home[c], c, ch>> \in subscriptions[Home[c]]

\* The thread of c is about to send m over p.
WillSend(p, c, m) ==
    /\ job[c] = m
    /\ \/ turn[c] = "changed" /\ p \in sessions
       \/ turn[c] = "sending" /\ p \in todo[c]

(* A session object is in sessions_ for as long as it can send, so that no *)
(* update passes it by, and not longer, so that it is destroyed; only an   *)
(* end opened by session_handler, which runs it before it lists it, can be *)
(* listed when it is already over.  Nothing is used after its destructor.  *)
Listing ==
    \A e \in Session :
        /\ stage[e] \in {"open", "broken"} /\ e \notin adding => e \in sessions
        /\ stage[e] = "ended" /\ e \in sessions => e \in Introduced
        /\ stage[e] \in {"purging", "released"} => ~Referenced(e)

(* No row outlives its session: what came over a link is put down by a     *)
(* session that still exists and its destructor removes all of it, clients *)
(* first (remove_state_of_session), even when requests were still being    *)
(* handled when the link broke.                                            *)
NoOrphans ==
    \A e \in Session, s \in States, c \in Clients :
        /\ clients[s][c] = e =>
              owner[e] = s /\ stage[e] \in {"open", "broken", "ended"}
        /\ \A ch \in Channels : <<e, c, ch>> \in subscriptions[s] =>
              owner[e] = s /\ stage[e] \in {"open", "broken", "ended", "purging"}

(* No ghosts: if a state is going to list a client over a working link,    *)
(* then that client is connected, or the news that it left is on its way   *)
(* to that very link.  sync, joins and leaves race for this: a join sent   *)
(* by sync after the leave would stay in the peer's table for ever.        *)
NoGhost ==
    \A p \in Session, c \in Clients :
        LinkUp(p) /\ WillList(p, c) =>
            Connected(c) \/ WillSend(p, c, LeaveOf(c))

(* The same for the subscriptions, which subscribe_handler passes on and   *)
(* sync repeats.                                                           *)
NoGhostSubscription ==
    \A p \in Session, c \in Clients, ch \in Channels :
        LinkUp(p) /\ WillHold(p, c, ch) =>
            Subscribed(c, ch) \/ WillSend(p, c, UnsubscribeOf(c, ch))

\* The register request that came over p has been answered in full.
Synced(p) == p \in registered /\ sync[p] = "idle"

\* The only link between its two states.
SoleLink(p) ==
    \A q \in Session : owner[q] = owner[p] /\ owner[peer[q]] = owner[peer[p]] => q = p

(* Nobody is forgotten: once a session is synced, its peer is going to     *)
(* list every client that is connected here, whether it came before, while *)
(* or after sync read the table.                                           *)
ClientsKnown ==
    \A p \in Session, c \in Clients :
        LinkUp(p) /\ Synced(p) /\ SoleLink(p) /\ Home[c] = owner[p] /\ Connected(c) =>
            WillList(p, c) \/ WillSend(p, c, JoinOf(c))

(* The same for subscriptions; other links of the pair do not matter here. *)
SubscriptionsKnown ==
    \A p \in Session, c \in Clients, ch \in Channels :
        LinkUp(p) /\ Synced(p) /\ Home[c] = owner[p] /\ Subscribed(c, ch) =>
            WillHold(p, c, ch) \/ WillSend(p, c, SubscribeOf(c, ch))

\* Nothing is under way: no news to pass on, nothing to read, no sync to finish.
Quiet ==
    /\ \A c \in Clients : turn[c] \in {"out", "ready", "gone"}
    /\ \A e \in Session : wire[e] = <<>> /\ sync[e] = "idle"

Clientele == INSTANCE Directory WITH
    came <- {c \in Clients : turn[c] /= "out"},
    row  <- clients,
    over <- {e \in Session : stage[e] \in {"ended", "purging", "released"}}

(* The tables of clients keep the promises of Directory: nobody is dropped  *)
(* from another state's table while it is connected and the link over which *)
(* it was announced is not over, no row is taken over by another session,   *)
(* and none is put down for a client that never came, however joins, leaves *)
(* and syncs of two links interleave with the destructors of their ends.    *)
IsDirectory == Clientele!Spec

(* docs/todo.md, line 23: when a client connects to a state, that state    *)
(* has to inform all other states.                                         *)
EveryStateInformed ==
    Quiet =>
        \A p \in Session, c \in Clients :
            LinkUp(p) /\ stage[peer[p]] = "open" /\ Home[c] = owner[p] /\ Connected(c) =>
                clients[owner[peer[p]]][c] /= None

-----------------------------------------------------------------------------
(* Liveness.                                                               *)

(* The session object of a link that ended is destroyed and with it what   *)
(* it had put down, unless session_handler opened the link.                *)
EndedIsReleased ==
    \A e \in Session \ Introduced : stage[e] = "ended" ~> stage[e] = "released"

(* A client that has left disappears from every table, by the news of it   *)
(* or by the end of the links through which it was known.                  *)
LeaveReachesAll ==
    \A c \in Clients : turn[c] = "gone" ~> \A s \in States : clients[s][c] = None

(* While a link works, the tables at its two ends come to agree on the     *)
(* clients and subscriptions of the end that accepted the link.            *)
Agree(p) ==
    \A c \in Clients : Home[c] = owner[p] =>
        /\ Connected(c) <=> clients[owner[peer[p]]][c] = peer[p]
        /\ \A ch \in Channels : Subscribed(c, ch) <=>
              <<peer[p], c, ch>> \in subscriptions[owner[peer[p]]]

Converges ==
    \A p \in Session \ Remote : (<>[]LinkUp(p)) => <>[]Agree(p)
=============================================================================
