------------------------------ MODULE Delivery ------------------------------
(***************************************************************************)
(* How messages of clients get to other clients.                           *)
(*                                                                         *)
(* A client asks its state to broadcast a payload, to publish it to a      *)
(* channel or to send it to one client.  The state gives it to its own     *)
(* clients, out of a copy of clients_, and then to sessions, out of a copy *)
(* of sessions_: all of them for a broadcast, those with a subscription to *)
(* the channel for a publish, the one the client is known through for a    *)
(* send.  A state that gets it over a session gives it to its own clients  *)
(* only.                                                                   *)
(*                                                                         *)
(* Every client and every session has a strand and handles one request     *)
(* after the other, but the strands of a state run at the same time and    *)
(* share its tables.  How these are kept is the matter of Replication: the *)
(* news of clients and subscriptions, and the opening and the closing of a *)
(* link with them, are single steps here.                                  *)
(***************************************************************************)
EXTENDS Naturals, Sequences, FiniteSets

CONSTANTS
    States,
    Clients,
    Home,           \* Home[c]: the state c connects to
    Channels,
    Link,           \* the pairs <<s, t>> such that s opens a link to t
    Width,          \* size_t is 2^Width
    MaxMessages,    \* bound: messages the clients send
    MaxChanges,     \* bound: how often they subscribe or unsubscribe
    Fragile,        \* bound: the links that may close
    None

ASSUME DeliveryAssumption ==
    /\ Home \in [Clients -> States]
    /\ Link \subseteq States \X States
    /\ \A l \in Link : l[1] /= l[2] /\ <<l[2], l[1]>> \notin Link
    /\ Width \in Nat \ {0} /\ 2^Width \in Nat \ {0}
    /\ MaxMessages \in Nat /\ MaxChanges \in Nat
    /\ Fragile \subseteq Link
    /\ IsFiniteSet(Clients) /\ IsFiniteSet(Channels)
    /\ States \cap Clients = {}
    \* Sessions have ids of their own.
    /\ (States \cup Clients) \cap (States \X States) = {}
    /\ None \notin States \cup Clients \cup Channels \cup (States \X States)

Peer(e) == <<e[2], e[1]>>
End == Link \cup {Peer(l) : l \in Link}     \* <<s, t>>: the session of s to t
Actor == Clients \cup End                   \* whatever has a strand
StateOf(a) == IF a \in Clients THEN Home[a] ELSE a[1]
Holder == States \cup End

VARIABLES
    stage,          \* stage[c]: what became of client c
    open,           \* the links that are open
    closed,         \* those that were
    clients,        \* clients[s][c]: the session of the row of c in clients_
    subscriptions,  \* subscriptions[s]: rows <<session, client, channel>>
    changes,        \* how many subscriptions and unsubscriptions there were
    wire,           \* wire[e]: sent by e and not yet read by its peer
    task,           \* task[a]: the message a is delivering, and how far it is
    todo,           \* todo[a]: the clients or sessions still to be given it
    count,          \* count[a]: what send_to_others_clients returned to a
    chosen,         \* chosen[a]: how many clients it had chosen
    inbox,          \* inbox[c]: the messages client c was given
    posted,         \* history: the messages so far
    audience        \* history: audience[i]: the clients message i is for, see AllReached

vars == <<stage, open, closed, clients, subscriptions, changes, wire, task, todo, count,
          chosen, inbox, posted, audience>>
tableVars == <<stage, open, closed, clients, subscriptions, changes>>
taskVars == <<task, todo, count, chosen, inbox, posted, audience>>

Payload == [kind : {"broadcast"}, from : Clients, to : {None}, id : 1..MaxMessages]
           \cup [kind : {"publish"}, from : Clients, to : Channels, id : 1..MaxMessages]
           \cup [kind : {"send"}, from : Clients, to : Clients, id : 1..MaxMessages]
News == [kind : {"join", "leave"}, from : Clients, to : {None}, id : {0}]
        \cup [kind : {"subscribe", "unsubscribe"}, from : Clients, to : Channels, id : {0}]

NewsOf(k, c, ch) == [kind |-> k, from |-> c, to |-> ch, id |-> 0]

\* A task goes over the clients first and over the sessions after.
NoTask == [step |-> "idle", msg |-> None]

TypeOK ==
    /\ stage \in [Clients -> {"out", "in", "left"}]
    /\ open \subseteq Link
    /\ closed \subseteq Link \ open
    /\ clients \in [States -> [Clients -> Holder \cup {None}]]
    /\ subscriptions \in [States -> SUBSET (Holder \X Clients \X Channels)]
    /\ changes \in 0..MaxChanges
    /\ wire \in [End -> Seq(Payload \cup News)]
    /\ task \in [Actor -> {NoTask} \cup [step : {"clients", "sessions"}, msg : Payload]]
    /\ todo \in [Actor -> SUBSET (Clients \cup End)]
    /\ \A a \in Actor :
          \/ task[a] = NoTask /\ todo[a] = {}
          \/ task[a].step = "clients" /\ todo[a] \subseteq Clients \ {task[a].msg.from}
          \/ task[a].step = "sessions" /\ todo[a] \subseteq End
    /\ count \in [Actor -> 0..(2^Width - 1)]
    /\ chosen \in [Actor -> 0..Cardinality(Clients)]
    /\ inbox \in [Clients -> Seq(Payload)]
    /\ posted \in Seq(Payload) /\ Len(posted) <= MaxMessages
    /\ audience \in [1..MaxMessages -> SUBSET Clients]

Init ==
    /\ stage = [c \in Clients |-> "out"]
    /\ open = {}
    /\ closed = {}
    /\ clients = [s \in States |-> [c \in Clients |-> None]]
    /\ subscriptions = [s \in States |-> {}]
    /\ changes = 0
    /\ wire = [e \in End |-> <<>>]
    /\ task = [a \in Actor |-> NoTask]
    /\ todo = [a \in Actor |-> {}]
    /\ count = [a \in Actor |-> 0]
    /\ chosen = [a \in Actor |-> 0]
    /\ inbox = [c \in Clients |-> <<>>]
    /\ posted = <<>>
    /\ audience = [i \in 1..MaxMessages |-> {}]

-----------------------------------------------------------------------------
Opened(e) == e \in open \/ Peer(e) \in open

OnWire(e) == {wire[e][i] : i \in 1..Len(wire[e])}

\* The sessions of state s that are open.
SessionsOf(s) == {e \in End : e[1] = s /\ Opened(e)}

\* send_to_sessions and session::send: what is not open drops the message.
Forwarded(s, m) ==
    [e \in End |-> IF e \in SessionsOf(s) THEN Append(wire[e], m) ELSE wire[e]]

\* client::send at state s: a row for a client of another state has no socket,
\* and the socket of one of its own may be closed by now.
Given(s, c, m) ==
    IF Home[c] = s /\ stage[c] = "in" THEN [inbox EXCEPT ![c] = Append(@, m)] ELSE inbox

-----------------------------------------------------------------------------
(* The tables.                                                             *)

\* Client c has left the audience of every message.
Forget(c) == audience' = [i \in 1..MaxMessages |-> audience[i] \ {c}]

\* Mutant of Accept: the client is run before it is added.
AcceptUnlisted(c) ==
    /\ stage[c] = "out"
    /\ stage' = [stage EXCEPT ![c] = "in"]
    /\ wire' = Forwarded(Home[c], NewsOf("join", c, None))
    /\ UNCHANGED <<open, closed, clients, subscriptions, changes, taskVars>>

\* client_listener::on_accept.
Accept(c) ==
    /\ stage[c] = "out"
    /\ stage' = [stage EXCEPT ![c] = "in"]
    /\ clients' = [clients EXCEPT ![Home[c]][c] = Home[c]]
    /\ wire' = Forwarded(Home[c], NewsOf("join", c, None))
    /\ UNCHANGED <<open, closed, subscriptions, changes, taskVars>>

\* client::on_read with an error; the subscriptions stay.
Leave(c) ==
    /\ stage[c] = "in"
    /\ task[c] = NoTask
    /\ stage' = [stage EXCEPT ![c] = "left"]
    /\ clients' = [clients EXCEPT ![Home[c]][c] = None]
    /\ wire' = Forwarded(Home[c], NewsOf("leave", c, None))
    /\ Forget(c)
    /\ UNCHANGED <<open, closed, subscriptions, changes, task, todo, count, chosen, inbox, posted>>

\* subscribe_handler, on_client.
Subscribe(c, ch) ==
    /\ changes < MaxChanges
    /\ changes' = changes + 1
    /\ stage[c] = "in"
    /\ task[c] = NoTask
    /\ <<Home[c], c, ch>> \notin subscriptions[Home[c]]
    /\ subscriptions' = [subscriptions EXCEPT ![Home[c]] = @ \cup {<<Home[c], c, ch>>}]
    /\ wire' = Forwarded(Home[c], NewsOf("subscribe", c, ch))
    /\ UNCHANGED <<stage, open, closed, clients, taskVars>>

\* unsubscribe_handler, on_client.
Unsubscribe(c, ch) ==
    /\ changes < MaxChanges
    /\ changes' = changes + 1
    /\ stage[c] = "in"
    /\ task[c] = NoTask
    /\ <<Home[c], c, ch>> \in subscriptions[Home[c]]
    /\ subscriptions' = [subscriptions EXCEPT ![Home[c]] = @ \ {<<Home[c], c, ch>>}]
    /\ wire' = Forwarded(Home[c], NewsOf("unsubscribe", c, ch))
    /\ Forget(c)
    /\ UNCHANGED <<stage, open, closed, clients, task, todo, count, chosen, inbox, posted>>

\* A link opens: the end that opened it registers and the other one sends its
\* clients and then its subscriptions (state::sync), in any order each.
Orders(S) == {q \in [1..Cardinality(S) -> S] : \A m \in S : \E i \in DOMAIN q : q[i] = m}

OpenLink(l) ==
    /\ l \notin open \cup closed
    /\ open' = open \cup {l}
    /\ LET t == l[2]
       IN  \E js \in Orders({NewsOf("join", c, None) :
                                c \in {d \in Clients : clients[t][d] = t}}),
              ss \in Orders({NewsOf("subscribe", r[2], r[3]) :
                                r \in {x \in subscriptions[t] : x[1] = t}}) :
              wire' = [wire EXCEPT ![Peer(l)] = js \o ss]
    /\ UNCHANGED <<stage, closed, clients, subscriptions, changes, taskVars>>

\* A link closes: what was on its way is lost and both ends remove the state
\* they had put down for it (remove_state_of_session).
CloseLink(l) ==
    /\ l \in Fragile
    /\ l \in open
    /\ task[l] = NoTask /\ task[Peer(l)] = NoTask
    /\ open' = open \ {l}
    /\ closed' = closed \cup {l}
    /\ clients' = [s \in States |-> [c \in Clients |->
                      IF clients[s][c] \in {l, Peer(l)} THEN None ELSE clients[s][c]]]
    /\ subscriptions' = [s \in States |->
                            {r \in subscriptions[s] : r[1] \notin {l, Peer(l)}}]
    /\ wire' = [wire EXCEPT ![l] = <<>>, ![Peer(l)] = <<>>]
    /\ audience' = [i \in 1..MaxMessages |-> IF i > Len(posted) THEN {} ELSE
                       {d \in audience[i] : {Home[d], Home[posted[i].from]} /= {l[1], l[2]}}]
    /\ UNCHANGED <<stage, changes, task, todo, count, chosen, inbox, posted>>

-----------------------------------------------------------------------------
(* send_to_others_clients.                                                 *)

\* Mutant of Others: the comparison with the own id is the wrong way round.
OthersForeign(s, c) == {d \in Clients : clients[s][d] /= s /\ d /= c}

\* The rows of the table that are given the message.
Others(s, c) == {d \in Clients : clients[s][d] = s /\ d /= c}

\* Mutant of Returned: not a std::size_t.
ReturnedSigned(s) == Cardinality({d \in Clients : clients[s][d] /= None}) - 1

\* What it returns: the size of the table less one.
Returned(s) ==
    (Cardinality({d \in Clients : clients[s][d] /= None}) + 2^Width - 1) % 2^Width

\* The copy of the table.
Begin(a, m) ==
    /\ task' = [task EXCEPT ![a] = [step |-> "clients", msg |-> m]]
    /\ todo' = [todo EXCEPT ![a] = Others(StateOf(a), m.from)]
    /\ count' = [count EXCEPT ![a] = Returned(StateOf(a))]
    /\ chosen' = [chosen EXCEPT ![a] = Cardinality(Others(StateOf(a), m.from))]

\* One turn of its loop.
GiveClient(a, c) ==
    /\ task[a].step = "clients"
    /\ c \in todo[a]
    /\ inbox' = Given(StateOf(a), c, task[a].msg)
    /\ todo' = [todo EXCEPT ![a] = @ \ {c}]
    /\ UNCHANGED <<wire, task, count, chosen, posted, audience, tableVars>>

-----------------------------------------------------------------------------
(* broadcast_handler, publish_handler and send_handler, on_client.         *)

\* The strand of c reads a request that is message m.
Asks(c, m) ==
    /\ stage[c] = "in"
    /\ task[c] = NoTask
    /\ Len(posted) < MaxMessages
    /\ posted' = Append(posted, m)

Message(k, c, to) == [kind |-> k, from |-> c, to |-> to, id |-> Len(posted) + 1]

For(D) == audience' = [audience EXCEPT ![Len(posted) + 1] = D]

\* The message is for everybody at a state with a session to this one.
Broadcast(c) ==
    LET m == Message("broadcast", c, None)
    IN  /\ Asks(c, m)
        /\ Begin(c, m)
        /\ For({d \in Clients \ {c} : stage[d] = "in" /\
                  (Home[d] = Home[c] \/ <<Home[c], Home[d]>> \in SessionsOf(Home[c]))})
        /\ UNCHANGED <<wire, inbox, tableVars>>

\* A subscription of d that s knows and that d is not about to end.
Follows(d, ch, s) ==
    /\ \E r \in subscriptions[s] : r[2] = d /\ r[3] = ch
    /\ \A e \in End : NewsOf("unsubscribe", d, ch) \notin OnWire(e)

\* The message is for the subscribers.  (The state's own clients are given it
\* whatever they have subscribed to.)
Publish(c, ch) ==
    LET m == Message("publish", c, ch)
    IN  /\ Asks(c, m)
        /\ Begin(c, m)
        /\ For({d \in Clients \ {c} : stage[d] = "in" /\ Follows(d, ch, Home[c])})
        /\ UNCHANGED <<wire, inbox, tableVars>>

\* The row decides: a client of this state, or a session that is sent to, or
\* "no effect".
Send(c, d) ==
    LET m == Message("send", c, d)
        s == Home[c]
        via == clients[s][d]
    IN  /\ Asks(c, m)
        /\ inbox' = IF via = s THEN Given(s, d, m) ELSE inbox
        /\ wire' = IF via \in SessionsOf(s)
                   THEN [wire EXCEPT ![via] = Append(@, m)] ELSE wire
        /\ For(IF via /= None /\ stage[d] = "in" THEN {d} ELSE {})
        /\ UNCHANGED <<task, todo, count, chosen, tableVars>>

\* Mutant of Receivers: the rows of this state itself are asked for.
ReceiversOwn(s, ch) ==
    {e \in SessionsOf(s) : \E r \in subscriptions[s] : r[3] = ch /\ r[1] = s}

\* send_to_subscribed_sessions.  The state's own id is among _receivers too,
\* but no session has it.
Receivers(s, ch) ==
    {e \in SessionsOf(s) : \E r \in subscriptions[s] : r[3] = ch /\ r[1] = e}

\* Mutant of PassesOn: so does a state that got it over a session.
PassesOnAlways(a) == TRUE

\* Only the state of the sender gives a message to sessions.
PassesOn(a) == a \in Clients

\* broadcast_to_sessions and publish_to_sessions: the copy of the table.
GetSessions(a) ==
    /\ task[a].step = "clients"
    /\ todo[a] = {}
    /\ PassesOn(a)
    /\ task' = [task EXCEPT ![a].step = "sessions"]
    /\ todo' = [todo EXCEPT ![a] =
                   IF task[a].msg.kind = "broadcast" THEN SessionsOf(StateOf(a))
                   ELSE Receivers(StateOf(a), task[a].msg.to)]
    /\ UNCHANGED <<wire, count, chosen, inbox, posted, audience, tableVars>>

GiveSession(a, e) ==
    /\ task[a].step = "sessions"
    /\ e \in todo[a]
    /\ wire' = IF Opened(e) THEN [wire EXCEPT ![e] = Append(@, task[a].msg)] ELSE wire
    /\ todo' = [todo EXCEPT ![a] = @ \ {e}]
    /\ UNCHANGED <<task, count, chosen, inbox, posted, audience, tableVars>>

\* The handler returns.
Finish(a) ==
    /\ task[a] /= NoTask
    /\ todo[a] = {}
    /\ task[a].step = IF PassesOn(a) THEN "sessions" ELSE "clients"
    /\ task' = [task EXCEPT ![a] = NoTask]
    /\ count' = [count EXCEPT ![a] = 0]
    /\ chosen' = [chosen EXCEPT ![a] = 0]
    /\ UNCHANGED <<wire, todo, inbox, posted, audience, tableVars>>

-----------------------------------------------------------------------------
(* The same handlers, and those of the news, on_session.                   *)

\* Mutant of Reads: requests of a session are handled in any order.
ReadsAny(e, m) ==
    /\ task[e] = NoTask
    /\ \E i \in 1..Len(wire[Peer(e)]) :
          /\ m = wire[Peer(e)][i]
          /\ wire' = [wire EXCEPT ![Peer(e)] =
                         SubSeq(@, 1, i - 1) \o SubSeq(@, i + 1, Len(@))]

\* The strand of e is free and takes the next message.
Reads(e, m) ==
    /\ task[e] = NoTask
    /\ wire[Peer(e)] /= <<>>
    /\ m = Head(wire[Peer(e)])
    /\ wire' = [wire EXCEPT ![Peer(e)] = Tail(@)]

ReadClient(e, m) ==
    /\ Reads(e, m)
    /\ m.kind \in {"join", "leave"}
    /\ clients' = [clients EXCEPT ![e[1]][m.from] =
                      IF m.kind = "leave" THEN None ELSE IF @ = None THEN e ELSE @]
    /\ UNCHANGED <<stage, open, closed, subscriptions, changes, taskVars>>

ReadSubscription(e, m) ==
    /\ Reads(e, m)
    /\ m.kind \in {"subscribe", "unsubscribe"}
    /\ LET r == <<e, m.from, m.to>>
       IN  subscriptions' = [subscriptions EXCEPT ![e[1]] =
                                IF m.kind = "subscribe" THEN @ \cup {r} ELSE @ \ {r}]
    /\ UNCHANGED <<stage, open, closed, clients, changes, taskVars>>

ReadPayload(e, m) ==
    /\ Reads(e, m)
    /\ m.kind \in {"broadcast", "publish"}
    /\ Begin(e, m)
    /\ UNCHANGED <<inbox, posted, audience, tableVars>>

ReadSend(e, m) ==
    /\ Reads(e, m)
    /\ m.kind = "send"
    /\ inbox' = IF clients[e[1]][m.to] = e[1] THEN Given(e[1], m.to, m) ELSE inbox
    /\ UNCHANGED <<task, todo, count, chosen, posted, audience, tableVars>>

-----------------------------------------------------------------------------
Client(c) ==
    \/ Accept(c) \/ Leave(c) \/ Broadcast(c)
    \/ \E ch \in Channels : Subscribe(c, ch) \/ Unsubscribe(c, ch) \/ Publish(c, ch)
    \/ \E d \in Clients : Send(c, d)

Task(a) ==
    \/ \E c \in Clients : GiveClient(a, c)
    \/ GetSessions(a)
    \/ \E e \in End : GiveSession(a, e)
    \/ Finish(a)

Read(e) ==
    \E m \in OnWire(Peer(e)) :
        ReadClient(e, m) \/ ReadSubscription(e, m) \/ ReadPayload(e, m) \/ ReadSend(e, m)

Next ==
    \/ \E c \in Clients : Client(c)
    \/ \E a \in Actor : Task(a)
    \/ \E e \in End : Read(e)
    \/ \E l \in Link : OpenLink(l) \/ CloseLink(l)

Spec == Init /\ [][Next]_vars

-----------------------------------------------------------------------------
\* The threads run what the strands have to do.
Fairness == /\ \A a \in Actor : WF_vars(Task(a))
            /\ \A e \in End : WF_vars(Read(e))

FairSpec == Spec /\ Fairness

-----------------------------------------------------------------------------
(* A client gets the messages of another one in the order in which they     *)
(* were sent and none twice, whatever their kinds and although the strands  *)
(* of the sender, of the sessions and of the receiver run at the same time. *)
InOrder ==
    \A c \in Clients : \A i, j \in 1..Len(inbox[c]) :
        i < j /\ inbox[c][i].from = inbox[c][j].from => inbox[c][i].id < inbox[c][j].id

(* A message crosses one link at most, from the state of its sender, and no *)
(* broadcast or publish comes back to the one who sent it.                  *)
NoLoop ==
    /\ \A e \in End : \A m \in OnWire(e) : m.kind \in {"broadcast", "publish", "send"} =>
           Home[m.from] = e[1]
    /\ \A c \in Clients : \A i \in 1..Len(inbox[c]) :
           inbox[c][i].kind = "send" \/ inbox[c][i].from /= c

\* Message i is being delivered.
UnderWay(i) ==
    \/ \E a \in Actor : task[a] /= NoTask /\ task[a].msg.id = i
    \/ \E e \in End : \E m \in OnWire(e) : m.id = i

(* Nobody is left out: when a message is no longer under way, everybody has *)
(* it who was there (and known to be subscribed) when it was sent, has not  *)
(* left or unsubscribed since, and whose state is still linked to the       *)
(* sender's.  Tables are copied, asked and sent to in steps of their own.   *)
AllReached ==
    \A i \in 1..Len(posted) : ~UnderWay(i) =>
        \A d \in audience[i] : \E k \in 1..Len(inbox[d]) : inbox[d][k] = posted[i]

(* On the strand of a client the count cannot wrap around: the row of the   *)
(* client is in the table, whatever sessions do to it.                      *)
CountInRange == \A c \in Clients : count[c] < Cardinality(Clients)

(* state.cpp, lines 433 and 441: the count that is returned leaves out the  *)
(* sender and the clients of other sessions.                                *)
CountIsChosen == \A a \in Actor : count[a] = chosen[a]

(* Every message comes to rest.                                             *)
ComesToRest ==
    \A i \in 1..MaxMessages : Len(posted) >= i ~> ~UnderWay(i)
=============================================================================
