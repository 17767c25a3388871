-------------------------------- MODULE Mesh --------------------------------
(***************************************************************************)
(* How the states of a cluster get linked to each other.                   *)
(*                                                                         *)
(* A state that is started as a node connects to one other state, its      *)
(* seed, and only then starts to listen.  Whoever opens a link registers   *)
(* over it; the first time a state registers, the state that accepted the  *)
(* link introduces to it its other registered sessions, and the newcomer   *)
(* connects to each of those it has no session with yet.  config_ of a     *)
(* state remembers that it has registered, so the states it connects to    *)
(* afterwards introduce nobody.                                            *)
(*                                                                         *)
(* A link is known by the state that opened it and a number.  Its near end *)
(* is the session object there, its far end the one of the state that      *)
(* accepted it.  Every session has a strand: it does one thing at a time.  *)
(* A host with its ports is the state that listens there.                  *)
(***************************************************************************)
EXTENDS Naturals, Sequences, FiniteSets

CONSTANTS
    States,
    Seed,           \* Seed[s]: remote_address of s; None for the first state
    MaxLinks,       \* bound: how many links one state opens
    Fragile,        \* bound: the links that may fail
    Mortal,         \* bound: the processes that may die
    Replaces,       \* what replaces may be, see below
    None

ASSUME MeshAssumption ==
    /\ None \notin States
    /\ Mortal \subseteq States
    /\ Replaces \subseteq [States -> Mortal \cup {None}]
    /\ Seed \in [States -> States \cup {None}]
    /\ \A s \in States : Seed[s] /= s
    /\ \A r \in Replaces, s \in States :
          /\ Seed[s] /= None => r[Seed[s]] = None
          /\ r[s] /= None => r[r[s]] = None
    /\ MaxLinks \in Nat \ {0}
    /\ Fragile \subseteq States \X (1..MaxLinks)

Link == States \X (1..MaxLinks)
From(l) == l[1]
SeedLink(s) == <<s, 1>>
End == {"near", "far"} \X Link

VARIABLES
    up,             \* the states that listen and run their io threads
    dead,           \* the states that have died
    replaces,       \* replaces[s]: the process whose host and ports s takes over
                    \*   after its death; None for the others
    target,         \* target[l]: the process l leads to, None if not opened
    near, far,      \* the stages of the two ends
    listed,         \* the ends that are in the sessions_ of their state
    registered,     \* the links whose far end is marked with mark_as_registered
    asked,          \* the states whose config_ has registered_ set
    request,        \* request[l]: the register request on its way to the far end
    loop,           \* loop[l]: how far the far end is with that request
    left,           \* left[l]: the ends sync has not looked at yet
    intros,         \* intros[l]: introductions on their way to the near end
    handler,        \* handler[l]: what session_handler of the near end is doing
    told            \* history: <<l, m>> when l was sent an introduction of m

vars == <<up, dead, replaces, target, near, far, listed, registered, asked, request,
          loop, left, intros, handler, told>>
syncVars == <<loop, left, told>>

\* Host and ports, named after the process that has them first.
Address(s) == IF replaces[s] = None THEN s ELSE replaces[s]

Idle == [step |-> "idle", to |-> None]

(* near and far: handshake until session::on_accept, then open, then closed;  *)
(* failed if the handshake went wrong.                                      *)
TypeOK ==
    /\ up \subseteq States
    /\ dead \subseteq Mortal
    /\ replaces \in Replaces
    /\ target \in [Link -> States \cup {None}]
    /\ near \in [Link -> {"none", "handshake", "open", "closed", "failed"}]
    /\ far \in [Link -> {"none", "handshake", "open", "closed"}]
    /\ listed \subseteq End
    /\ registered \subseteq Link
    /\ asked \subseteq States
    /\ request \in [Link -> {"none", "introduce me", "registered"}]
    /\ loop \in [Link -> {"idle", "marked", "introducing"}]
    /\ left \in [Link -> SUBSET End]
    /\ intros \in [Link -> Seq(States)]
    /\ handler \in [Link -> [step : {"idle", "connect"}, to : States \cup {None}]
                            \cup [step : {"add"}, to : Link]]
    /\ told \subseteq Link \X Link

Init ==
    /\ up = {}
    /\ dead = {}
    /\ replaces \in Replaces
    /\ target = [l \in Link |-> None]
    /\ near = [l \in Link |-> "none"]
    /\ far = [l \in Link |-> "none"]
    /\ listed = {}
    /\ registered = {}
    /\ asked = {}
    /\ request = [l \in Link |-> "none"]
    /\ loop = [l \in Link |-> "idle"]
    /\ left = [l \in Link |-> {}]
    /\ intros = [l \in Link |-> <<>>]
    /\ handler = [l \in Link |-> Idle]
    /\ told = {}

-----------------------------------------------------------------------------
(* server::start.  The connect loop ends when the seed listens.            *)

ConnectSeed(s) ==
    /\ target[SeedLink(s)] = None
    /\ replaces[s] /= None => replaces[s] \in dead
    /\ \E u \in up :
          /\ Address(u) = Seed[s]
          /\ target' = [target EXCEPT ![SeedLink(s)] = u]
    /\ near' = [near EXCEPT ![SeedLink(s)] = "handshake"]
    /\ listed' = listed \cup {<<"near", SeedLink(s)>>}
    /\ UNCHANGED <<up, dead, replaces, far, registered, asked, request, intros, handler, syncVars>>

\* The listeners and the io threads are started after that.
Listen(s) ==
    /\ s \notin up \cup dead
    /\ Seed[s] = None \/ target[SeedLink(s)] /= None
    /\ replaces[s] /= None => replaces[s] \in dead
    /\ up' = up \cup {s}
    /\ UNCHANGED <<dead, replaces, target, near, far, listed, registered, asked, request, intros,
                   handler, syncVars>>

-----------------------------------------------------------------------------
(* The two ends of a link.                                                 *)

\* session_listener::on_accept.
AcceptLink(l) ==
    /\ target[l] \in up
    /\ far[l] = "none"
    /\ far' = [far EXCEPT ![l] = "handshake"]
    /\ listed' = listed \cup {<<"far", l>>}
    /\ UNCHANGED <<up, dead, replaces, target, near, registered, asked, request, intros, handler,
                   syncVars>>

\* session::on_accept of the far end: host_ is set from now on.
OpenFar(l) ==
    /\ far[l] = "handshake"
    /\ far' = [far EXCEPT ![l] = "open"]
    /\ UNCHANGED <<up, dead, replaces, target, near, listed, registered, asked, request, intros,
                   handler, syncVars>>

\* Mutant of OpenNear: a handler runs before the listeners are up.
OpenNearEarly(l) ==
    /\ near[l] = "handshake"
    /\ far[l] /= "none"
    /\ near' = [near EXCEPT ![l] = "open"]
    /\ request' = [request EXCEPT ![l] =
                      IF From(l) \in asked THEN "registered" ELSE "introduce me"]
    /\ asked' = asked \cup {From(l)}
    /\ UNCHANGED <<up, dead, replaces, target, far, listed, registered, intros, handler, syncVars>>

\* Mutant of OpenNear: config_ forgets that it has registered.
OpenNearForgetful(l) ==
    /\ near[l] = "handshake"
    /\ From(l) \in up
    /\ far[l] /= "none"
    /\ near' = [near EXCEPT ![l] = "open"]
    /\ request' = [request EXCEPT ![l] = "introduce me"]
    /\ UNCHANGED <<up, dead, replaces, target, far, listed, registered, asked, intros, handler,
                   syncVars>>

\* session::on_accept of the near end: it registers, and config_ remembers it.
OpenNear(l) ==
    /\ near[l] = "handshake"
    /\ From(l) \in up
    /\ far[l] /= "none"
    /\ near' = [near EXCEPT ![l] = "open"]
    /\ request' = [request EXCEPT ![l] =
                      IF From(l) \in asked THEN "registered" ELSE "introduce me"]
    /\ asked' = asked \cup {From(l)}
    /\ UNCHANGED <<up, dead, replaces, target, far, listed, registered, intros, handler, syncVars>>

\* on_accept or on_read with an error: remove_session.  Each end notices for
\* itself, when it is not in the middle of a request.
CloseNear(l) ==
    /\ l \in Fragile \/ target[l] \in dead
    /\ near[l] \in {"handshake", "open"}
    /\ From(l) \in up
    /\ handler[l] = Idle
    /\ near' = [near EXCEPT ![l] = IF @ = "open" THEN "closed" ELSE "failed"]
    /\ listed' = listed \ {<<"near", l>>}
    /\ UNCHANGED <<up, dead, replaces, target, far, registered, asked, request, intros, handler,
                   syncVars>>

CloseFar(l) ==
    /\ l \in Fragile \/ From(l) \in dead
    /\ far[l] \in {"handshake", "open"}
    /\ loop[l] = "idle"
    /\ far' = [far EXCEPT ![l] = "closed"]
    /\ listed' = listed \ {<<"far", l>>}
    /\ UNCHANGED <<up, dead, replaces, target, near, registered, asked, request, intros, handler,
                   syncVars>>

-----------------------------------------------------------------------------
(* register_handler and the first part of state::sync.                     *)

\* The ends in the table of state s.
SessionsOf(s) == {e \in listed : s = IF e[1] = "near" THEN From(e[2]) ELSE target[e[2]]}

\* The ports are set and the session is marked, before sync begins.
ReadRegister(l) ==
    /\ far[l] = "open"
    /\ request[l] /= "none"
    /\ <<"far", l>> \in listed
    /\ registered' = registered \cup {l}
    /\ loop' = [loop EXCEPT ![l] = IF request[l] = "introduce me" THEN "marked" ELSE "idle"]
    /\ request' = [request EXCEPT ![l] = "none"]
    /\ UNCHANGED <<up, dead, replaces, target, near, far, listed, asked, left, intros, handler, told>>

\* get_sessions.
SyncSessions(l) ==
    /\ loop[l] = "marked"
    /\ loop' = [loop EXCEPT ![l] = "introducing"]
    /\ left' = [left EXCEPT ![l] = SessionsOf(target[l])]
    /\ UNCHANGED <<up, dead, replaces, target, near, far, listed, registered, asked, request,
                   intros, handler, told>>

\* Mutants of Reported: not while the other one is itself being introduced;
\* the session that asks is not left out.
ReportedSettled(l, e) == e[1] = "far" /\ e[2] /= l /\ e[2] \in registered /\ loop[e[2]] = "idle"
ReportedSame(l, e) == e[1] = "far" /\ e[2] \in registered

\* _is_same, _is_unregistered.  (A session never has the id of the state.)
\* Only the far end of a link is ever marked.
Reported(l, e) == e[1] = "far" /\ e[2] /= l /\ e[2] \in registered

\* Mutant of Introduce: sessions that are not registered are introduced too,
\* host and ports unset.
IntroduceUnknown(l, e) ==
    /\ e \in left[l]
    /\ left' = [left EXCEPT ![l] = @ \ {e}]
    /\ IF e /= <<"far", l>>
       THEN /\ intros' = [intros EXCEPT ![l] = Append(@,
                  IF e[1] = "far" /\ e[2] \in registered THEN Address(From(e[2])) ELSE None)]
            /\ UNCHANGED told
       ELSE UNCHANGED <<intros, told>>
    /\ UNCHANGED <<up, dead, replaces, target, near, far, listed, registered, asked, request,
                   loop, handler>>

\* One turn of the loop.
Introduce(l, e) ==
    /\ e \in left[l]
    /\ left' = [left EXCEPT ![l] = @ \ {e}]
    /\ IF Reported(l, e)
       THEN /\ intros' = [intros EXCEPT ![l] = Append(@, Address(From(e[2])))]
            /\ told' = told \cup {<<l, e[2]>>}
       ELSE UNCHANGED <<intros, told>>
    /\ UNCHANGED <<up, dead, replaces, target, near, far, listed, registered, asked, request,
                   loop, handler>>

\* The end of the loop.
Introduced(l) ==
    /\ loop[l] = "introducing"
    /\ left[l] = {}
    /\ loop' = [loop EXCEPT ![l] = "idle"]
    /\ UNCHANGED <<up, dead, replaces, target, near, far, listed, registered, asked, request,
                   left, intros, handler, told>>

-----------------------------------------------------------------------------
(* session_handler: runs on the strand of the near end of l.               *)

\* Host and ports of e are those of u: a near end has its ports before
\* it runs and its host from on_accept on, a far end has both once registered.
LeadsTo(e, u) ==
    \/ e[1] = "near" /\ Address(target[e[2]]) = u /\ near[e[2]] \in {"open", "closed"}
    \/ e[1] = "far" /\ Address(From(e[2])) = u /\ e[2] \in registered

\* The search for a session to the same host and ports.  It goes over a copy of
\* the table; as what it looks for is only ever added, it finds the same at
\* one of its moments.
ReadSession(l) ==
    /\ near[l] = "open"
    /\ handler[l] = Idle
    /\ intros[l] /= <<>>
    /\ LET u == Head(intros[l])
       IN  handler' = [handler EXCEPT ![l] =
               IF \E e \in SessionsOf(From(l)) : LeadsTo(e, u)
               THEN Idle
               ELSE [step |-> "connect", to |-> u]]
    /\ intros' = [intros EXCEPT ![l] = Tail(@)]
    /\ UNCHANGED <<up, dead, replaces, target, near, far, listed, registered, asked, request, syncVars>>

\* Not opened yet, and the next of its state.
Unused(m) == target[m] = None /\ \A k \in 1..(m[2] - 1) : target[<<m[1], k>>] /= None

\* The connect loop and run(remote).
Connect(l, m) ==
    /\ handler[l].step = "connect"
    /\ From(m) = From(l)
    /\ Unused(m)
    /\ \E u \in up :
          /\ Address(u) = handler[l].to
          /\ target' = [target EXCEPT ![m] = u]
    /\ near' = [near EXCEPT ![m] = "handshake"]
    /\ handler' = [handler EXCEPT ![l] = [step |-> "add", to |-> m]]
    /\ UNCHANGED <<up, dead, replaces, far, listed, registered, asked, request, intros, syncVars>>

\* add_session.
AddSession(l) ==
    /\ handler[l].step = "add"
    /\ listed' = listed \cup {<<"near", handler[l].to>>}
    /\ handler' = [handler EXCEPT ![l] = Idle]
    /\ UNCHANGED <<up, dead, replaces, target, near, far, registered, asked, request, intros, syncVars>>

-----------------------------------------------------------------------------
(* The end of a process: its sockets close, what it had in hand is lost.  The *)
(* others notice when they read (CloseNear, CloseFar), maybe much later: no   *)
(* stream has a timeout.                                                      *)

Die(s) ==
    LET mine == {l \in Link : From(l) = s /\ target[l] /= None}
        its == {l \in Link : target[l] = s}
    IN  /\ s \in Mortal \cap up
        /\ dead' = dead \cup {s}
        /\ up' = up \ {s}
        /\ listed' = listed \ SessionsOf(s)
        /\ near' = [l \in Link |-> IF l \in mine THEN "closed" ELSE near[l]]
        /\ far' = [l \in Link |-> IF l \in its THEN "closed" ELSE far[l]]
        /\ intros' = [l \in Link |-> IF l \in mine THEN <<>> ELSE intros[l]]
        /\ handler' = [l \in Link |-> IF l \in mine THEN Idle ELSE handler[l]]
        /\ request' = [l \in Link |-> IF l \in its THEN "none" ELSE request[l]]
        /\ loop' = [l \in Link |-> IF l \in its THEN "idle" ELSE loop[l]]
        /\ left' = [l \in Link |-> IF l \in its THEN {} ELSE left[l]]
        /\ UNCHANGED <<replaces, target, registered, asked, told>>

-----------------------------------------------------------------------------
Start(s) == ConnectSeed(s) \/ Listen(s)
Sync(l) == SyncSessions(l) \/ (\E e \in left[l] : Introduce(l, e)) \/ Introduced(l)
Follow(l) == ReadSession(l) \/ (\E m \in Link : Connect(l, m)) \/ AddSession(l)

Next ==
    \/ \E s \in States : Start(s) \/ Die(s)
    \/ \E l \in Link :
          \/ AcceptLink(l) \/ OpenFar(l) \/ OpenNear(l)
          \/ CloseNear(l) \/ CloseFar(l)
          \/ ReadRegister(l) \/ Sync(l) \/ Follow(l)

Spec == Init /\ [][Next]_vars

\* The processes start and their io threads run what is ready.  Nothing has
\* to close.
Fairness ==
    /\ \A s \in States : WF_vars(Start(s))
    /\ \A l \in Link : /\ WF_vars(AcceptLink(l)) /\ WF_vars(OpenFar(l))
                       /\ WF_vars(OpenNear(l)) /\ WF_vars(ReadRegister(l))
                       /\ WF_vars(Sync(l)) /\ WF_vars(Follow(l))

FairSpec == Spec /\ Fairness

-----------------------------------------------------------------------------
Closed(l) == near[l] \in {"closed", "failed"} \/ far[l] = "closed"

\* The far end of l has been served: sync has introduced everybody to it.
Served(l) == l \in registered /\ loop[l] = "idle"

(* Two nodes with the same seed are introduced, at least one of them to the *)
(* other, however the two registrations overlap: register_handler marks the *)
(* session before sync copies the table and sync looks at the marks after.  *)
NoMissedIntroduction ==
    \A s, u \in States :
        LET l == SeedLink(s)
            m == SeedLink(u)
        IN  /\ s /= u /\ target[l] = target[m] /\ Served(l) /\ Served(m)
            /\ {<<"far", l>>, <<"far", m>>} \subseteq listed
            => <<l, m>> \in told \/ <<m, l>> \in told

(* A state opens at most one link to each other state and none to itself:   *)
(* it is introduced once, by its seed, although nothing in session_handler  *)
(* compares with the state's own address and an earlier link is found only  *)
(* when its handshake is over.  (As long as nobody has died: a node that    *)
(* takes the place of a dead one may be introduced to itself.)              *)
OneLinkEachWay ==
    \A l \in Link : dead = {} /\ target[l] /= None =>
        /\ target[l] /= From(l)
        /\ \A m \in Link : From(m) = From(l) /\ target[m] = target[l] => m = l

(* Whoever is introduced listens already: server::start runs the handler    *)
(* that registers after the listeners, so the connect loop of               *)
(* session_handler, which holds an io thread, does not wait for a peer that *)
(* has yet to start.                                                        *)
IntroducedIsListening ==
    \A l \in Link : dead = {} =>
        /\ \A i \in 1..Len(intros[l]) : intros[l][i] \in up
        /\ handler[l].step = "connect" => handler[l].to \in up

\* There is a link between s and u and its far end has marked it.
Linked(s, u) ==
    \E l \in registered : {From(l), target[l]} = {s, u}

\* A link has failed although both its processes live.
LinkFailed == \E l \in Link : Closed(l) /\ From(l) \notin dead /\ target[l] \notin dead

\* s is not to be started: the process it replaces lives.
Waits(s) == replaces[s] /= None /\ replaces[s] \notin dead

(* A node gets linked with its seed, and nodes that share a seed with each  *)
(* other, unless a link fails or a process dies on the way; also a node that *)
(* takes the place of one that died, although the seed may still list that  *)
(* one and introduce the new one to itself.                                 *)
GetLinked(s, u) ==
    (~Waits(s) /\ ~Waits(u)) ~>
        Linked(s, u) \/ {s, u, Seed[s]} \cap dead /= {} \/ LinkFailed

NodesGetLinked ==
    \A s \in States : Seed[s] /= None =>
        /\ GetLinked(s, Seed[s])
        /\ \A u \in States \ {s} : Seed[s] = Seed[u] => GetLinked(s, u)

(* Only the state a process connected to first introduces others to it, so  *)
(* that its introductions, which may hold a thread for long, come one after *)
(* the other over one session: every later register says "registered".      *)
OnlySeedIntroduces ==
    \A l \in Link :
        loop[l] /= "idle" \/ intros[l] /= <<>> \/ handler[l] /= Idle => l = SeedLink(From(l))

\* Everybody has started, no link has failed and nothing is under way.
Settled ==
    /\ up = States
    /\ \A l \in Link :
          /\ near[l] \in {"none", "open"} /\ far[l] = near[l]
          /\ request[l] = "none" /\ loop[l] = "idle"
          /\ intros[l] = <<>> /\ handler[l] = Idle

(* docs/todo.md, lines 86 and 109: a state is informed of the states that   *)
(* the one it connects to knows, so that every two states are linked.       *)
MeshComplete ==
    Settled => \A s, u \in States : s /= u => Linked(s, u)

(* tests/server_test.cc, lines 30 to 32: each of three servers has two      *)
(* sessions, that is, one to each other server.                             *)
OneSessionPerPeer ==
    Settled => \A s \in States :
        Cardinality(SessionsOf(s)) = Cardinality(States) - 1
=============================================================================
