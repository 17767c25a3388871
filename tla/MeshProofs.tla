----------------------------- MODULE MeshProofs -----------------------------
(***************************************************************************)
(* Theorems about Mesh, for any states, seeds, links and failures.         *)
(*                                                                         *)
(* The inductive invariant has six parts, with the types below them.       *)
(* Course says how far a link is at its two ends, and with it that only    *)
(* the seed of a state is asked to introduce others; Presence that whoever *)
(* has registered has listened; Noticed what the two registrations of a    *)
(* pair of nodes have to do with each other; Apart that the introductions  *)
(* over one link are of different states; and, for what holds when nothing *)
(* is under way, Opening that a link that was opened gets registered, and  *)
(* Pursued that no introduction is lost.                                   *)
(***************************************************************************)
EXTENDS Mesh, SequenceTheorems, TLAPS

-----------------------------------------------------------------------------
(* The invariant.                                                          *)

IsSeedLink(l) == l = SeedLink(From(l))

\* Nothing has come over l yet, in either direction.
Fresh(l) ==
    /\ request[l] = "none"
    /\ loop[l] = "idle"
    /\ left[l] = {}
    /\ l \notin registered
    /\ intros[l] = <<>>
    /\ handler[l] = Idle

\* The near end registers once, when its handshake is over; the far end then
\* marks the session, and only a request to be introduced makes it sync.
CourseOf(l) ==
    /\ target[l] = None => near[l] = "none" /\ far[l] = "none"
    /\ near[l] \in {"none", "handshake", "failed"} => Fresh(l)
    /\ request[l] /= "none" =>
          /\ loop[l] = "idle"
          /\ l \notin registered
          /\ intros[l] = <<>>
          /\ handler[l] = Idle
    /\ loop[l] = "marked" => intros[l] = <<>> /\ handler[l] = Idle
    /\ loop[l] /= "introducing" => left[l] = {}
    /\ loop[l] /= "idle" => l \in registered
    /\ l \in registered => far[l] \in {"open", "closed"}

\* config_ has registered_ set from the first register on, which goes to the
\* seed: no link but that to the seed asks for introductions.
SeedFirst(l) ==
    /\ \/ loop[l] /= "idle" \/ intros[l] /= <<>> \/ handler[l] /= Idle
       \/ request[l] = "introduce me"
       => IsSeedLink(l)
    /\ IsSeedLink(l) => request[l] /= "registered"
    /\ near[l] = "open" \/ handler[l] /= Idle => From(l) \in asked
    /\ near[l] = "handshake" /\ ~IsSeedLink(l) => From(l) \in asked
    /\ near[l] \in {"none", "handshake"} /\ IsSeedLink(l) => From(l) \notin asked

Course == \A l \in Link : CourseOf(l) /\ SeedFirst(l)

\* A process that takes the place of another starts after that one's end, and
\* only a process that listens registers.
Presence ==
    /\ \A s \in up \cup dead : replaces[s] /= None => replaces[s] \in dead
    /\ \A l \in Link : request[l] /= "none" \/ l \in registered => From(l) \in up \cup dead

\* Of two nodes that are registered with the same seed one has been, or is
\* still going to be, introduced to the other.
Noticed ==
    \A l, m \in Link :
        /\ IsSeedLink(l) /\ IsSeedLink(m) /\ l /= m /\ target[l] = target[m]
        /\ {l, m} \subseteq registered
        /\ {<<"far", l>>, <<"far", m>>} \subseteq listed
        => \/ <<l, m>> \in told \/ <<m, l>> \in told
           \/ loop[l] = "marked" \/ loop[m] = "marked"
           \/ <<"far", m>> \in left[l] \/ <<"far", l>> \in left[m]

\* From(l) has still to hear of u over l, has heard of it, is to connect to it
\* because of that, or has a link to it.
ToHear(l, u)   == \E m \in Link \ {l} : <<"far", m>> \in left[l] /\ From(m) = u
Heard(l, u)    == \E i \in 1..Len(intros[l]) : intros[l][i] = u
InHand(l, u)   == handler[l].step = "connect" /\ handler[l].to = u
Followed(l, u) == \E m \in Link \ {l} : From(m) = From(l) /\ target[m] = u

\* These are different states, each introduced once, and none of them is
\* From(l) or its seed.
ApartOf(l) ==
    /\ target[l] /= None => target[l] = Seed[From(l)]
    /\ \A m \in Link : <<"far", m>> \in left[l] => target[m] = target[l]
    /\ \A i, j \in 1..Len(intros[l]) : i /= j => intros[l][i] /= intros[l][j]
    /\ \A u \in States :
          /\ ToHear(l, u) => ~Heard(l, u) /\ ~InHand(l, u) /\ ~Followed(l, u)
          /\ Heard(l, u) => ~InHand(l, u) /\ ~Followed(l, u)
          /\ InHand(l, u) => ~Followed(l, u)
          /\ Heard(l, u) \/ InHand(l, u) => u \notin {From(l), target[l]}
    /\ l \notin registered \/ loop[l] = "marked" =>
          intros[l] = <<>> /\ handler[l] = Idle /\ \A u \in States : ~Followed(l, u)

Apart == dead = {} => \A l \in Link : IsSeedLink(l) => ApartOf(l)

-----------------------------------------------------------------------------
(* Links and ends.                                                         *)

LEMMA LinkShape ==
    /\ \A l \in Link : From(l) \in States
    /\ \A s \in States : SeedLink(s) \in Link /\ From(SeedLink(s)) = s
    /\ \A l \in Link : <<"near", l>> \in End /\ <<"far", l>> \in End
    /\ \A e \in End : e[1] \in {"near", "far"} /\ e[2] \in Link /\ e = <<e[1], e[2]>>
BY MeshAssumption DEF Link, From, SeedLink, End

LEMMA AddressType ==
    ASSUME TypeOK, NEW s \in States
    PROVE  Address(s) \in States
<1>1. replaces \in [States -> Mortal \cup {None}]
  BY MeshAssumption DEF TypeOK
<1>2. Mortal \subseteq States
  BY MeshAssumption
<1> QED BY <1>1, <1>2 DEF Address

\* What is taken from a queue, and what is put into it.
LEMMA QueueFacts ==
    ASSUME NEW S, NEW q \in Seq(S)
    PROVE  /\ q /= <<>> => /\ Head(q) \in S /\ Head(q) = q[1]
                           /\ Tail(q) \in Seq(S) /\ Len(Tail(q)) = Len(q) - 1
                           /\ Len(q) \in Nat \ {0}
                           /\ \A i \in 1..Len(Tail(q)) : Tail(q)[i] = q[i + 1]
           /\ \A x \in S : /\ Append(q, x) \in Seq(S)
                           /\ Len(Append(q, x)) = Len(q) + 1
                           /\ Append(q, x)[Len(q) + 1] = x
                           /\ Append(q, x) /= <<>>
                           /\ \A i \in 1..Len(q) : Append(q, x)[i] = q[i]
OBVIOUS

\* One session of the seed is another one's far end, or the near end of a
\* link it opened itself.
LEMMA SessionsType ==
    ASSUME TypeOK
    PROVE  /\ \A s \in States : SessionsOf(s) \subseteq listed
           /\ \A l \in Link : SessionsOf(target[l]) \subseteq End
           /\ \A s, l : <<"far", l>> \in listed => (<<"far", l>> \in SessionsOf(s) <=> s = target[l])
           /\ \A s : \A e \in SessionsOf(s) : e[1] = "far" => target[e[2]] = s
BY DEF TypeOK, SessionsOf

-----------------------------------------------------------------------------
(* Types.                                                                  *)

LEMMA TypeStep == TypeOK /\ [Next]_vars => TypeOK'
<1> SUFFICES ASSUME TypeOK, [Next]_vars PROVE TypeOK'
  OBVIOUS
<1> USE LinkShape
<1>1. ASSUME NEW s \in States, ConnectSeed(s) PROVE TypeOK'
  <2>1. PICK u \in up : target' = [target EXCEPT ![SeedLink(s)] = u]
    BY <1>1 DEF ConnectSeed
  <2>2. u \in States
    BY DEF TypeOK
  <2>3. target' \in [Link -> States \cup {None}]
    BY <2>1, <2>2 DEF TypeOK
  <2>4. listed' \subseteq End
    <3>1. listed' = listed \cup {<<"near", SeedLink(s)>>}
      BY <1>1 DEF ConnectSeed
    <3>2. <<"near", SeedLink(s)>> \in End /\ listed \subseteq End
      BY DEF TypeOK
    <3> QED BY <3>1, <3>2
  <2>5. near' \in [Link -> {"none", "handshake", "open", "closed", "failed"}]
    BY <1>1 DEF ConnectSeed, TypeOK
  <2> QED BY <1>1, <2>3, <2>4, <2>5 DEF ConnectSeed, TypeOK, syncVars
<1>2. ASSUME NEW s \in States, Listen(s) PROVE TypeOK'
  BY <1>2 DEF Listen, TypeOK, syncVars
<1>3. ASSUME NEW s \in States, Die(s) PROVE TypeOK'
  <2> DEFINE mine == {l \in Link : From(l) = s /\ target[l] /= None}
             its == {l \in Link : target[l] = s}
  <2>1. up' \subseteq States /\ dead' \subseteq Mortal /\ listed' \subseteq End
    BY <1>3 DEF Die, TypeOK
  <2>2. intros' = [l \in Link |-> IF l \in mine THEN <<>> ELSE intros[l]]
    BY <1>3 DEF Die
  <2>3. intros' \in [Link -> Seq(States)]
    <3>1. <<>> \in Seq(States)
      OBVIOUS
    <3> QED BY <3>1, <2>2 DEF TypeOK
  <2>4. handler' = [l \in Link |-> IF l \in mine THEN Idle ELSE handler[l]]
    BY <1>3 DEF Die
  <2>5. Idle \in [step : {"idle", "connect"}, to : States \cup {None}]
    BY DEF Idle
  <2>6. handler' \in [Link -> [step : {"idle", "connect"}, to : States \cup {None}]
                            \cup [step : {"add"}, to : Link]]
    BY <2>4, <2>5 DEF TypeOK
  <2>7. /\ near' = [l \in Link |-> IF l \in mine THEN "closed" ELSE near[l]]
        /\ far' = [l \in Link |-> IF l \in its THEN "closed" ELSE far[l]]
        /\ request' = [l \in Link |-> IF l \in its THEN "none" ELSE request[l]]
        /\ loop' = [l \in Link |-> IF l \in its THEN "idle" ELSE loop[l]]
        /\ left' = [l \in Link |-> IF l \in its THEN {} ELSE left[l]]
        /\ UNCHANGED <<replaces, target, registered, asked, told>>
    BY <1>3 DEF Die
  <2>8. /\ near' \in [Link -> {"none", "handshake", "open", "closed", "failed"}]
        /\ far' \in [Link -> {"none", "handshake", "open", "closed"}]
        /\ request' \in [Link -> {"none", "introduce me", "registered"}]
        /\ loop' \in [Link -> {"idle", "marked", "introducing"}]
        /\ left' \in [Link -> SUBSET End]
    BY <2>7 DEF TypeOK
  <2> QED BY <2>1, <2>3, <2>6, <2>7, <2>8 DEF TypeOK
<1>4. ASSUME NEW l \in Link, AcceptLink(l) PROVE TypeOK'
  BY <1>4 DEF AcceptLink, TypeOK, syncVars
<1>5. ASSUME NEW l \in Link, OpenFar(l) PROVE TypeOK'
  BY <1>5 DEF OpenFar, TypeOK, syncVars
<1>6. ASSUME NEW l \in Link, OpenNear(l) PROVE TypeOK'
  BY <1>6 DEF OpenNear, TypeOK, syncVars
<1>7. ASSUME NEW l \in Link, CloseNear(l) PROVE TypeOK'
  BY <1>7 DEF CloseNear, TypeOK, syncVars
<1>8. ASSUME NEW l \in Link, CloseFar(l) PROVE TypeOK'
  BY <1>8 DEF CloseFar, TypeOK, syncVars
<1>9. ASSUME NEW l \in Link, ReadRegister(l) PROVE TypeOK'
  BY <1>9 DEF ReadRegister, TypeOK
<1>10. ASSUME NEW l \in Link, SyncSessions(l) PROVE TypeOK'
  BY <1>10, SessionsType DEF SyncSessions, TypeOK
<1>11. ASSUME NEW l \in Link, NEW e \in left[l], Introduce(l, e) PROVE TypeOK'
  <2>1. e \in End
    BY DEF TypeOK
  <2>2. Address(From(e[2])) \in States
    BY <2>1, AddressType
  <2>3. intros' \in [Link -> Seq(States)] /\ told' \subseteq Link \X Link
    <3>1. Append(intros[l], Address(From(e[2]))) \in Seq(States)
      <4>1. intros[l] \in Seq(States)
        BY DEF TypeOK
      <4> QED BY <4>1, <2>2, QueueFacts
    <3>2. e[2] \in Link
      BY <2>1
    <3>3. CASE Reported(l, e)
      <4>1. /\ intros' = [intros EXCEPT ![l] = Append(intros[l], Address(From(e[2])))]
            /\ told' = told \cup {<<l, e[2]>>}
        BY <1>11, <3>3 DEF Introduce
      <4>2. intros' \in [Link -> Seq(States)]
        BY <4>1, <3>1 DEF TypeOK
      <4>3. <<l, e[2]>> \in Link \X Link /\ told \subseteq Link \X Link
        BY <3>2 DEF TypeOK
      <4> QED BY <4>1, <4>2, <4>3
    <3>4. CASE ~Reported(l, e)
      BY <1>11, <3>4 DEF Introduce, TypeOK
    <3> QED BY <3>3, <3>4
  <2> QED BY <1>11, <2>3 DEF Introduce, TypeOK
<1>12. ASSUME NEW l \in Link, Introduced(l) PROVE TypeOK'
  BY <1>12 DEF Introduced, TypeOK
<1>13. ASSUME NEW l \in Link, ReadSession(l) PROVE TypeOK'
  <2>1. Head(intros[l]) \in States /\ Tail(intros[l]) \in Seq(States)
    <3>1. intros[l] \in Seq(States) /\ intros[l] /= <<>>
      BY <1>13 DEF ReadSession, TypeOK
    <3> QED BY <3>1, QueueFacts
  <2>2. /\ Idle \in [step : {"idle", "connect"}, to : States \cup {None}]
        /\ [step |-> "connect", to |-> Head(intros[l])]
               \in [step : {"idle", "connect"}, to : States \cup {None}]
    BY <2>1 DEF Idle
  <2>3. /\ intros' \in [Link -> Seq(States)]
        /\ handler' \in [Link -> [step : {"idle", "connect"}, to : States \cup {None}]
                            \cup [step : {"add"}, to : Link]]
    BY <1>13, <2>1, <2>2 DEF ReadSession, TypeOK
  <2> QED BY <1>13, <2>3 DEF ReadSession, TypeOK, syncVars
<1>14. ASSUME NEW l \in Link, NEW m \in Link, Connect(l, m) PROVE TypeOK'
  <2>1. PICK u \in up : target' = [target EXCEPT ![m] = u]
    BY <1>14 DEF Connect
  <2>2. handler' \in [Link -> [step : {"idle", "connect"}, to : States \cup {None}]
                            \cup [step : {"add"}, to : Link]]
    BY <1>14 DEF Connect, TypeOK
  <2> QED BY <1>14, <2>1, <2>2 DEF Connect, TypeOK, syncVars
<1>15. ASSUME NEW l \in Link, AddSession(l) PROVE TypeOK'
  <2>1. handler[l].to \in Link
    BY <1>15 DEF AddSession, TypeOK
  <2>2. Idle \in [step : {"idle", "connect"}, to : States \cup {None}]
    BY DEF Idle
  <2> QED BY <1>15, <2>1, <2>2 DEF AddSession, TypeOK, syncVars
<1>16. CASE UNCHANGED vars
  BY <1>16 DEF vars, syncVars, TypeOK
<1> QED
  BY <1>1, <1>2, <1>3, <1>4, <1>5, <1>6, <1>7, <1>8, <1>9, <1>10, <1>11, <1>12, <1>13, <1>14,
     <1>15, <1>16 DEF Next, Start, Sync, Follow

(* Every variable of Mesh keeps its type: the stages of the two ends, the  *)
(* table of the sessions, and what is on its way or in hand for a link.    *)
THEOREM MeshTypeCorrect == Spec => []TypeOK
<1>1. Init => TypeOK
  BY MeshAssumption DEF Init, TypeOK, Idle
<1> QED BY <1>1, TypeStep, PTL DEF Spec

-----------------------------------------------------------------------------
(* The course of a link.                                                   *)

LEMMA CourseStep == TypeOK /\ Course /\ [Next]_vars => Course'
<1> SUFFICES ASSUME TypeOK, Course, [Next]_vars, NEW k \in Link
             PROVE  CourseOf(k)' /\ SeedFirst(k)'
  BY DEF Course
<1> USE LinkShape
<1>0. /\ target \in [Link -> States \cup {None}]
      /\ near \in [Link -> {"none", "handshake", "open", "closed", "failed"}]
      /\ far \in [Link -> {"none", "handshake", "open", "closed"}]
      /\ request \in [Link -> {"none", "introduce me", "registered"}]
      /\ loop \in [Link -> {"idle", "marked", "introducing"}]
      /\ left \in [Link -> SUBSET End]
      /\ DOMAIN intros = Link /\ DOMAIN handler = Link
      /\ intros \in [Link -> Seq(States)]
      /\ handler \in [Link -> [step : {"idle", "connect"}, to : States \cup {None}]
                            \cup [step : {"add"}, to : Link]]
  BY DEF TypeOK
<1>a. /\ CourseOf(k) /\ SeedFirst(k)
      /\ \A l \in Link : CourseOf(l) /\ SeedFirst(l)
  BY DEF Course
<1>1. ASSUME NEW s \in States, ConnectSeed(s) PROVE CourseOf(k)' /\ SeedFirst(k)'
  <2>1. PICK u \in up : target' = [target EXCEPT ![SeedLink(s)] = u]
    BY <1>1 DEF ConnectSeed
  <2>2. u /= None /\ target[SeedLink(s)] = None
    BY <1>1, MeshAssumption DEF TypeOK, ConnectSeed
  <2>3. /\ near' = [near EXCEPT ![SeedLink(s)] = "handshake"]
        /\ UNCHANGED <<far, registered, asked, request, intros, handler, loop, left>>
    BY <1>1 DEF ConnectSeed, syncVars
  <2>4. SeedLink(s) \in Link /\ IsSeedLink(SeedLink(s))
    BY DEF IsSeedLink
  <2>5. CASE k = SeedLink(s)
    <3>1. near[k] = "none" /\ target'[k] /= None /\ near'[k] = "handshake"
      BY <1>0, <1>a, <2>1, <2>2, <2>3, <2>4, <2>5 DEF CourseOf
    <3> QED BY <1>a, <2>3, <2>4, <2>5, <3>1 DEF CourseOf, SeedFirst, Fresh, IsSeedLink
  <2>6. CASE k /= SeedLink(s)
    <3>1. near'[k] = near[k] /\ target'[k] = target[k]
      BY <1>0, <2>1, <2>3, <2>6
    <3> QED BY <1>a, <2>3, <3>1 DEF CourseOf, SeedFirst, Fresh, IsSeedLink
  <2> QED BY <2>5, <2>6
<1>2. ASSUME NEW s \in States, Listen(s) PROVE CourseOf(k)' /\ SeedFirst(k)'
  BY <1>0, <1>a, <1>2 DEF Listen, CourseOf, SeedFirst, Fresh, IsSeedLink, syncVars
<1>3. ASSUME NEW s \in States, Die(s) PROVE CourseOf(k)' /\ SeedFirst(k)'
  <2>1. /\ near'[k] = IF From(k) = s /\ target[k] /= None THEN "closed" ELSE near[k]
        /\ far'[k] = IF target[k] = s THEN "closed" ELSE far[k]
        /\ intros'[k] = IF From(k) = s /\ target[k] /= None THEN <<>> ELSE intros[k]
        /\ handler'[k] = IF From(k) = s /\ target[k] /= None THEN Idle ELSE handler[k]
        /\ request'[k] = IF target[k] = s THEN "none" ELSE request[k]
        /\ loop'[k] = IF target[k] = s THEN "idle" ELSE loop[k]
        /\ left'[k] = IF target[k] = s THEN {} ELSE left[k]
        /\ UNCHANGED <<target, registered, asked>>
    BY <1>3 DEF Die
  <2>2. s /= None
    BY MeshAssumption
  <2> QED BY <1>0, <1>a, <2>1, <2>2 DEF CourseOf, SeedFirst, Fresh, IsSeedLink
<1>4. ASSUME NEW l \in Link, AcceptLink(l) PROVE CourseOf(k)' /\ SeedFirst(k)'
  <2>1. target[l] /= None
    BY <1>4, MeshAssumption DEF AcceptLink, TypeOK
  <2>2. /\ far[l] = "none" /\ far' = [far EXCEPT ![l] = "handshake"]
        /\ UNCHANGED <<target, near, registered, asked, request, intros, handler, loop, left>>
    BY <1>4 DEF AcceptLink, syncVars
  <2>3. far'[k] = far[k] \/ (k = l /\ far[k] = "none" /\ target[k] /= None)
    BY <1>0, <2>1, <2>2
  <2> QED BY <1>a, <2>2, <2>3 DEF CourseOf, SeedFirst, Fresh, IsSeedLink
<1>5. ASSUME NEW l \in Link, OpenFar(l) PROVE CourseOf(k)' /\ SeedFirst(k)'
  BY <1>0, <1>a, <1>5 DEF OpenFar, CourseOf, SeedFirst, Fresh, IsSeedLink, syncVars
<1>6. ASSUME NEW l \in Link, OpenNear(l) PROVE CourseOf(k)' /\ SeedFirst(k)'
  <2>1. CourseOf(l) /\ SeedFirst(l) /\ near[l] = "handshake"
    BY <1>a, <1>6 DEF OpenNear
  <2>2. IsSeedLink(l) <=> From(l) \notin asked
    BY <2>1 DEF SeedFirst
  <2>3. CASE k = l
    BY <1>0, <1>6, <2>1, <2>2, <2>3
       DEF OpenNear, CourseOf, SeedFirst, Fresh, IsSeedLink, syncVars
  <2>4. CASE k /= l
    <3>1. CourseOf(k)'
      <4>1. near'[k] = near[k] /\ request'[k] = request[k]
        BY <1>0, <1>6, <2>4 DEF OpenNear
      <4>2. UNCHANGED <<target, far, registered, intros, handler, loop, left>>
        BY <1>6 DEF OpenNear, syncVars
      <4> QED BY <1>a, <4>1, <4>2 DEF CourseOf, Fresh
    <3>2. IsSeedLink(k) /\ near[k] \in {"none", "handshake"} => From(k) /= From(l)
      BY <1>a, <2>2, <2>4 DEF SeedFirst, IsSeedLink
    <3>3. SeedFirst(k)'
      BY <1>0, <1>a, <1>6, <2>4, <3>2 DEF OpenNear, SeedFirst, IsSeedLink, syncVars
    <3> QED BY <3>1, <3>3
  <2> QED BY <2>3, <2>4
<1>7. ASSUME NEW l \in Link, CloseNear(l) PROVE CourseOf(k)' /\ SeedFirst(k)'
  <2>1. /\ near'[k] = near[k] \/ (near[k] = "open" /\ near'[k] = "closed")
              \/ (near[k] = "handshake" /\ near'[k] = "failed")
        /\ UNCHANGED <<target, far, registered, asked, request, intros, handler, loop, left>>
    BY <1>0, <1>7 DEF CloseNear, syncVars
  <2> QED BY <1>a, <2>1 DEF CourseOf, SeedFirst, Fresh, IsSeedLink
<1>8. ASSUME NEW l \in Link, CloseFar(l) PROVE CourseOf(k)' /\ SeedFirst(k)'
  <2>1. far'[k] = far[k] \/ (far[k] \in {"handshake", "open"} /\ far'[k] = "closed")
    BY <1>0, <1>8 DEF CloseFar
  <2>2. UNCHANGED <<target, near, registered, asked, request, intros, handler, loop, left>>
    BY <1>8 DEF CloseFar, syncVars
  <2> QED BY <1>a, <2>1, <2>2 DEF CourseOf, SeedFirst, Fresh, IsSeedLink
<1>9. ASSUME NEW l \in Link, ReadRegister(l) PROVE CourseOf(k)' /\ SeedFirst(k)'
  <2>1. /\ k = l =>
              /\ far[k] = "open" /\ request[k] /= "none"
              /\ request'[k] = "none" /\ k \in registered'
              /\ loop'[k] = IF request[k] = "introduce me" THEN "marked" ELSE "idle"
        /\ k /= l =>
              /\ request'[k] = request[k] /\ loop'[k] = loop[k]
              /\ k \in registered' <=> k \in registered
        /\ UNCHANGED <<target, near, far, asked, left, intros, handler>>
    BY <1>0, <1>9 DEF ReadRegister
  <2>2. CASE k = l
    <3>1. /\ near[k] \notin {"none", "handshake", "failed"}
          /\ target[k] /= None
          /\ left[k] = {} /\ intros[k] = <<>> /\ handler[k] = Idle
      BY <1>a, <2>1, <2>2 DEF CourseOf, Fresh
    <3>2. CourseOf(k)'
      BY <1>0, <2>1, <2>2, <3>1 DEF CourseOf
    <3>3. SeedFirst(k)'
      BY <1>0, <1>a, <2>1, <2>2, <3>1 DEF SeedFirst, IsSeedLink
    <3> QED BY <3>2, <3>3
  <2>3. CASE k /= l
    BY <1>a, <2>1, <2>3 DEF CourseOf, SeedFirst, Fresh, IsSeedLink
  <2> QED BY <2>2, <2>3
<1>10. ASSUME NEW l \in Link, SyncSessions(l) PROVE CourseOf(k)' /\ SeedFirst(k)'
  <2>1. /\ k = l => loop[k] = "marked" /\ loop'[k] = "introducing"
        /\ k /= l => left'[k] = left[k] /\ loop'[k] = loop[k]
        /\ UNCHANGED <<target, near, far, registered, asked, request, intros, handler>>
    BY <1>0, <1>10 DEF SyncSessions
  <2> QED BY <1>a, <2>1 DEF CourseOf, SeedFirst, Fresh, IsSeedLink
<1>11. ASSUME NEW l \in Link, NEW e \in left[l], Introduce(l, e) PROVE CourseOf(k)' /\ SeedFirst(k)'
  <2>1. /\ loop[l] = "introducing"
        /\ left'[l] = left[l] \ {e}
        /\ k /= l => intros'[k] = intros[k] /\ left'[k] = left[k]
        /\ UNCHANGED <<target, near, far, registered, asked, request, loop, handler>>
    <3>1. left[l] /= {} /\ CourseOf(l)
      BY <1>a
    <3>2. loop[l] = "introducing"
      BY <3>1 DEF CourseOf
    <3>3. /\ left'[l] = left[l] \ {e}
          /\ k /= l => left'[k] = left[k]
          /\ UNCHANGED <<target, near, far, registered, asked, request, loop, handler>>
      BY <1>0, <1>11 DEF Introduce
    <3>4. k /= l => intros'[k] = intros[k]
      BY <1>0, <1>11 DEF Introduce
    <3> QED BY <3>2, <3>3, <3>4
  <2>2. CASE k = l
    BY <1>0, <1>a, <2>1, <2>2 DEF CourseOf, SeedFirst, Fresh, IsSeedLink
  <2>3. CASE k /= l
    BY <1>0, <1>a, <2>1, <2>3 DEF CourseOf, SeedFirst, Fresh, IsSeedLink
  <2> QED BY <2>2, <2>3
<1>12. ASSUME NEW l \in Link, Introduced(l) PROVE CourseOf(k)' /\ SeedFirst(k)'
  <2>1. /\ loop'[k] = loop[k] \/ (loop'[k] = "idle" /\ left[k] = {} /\ loop[k] = "introducing")
        /\ UNCHANGED <<target, near, far, registered, asked, request, intros, handler, left>>
    BY <1>0, <1>12 DEF Introduced
  <2> QED BY <1>a, <2>1 DEF CourseOf, SeedFirst, Fresh, IsSeedLink
<1>13. ASSUME NEW l \in Link, ReadSession(l) PROVE CourseOf(k)' /\ SeedFirst(k)'
  <2>1. /\ near[l] = "open" /\ intros[l] /= <<>>
        /\ k /= l => intros'[k] = intros[k] /\ handler'[k] = handler[k]
        /\ UNCHANGED <<target, near, far, registered, asked, request, loop, left>>
    BY <1>0, <1>13 DEF ReadSession, syncVars
  <2>2. CASE k = l
    BY <1>0, <1>a, <2>1, <2>2 DEF CourseOf, SeedFirst, Fresh, IsSeedLink
  <2>3. CASE k /= l
    BY <1>0, <1>a, <2>1, <2>3 DEF CourseOf, SeedFirst, Fresh, IsSeedLink
  <2> QED BY <2>2, <2>3
<1>14. ASSUME NEW l \in Link, NEW m \in Link, Connect(l, m) PROVE CourseOf(k)' /\ SeedFirst(k)'
  <2>1. PICK u \in up : target' = [target EXCEPT ![m] = u]
    BY <1>14 DEF Connect
  <2>2. u /= None /\ target[m] = None /\ From(m) = From(l) /\ handler[l] /= Idle
    <3>1. u /= None
      BY MeshAssumption DEF TypeOK
    <3> QED BY <1>14, <3>1 DEF Connect, Unused, Idle
  <2>3. near[m] = "none" /\ Fresh(m)
    BY <1>a, <2>2 DEF CourseOf
  <2>4. IsSeedLink(l) /\ From(m) \in asked /\ m /= l
    BY <1>a, <2>2, <2>3 DEF SeedFirst, Fresh
  <2>5. ~IsSeedLink(m)
    BY <2>2, <2>4 DEF IsSeedLink
  <2>6. /\ near' = [near EXCEPT ![m] = "handshake"]
        /\ handler' = [handler EXCEPT ![l] = [step |-> "add", to |-> m]]
        /\ UNCHANGED <<far, registered, asked, request, intros, loop, left>>
    BY <1>14 DEF Connect, syncVars
  <2>7. CASE k = m
    <3>1. target'[k] = u /\ near'[k] = "handshake" /\ handler'[k] = handler[k]
      BY <1>0, <2>1, <2>4, <2>6, <2>7
    <3> QED BY <2>2, <2>3, <2>4, <2>5, <2>6, <2>7, <3>1 DEF CourseOf, SeedFirst, Fresh, IsSeedLink
  <2>8. CASE k /= m
    <3>1. target'[k] = target[k] /\ near'[k] = near[k]
      BY <1>0, <2>1, <2>6, <2>8
    <3>2. CASE k = l
      <4>1. handler'[k] /= Idle /\ handler[k] /= Idle
        BY <1>0, <2>2, <2>6, <3>2 DEF Idle
      <4> QED BY <1>a, <2>4, <2>6, <3>1, <3>2, <4>1 DEF CourseOf, SeedFirst, Fresh, IsSeedLink
    <3>3. CASE k /= l
      <4>1. handler'[k] = handler[k]
        BY <1>0, <2>6, <3>3
      <4> QED BY <1>a, <2>6, <3>1, <4>1 DEF CourseOf, SeedFirst, Fresh, IsSeedLink
    <3> QED BY <3>2, <3>3
  <2> QED BY <2>7, <2>8
<1>15. ASSUME NEW l \in Link, AddSession(l) PROVE CourseOf(k)' /\ SeedFirst(k)'
  <2>1. handler[l] /= Idle
    BY <1>15 DEF AddSession, Idle
  <2> QED BY <1>0, <1>a, <1>15, <2>1 DEF AddSession, CourseOf, SeedFirst, Fresh, IsSeedLink, syncVars
<1>16. CASE UNCHANGED vars
  BY <1>a, <1>16 DEF vars, syncVars, CourseOf, SeedFirst, Fresh, IsSeedLink
<1> QED
  BY <1>1, <1>2, <1>3, <1>4, <1>5, <1>6, <1>7, <1>8, <1>9, <1>10, <1>11, <1>12, <1>13, <1>14,
     <1>15, <1>16 DEF Next, Start, Sync, Follow

LEMMA CourseInit == Init => Course
BY LinkShape DEF Init, Course, CourseOf, SeedFirst, Fresh

(* Introductions travel, and hold the strand and maybe the thread of        *)
(* session_handler, on the first link of a state only: config_ is set when  *)
(* that link is open, and no other link is opened before.                   *)
THEOREM SeedIntroduces == Spec => []OnlySeedIntroduces
<1>1. Init => TypeOK /\ Course
  BY CourseInit, MeshAssumption DEF Init, TypeOK, Idle
<1>2. TypeOK /\ Course /\ [Next]_vars => TypeOK' /\ Course'
  BY TypeStep, CourseStep
<1>3. Course => OnlySeedIntroduces
  BY DEF Course, SeedFirst, IsSeedLink, OnlySeedIntroduces
<1> QED BY <1>1, <1>2, <1>3, PTL DEF Spec

-----------------------------------------------------------------------------
(* Who listens.                                                            *)

LEMMA PresenceStep == TypeOK /\ Presence /\ [Next]_vars => Presence'
<1> SUFFICES ASSUME TypeOK, Presence, [Next]_vars PROVE Presence'
  OBVIOUS
<1> USE LinkShape
<1>1. CASE \E s \in States : Listen(s) \/ ConnectSeed(s)
  BY <1>1 DEF Listen, ConnectSeed, Presence
<1>2. ASSUME NEW s \in States, Die(s) PROVE Presence'
  <2>1. up' \cup dead' = up \cup dead /\ dead \subseteq dead'
    BY <1>2 DEF Die
  <2>2. \A l \in Link : request'[l] = "none" \/ request'[l] = request[l]
    BY <1>2 DEF Die
  <2>3. UNCHANGED <<replaces, registered>>
    BY <1>2 DEF Die
  <2> QED BY <2>1, <2>2, <2>3 DEF Presence
<1>3. ASSUME NEW l \in Link, OpenNear(l) PROVE Presence'
  <2>1. \A k \in Link : k /= l => request'[k] = request[k]
    BY <1>3 DEF OpenNear, TypeOK
  <2> QED BY <1>3, <2>1 DEF OpenNear, Presence
<1>4. ASSUME NEW l \in Link, ReadRegister(l) PROVE Presence'
  <2>1. \A k \in Link : request'[k] = "none" \/ request'[k] = request[k]
    BY <1>4 DEF ReadRegister, TypeOK
  <2>2. registered' = registered \cup {l} /\ request[l] /= "none"
    BY <1>4 DEF ReadRegister
  <2> QED BY <1>4, <2>1, <2>2 DEF ReadRegister, Presence
<1>5. CASE UNCHANGED <<up, dead, replaces, registered, request>>
  BY <1>5 DEF Presence
<1> QED
  BY <1>1, <1>2, <1>3, <1>4, <1>5
     DEF Next, Start, Sync, Follow, AcceptLink, OpenFar, CloseNear, CloseFar, SyncSessions,
         Introduce, Introduced, ReadSession, Connect, AddSession, vars

LEMMA OwnAddress ==
    ASSUME Presence, dead = {}, NEW s \in up
    PROVE  Address(s) = s
BY DEF Presence, Address

LEMMA ListeningStep ==
    TypeOK /\ Presence /\ IntroducedIsListening /\ [Next]_vars => IntroducedIsListening'
<1> SUFFICES ASSUME TypeOK, Presence, IntroducedIsListening, [Next]_vars, dead' = {}, NEW k \in Link
             PROVE  /\ \A i \in 1..Len(intros'[k]) : intros'[k][i] \in up'
                    /\ handler'[k].step = "connect" => handler'[k].to \in up'
  BY DEF IntroducedIsListening
<1> DEFINE Goal == /\ \A i \in 1..Len(intros'[k]) : intros'[k][i] \in up'
                   /\ handler'[k].step = "connect" => handler'[k].to \in up'
<1> USE LinkShape
<1>0. intros \in [Link -> Seq(States)] /\ DOMAIN handler = Link
  BY DEF TypeOK
<1>a. ASSUME dead = {}
      PROVE  /\ \A i \in 1..Len(intros[k]) : intros[k][i] \in up
             /\ handler[k].step = "connect" => handler[k].to \in up
  BY <1>a DEF IntroducedIsListening
<1>1. CASE \E s \in States : Listen(s) \/ ConnectSeed(s)
  <2>1. up \subseteq up' /\ UNCHANGED <<dead, intros, handler>>
    BY <1>1 DEF Listen, ConnectSeed
  <2> QED BY <1>a, <2>1
<1>2. CASE \E s \in States : Die(s)
  <2>1. dead' /= {}
    BY <1>2 DEF Die
  <2> QED BY <2>1
<1>3. ASSUME NEW l \in Link, NEW e \in left[l], Introduce(l, e) PROVE Goal
  <2>1. UNCHANGED <<up, dead, handler>> /\ dead = {}
    BY <1>3 DEF Introduce
  <2>2. CASE k = l /\ Reported(l, e)
    <3>1. e[2] \in Link /\ From(e[2]) \in States
      BY DEF TypeOK
    <3>2. From(e[2]) \in up
      BY <2>1, <2>2, <3>1 DEF Reported, Presence
    <3>3. intros'[k] = Append(intros[k], From(e[2]))
      BY <1>0, <1>3, <2>1, <2>2, <3>2, OwnAddress DEF Introduce
    <3>4. /\ Len(intros'[k]) = Len(intros[k]) + 1 /\ Len(intros[k]) \in Nat
          /\ intros'[k][Len(intros[k]) + 1] = From(e[2])
          /\ \A i \in 1..Len(intros[k]) : intros'[k][i] = intros[k][i]
      <4>1. intros[k] \in Seq(States)
        BY <1>0
      <4> QED BY <3>1, <3>3, <4>1, QueueFacts
    <3> QED BY <1>a, <2>1, <3>2, <3>4
  <2>3. CASE ~(k = l /\ Reported(l, e))
    <3>1. intros'[k] = intros[k]
      BY <1>0, <1>3, <2>3 DEF Introduce
    <3> QED BY <1>a, <2>1, <3>1
  <2> QED BY <2>2, <2>3
<1>4. ASSUME NEW l \in Link, ReadSession(l) PROVE Goal
  <2>1. UNCHANGED <<up, dead>> /\ dead = {}
    BY <1>4 DEF ReadSession
  <2>2. CASE k = l
    <3>1. /\ intros'[k] = Tail(intros[k]) /\ intros[k] /= <<>>
          /\ handler'[k] \in {Idle, [step |-> "connect", to |-> Head(intros[k])]}
      BY <1>0, <1>4, <2>2 DEF ReadSession
    <3>2. intros[k] \in Seq(States)
      BY <1>0
    <3>3. /\ Head(intros[k]) = intros[k][1] /\ Len(intros[k]) \in Nat \ {0}
          /\ Len(intros'[k]) = Len(intros[k]) - 1
          /\ \A i \in 1..Len(intros'[k]) : intros'[k][i] = intros[k][i + 1]
      BY <3>1, <3>2, QueueFacts
    <3>4. \A i \in 1..Len(intros'[k]) : intros'[k][i] \in up'
      BY <1>a, <2>1, <3>3
    <3>5. intros[k][1] \in up
      BY <1>a, <2>1, <3>3
    <3> QED BY <2>1, <3>1, <3>3, <3>4, <3>5 DEF Idle
  <2>3. CASE k /= l
    <3>1. intros'[k] = intros[k] /\ handler'[k] = handler[k]
      BY <1>0, <1>4, <2>3 DEF ReadSession
    <3> QED BY <1>a, <2>1, <3>1
  <2> QED BY <2>2, <2>3
<1>5. ASSUME NEW l \in Link, (\E m \in Link : Connect(l, m)) \/ AddSession(l) PROVE Goal
  <2>1. UNCHANGED <<up, dead, intros>>
    BY <1>5 DEF Connect, AddSession
  <2>2. handler'[k] = handler[k] \/ handler'[k].step /= "connect"
    BY <1>0, <1>5 DEF Connect, AddSession, Idle
  <2> QED BY <1>a, <2>1, <2>2
<1>6. CASE UNCHANGED <<up, dead, intros, handler>>
  BY <1>a, <1>6
<1> QED
  BY <1>1, <1>2, <1>3, <1>4, <1>5, <1>6
     DEF Next, Start, Sync, Follow, AcceptLink, OpenFar, OpenNear, CloseNear, CloseFar,
         ReadRegister, SyncSessions, Introduced, vars

(* As long as no process has died, whoever a state is introduced to, and     *)
(* whoever its session_handler is to connect to, listens already, so the     *)
(* connect loop there does not hold the thread for a peer that has yet to    *)
(* start.                                                                    *)
THEOREM IntroducedListens == Spec => []IntroducedIsListening
<1>1. Init => TypeOK /\ Presence /\ IntroducedIsListening
  BY MeshAssumption DEF Init, TypeOK, Presence, IntroducedIsListening, Idle
<1>2. TypeOK /\ Presence /\ IntroducedIsListening /\ [Next]_vars
      => (TypeOK /\ Presence /\ IntroducedIsListening)'
  BY TypeStep, PresenceStep, ListeningStep
<1> QED BY <1>1, <1>2, PTL DEF Spec

-----------------------------------------------------------------------------
(* Two registrations.                                                      *)

\* Both are registered with the same state, as their seed, and in its table.
Pair(l, m) ==
    /\ IsSeedLink(l) /\ IsSeedLink(m) /\ l /= m /\ target[l] = target[m]
    /\ {l, m} \subseteq registered
    /\ {<<"far", l>>, <<"far", m>>} \subseteq listed

\* l has been told of m, or will be.
Tells(l, m) == <<l, m>> \in told \/ loop[l] = "marked" \/ <<"far", m>> \in left[l]

\* What was registered stays as it was.
LEMMA PairKept ==
    ASSUME Course, NEW l \in Link, NEW m \in Link, Pair(l, m)',
           registered' = registered, l \in registered => target'[l] = target[l],
           m \in registered => target'[m] = target[m],
           \A k \in registered : <<"far", k>> \in listed' => <<"far", k>> \in listed
    PROVE  Pair(l, m)
BY DEF Pair, IsSeedLink

LEMMA NoticedStep == TypeOK /\ Course /\ Noticed /\ [Next]_vars => Noticed'
<1> SUFFICES ASSUME TypeOK, Course, Noticed, [Next]_vars, NEW l \in Link, NEW m \in Link, Pair(l, m)'
             PROVE  Tells(l, m)' \/ Tells(m, l)'
  BY DEF Noticed, Pair, Tells
<1> DEFINE Goal == Tells(l, m)' \/ Tells(m, l)'
<1> USE LinkShape
<1>0. /\ \A k \in Link : CourseOf(k) /\ SeedFirst(k)
      /\ DOMAIN target = Link /\ DOMAIN loop = Link /\ DOMAIN left = Link
      /\ target \in [Link -> States \cup {None}] /\ left \in [Link -> SUBSET End]
      /\ \A k \in registered : target[k] /= None /\ far[k] \in {"open", "closed"}
  BY DEF TypeOK, Course, CourseOf
<1>a. Pair(l, m) => Tells(l, m) \/ Tells(m, l)
  BY DEF Noticed, Pair, Tells
\* Steps that leave the registrations and the introductions alone.
<1>b. ASSUME UNCHANGED <<registered, told, loop, left>>,
             \A k \in registered : target'[k] = target[k],
             \A k \in registered : <<"far", k>> \in listed' => <<"far", k>> \in listed
      PROVE  Goal
  <2>1. Pair(l, m)
    BY <1>b, PairKept
  <2> QED BY <1>a, <1>b, <2>1 DEF Tells
<1>1. ASSUME NEW s \in States, ConnectSeed(s) PROVE Goal
  <2>1. PICK u \in up : target' = [target EXCEPT ![SeedLink(s)] = u]
    BY <1>1 DEF ConnectSeed
  <2>2. SeedLink(s) \notin registered
    BY <1>0, <1>1 DEF ConnectSeed
  <2>3. \A k \in registered : target'[k] = target[k]
    BY <1>0, <2>1, <2>2
  <2>4. listed' = listed \cup {<<"near", SeedLink(s)>>}
        /\ UNCHANGED <<registered, told, loop, left>>
    BY <1>1 DEF ConnectSeed, syncVars
  <2> QED BY <1>b, <2>3, <2>4
<1>2. ASSUME NEW s \in States, Die(s) PROVE Goal
  <2>1. UNCHANGED <<registered, target, told>> /\ listed' = listed \ SessionsOf(s)
    BY <1>2 DEF Die
  <2>2. Pair(l, m)
    BY <2>1, PairKept
  <2>3. target[l] /= s /\ target[m] = target[l]
    BY <2>1, <2>2, SessionsType DEF Pair
  <2>4. \A k \in Link : target[k] /= s => loop'[k] = loop[k] /\ left'[k] = left[k]
    BY <1>2 DEF Die
  <2> QED BY <1>a, <2>1, <2>2, <2>3, <2>4 DEF Tells
<1>3. ASSUME NEW k \in Link, AcceptLink(k) PROVE Goal
  <2>1. k \notin registered
    BY <1>0, <1>3 DEF AcceptLink
  <2>2. listed' = listed \cup {<<"far", k>>} /\ UNCHANGED <<registered, target, told, loop, left>>
    BY <1>3 DEF AcceptLink, syncVars
  <2> QED BY <1>b, <2>1, <2>2
<1>4. ASSUME NEW k \in Link, ReadRegister(k) PROVE Goal
  <2>1. /\ registered' = registered \cup {k} /\ k \notin registered
        /\ UNCHANGED <<target, listed, told, left>>
    BY <1>0, <1>4 DEF ReadRegister, CourseOf
  <2>2. CASE k \in {l, m}
    <3>1. IsSeedLink(k)
      BY <2>2 DEF Pair, IsSeedLink
    <3>2. request[k] = "introduce me"
      BY <1>0, <1>4, <3>1 DEF ReadRegister, SeedFirst, TypeOK
    <3>3. loop'[k] = "marked"
      BY <1>0, <1>4, <3>2 DEF ReadRegister
    <3> QED BY <2>2, <3>3 DEF Tells
  <2>3. CASE k \notin {l, m}
    <3>1. Pair(l, m)
      BY <2>1, <2>3 DEF Pair, IsSeedLink
    <3>2. loop'[l] = loop[l] /\ loop'[m] = loop[m]
      BY <1>0, <1>4, <2>3 DEF ReadRegister
    <3> QED BY <1>a, <2>1, <3>1, <3>2 DEF Tells
  <2> QED BY <2>2, <2>3
<1>5. ASSUME NEW k \in Link, SyncSessions(k) PROVE Goal
  <2>1. UNCHANGED <<registered, target, listed, told>>
    BY <1>5 DEF SyncSessions
  <2>2. Pair(l, m)
    BY <2>1, PairKept
  <2>3. left'[k] = SessionsOf(target[k])
    BY <1>0, <1>5 DEF SyncSessions
  <2>4. <<"far", l>> \in SessionsOf(target[m]) /\ <<"far", m>> \in SessionsOf(target[l])
    BY <2>2, SessionsType DEF Pair
  <2>5. CASE k \in {l, m}
    BY <2>3, <2>4, <2>5 DEF Tells
  <2>6. CASE k \notin {l, m}
    <3>1. loop'[l] = loop[l] /\ loop'[m] = loop[m] /\ left'[l] = left[l] /\ left'[m] = left[m]
      BY <1>0, <1>5, <2>6 DEF SyncSessions
    <3> QED BY <1>a, <2>1, <2>2, <3>1 DEF Tells
  <2> QED BY <2>5, <2>6
<1>6. ASSUME NEW k \in Link, NEW e \in left[k], Introduce(k, e) PROVE Goal
  <2>1. UNCHANGED <<registered, target, listed, loop>> /\ told \subseteq told'
    BY <1>6 DEF Introduce
  <2>2. Pair(l, m)
    BY <2>1, PairKept
  <2>3. left' = [left EXCEPT ![k] = @ \ {e}]
    BY <1>6 DEF Introduce
  \* An end that is taken from left leads to an introduction.
  <2>4. ASSUME NEW x \in {l, m}, NEW y \in {l, m}, x /= y, Tells(x, y) PROVE Tells(x, y)'
    <3>1. CASE <<"far", y>> \in left[x] /\ <<"far", y>> \notin left'[x]
      <4>1. k = x /\ e = <<"far", y>>
        BY <1>0, <2>3, <3>1
      <4>2. Reported(k, e)
        BY <2>2, <2>4, <4>1 DEF Reported, Pair
      <4>3. <<x, y>> \in told'
        BY <1>6, <4>1, <4>2 DEF Introduce
      <4> QED BY <4>3 DEF Tells
    <3>2. CASE ~(<<"far", y>> \in left[x] /\ <<"far", y>> \notin left'[x])
      BY <2>1, <2>4, <3>2 DEF Tells
    <3> QED BY <3>1, <3>2
  <2>5. l /= m
    BY <2>2 DEF Pair
  <2> QED BY <1>a, <2>2, <2>4, <2>5
<1>7. ASSUME NEW k \in Link, Introduced(k) PROVE Goal
  <2>1. UNCHANGED <<registered, target, listed, told, left>>
    BY <1>7 DEF Introduced
  <2>2. \A x \in Link : loop[x] = "marked" => loop'[x] = "marked"
    BY <1>0, <1>7 DEF Introduced
  <2>3. Pair(l, m)
    BY <2>1, PairKept
  <2> QED BY <1>a, <2>1, <2>2, <2>3 DEF Tells
<1>8. ASSUME NEW k \in Link, NEW n \in Link, Connect(k, n) PROVE Goal
  <2>1. PICK u \in up : target' = [target EXCEPT ![n] = u]
    BY <1>8 DEF Connect
  <2>2. n \notin registered
    BY <1>0, <1>8 DEF Connect, Unused
  <2>3. \A x \in registered : target'[x] = target[x]
    BY <1>0, <2>1, <2>2
  <2>4. UNCHANGED <<listed, registered, told, loop, left>>
    BY <1>8 DEF Connect, syncVars
  <2> QED BY <1>b, <2>3, <2>4
<1>9. ASSUME NEW k \in Link, AddSession(k) PROVE Goal
  <2>1. /\ listed' = listed \cup {<<"near", handler[k].to>>}
        /\ UNCHANGED <<registered, target, told, loop, left>>
    BY <1>9 DEF AddSession, syncVars
  <2> QED BY <1>b, <2>1
<1>10. ASSUME NEW k \in Link, CloseNear(k) \/ CloseFar(k) PROVE Goal
  <2>1. listed' \subseteq listed /\ UNCHANGED <<registered, target, told, loop, left>>
    BY <1>10 DEF CloseNear, CloseFar, syncVars
  <2> QED BY <1>b, <2>1
<1>11. CASE UNCHANGED <<target, listed, registered, told, loop, left>>
  BY <1>b, <1>11
<1> QED
  BY <1>1, <1>2, <1>3, <1>4, <1>5, <1>6, <1>7, <1>8, <1>9, <1>10, <1>11
     DEF Next, Start, Sync, Follow, Listen, OpenFar, OpenNear, ReadSession, vars, syncVars

(* Of two nodes that are registered with the same seed, and served, one has *)
(* been introduced to the other, in whatever order the seed marks the two   *)
(* sessions, copies its table and goes over the copies.                     *)
THEOREM NobodyMissed == Spec => []NoMissedIntroduction
<1>1. Init => TypeOK /\ Course /\ Noticed
  BY CourseInit, MeshAssumption DEF Init, TypeOK, Noticed, Idle
<1>2. TypeOK /\ Course /\ Noticed /\ [Next]_vars => (TypeOK /\ Course /\ Noticed)'
  BY TypeStep, CourseStep, NoticedStep
<1>3. TypeOK /\ Course /\ Noticed => NoMissedIntroduction
  <2> SUFFICES ASSUME TypeOK, Course, Noticed, NEW s \in States, NEW u \in States, s /= u,
                      target[SeedLink(s)] = target[SeedLink(u)],
                      Served(SeedLink(s)), Served(SeedLink(u)),
                      {<<"far", SeedLink(s)>>, <<"far", SeedLink(u)>>} \subseteq listed
               PROVE  \/ <<SeedLink(s), SeedLink(u)>> \in told
                      \/ <<SeedLink(u), SeedLink(s)>> \in told
    BY DEF NoMissedIntroduction
  <2>1. /\ SeedLink(s) \in Link /\ SeedLink(u) \in Link /\ SeedLink(s) /= SeedLink(u)
        /\ IsSeedLink(SeedLink(s)) /\ IsSeedLink(SeedLink(u))
    BY LinkShape DEF IsSeedLink
  <2>2. \A l \in {SeedLink(s), SeedLink(u)} : l \in registered /\ loop[l] = "idle" /\ left[l] = {}
    BY <2>1 DEF Served, Course, CourseOf
  <2> QED BY <2>1, <2>2 DEF Noticed
<1> QED BY <1>1, <1>2, <1>3, PTL DEF Spec

-----------------------------------------------------------------------------
(* The introductions over one link.                                        *)

\* Nobody comes back to life.
LEMMA DeadStay == [Next]_vars => dead \subseteq dead'
BY DEF Next, Start, Sync, Follow, ConnectSeed, Listen, Die, AcceptLink, OpenFar, OpenNear,
       CloseNear, CloseFar, ReadRegister, SyncSessions, Introduce, Introduced, ReadSession,
       Connect, AddSession, vars

\* A step that hears of nobody new over k, and connects to nobody.
LEMMA ApartKept ==
    ASSUME TypeOK, NEW k \in Link, ApartOf(k),
           left'[k] \subseteq left[k], intros'[k] = intros[k],
           handler'[k] \in {handler[k], Idle},
           k \in registered => k \in registered',
           loop'[k] = "marked" => loop[k] = "marked" \/ k \notin registered,
           \A m \in Link : From(m) = From(k) => target'[m] = target[m],
           \A m \in Link : target[m] /= None => target'[m] = target[m],
           left[k] /= {} => target[k] /= None
    PROVE  ApartOf(k)'
<1>1. \A u \in States : /\ ToHear(k, u)' => ToHear(k, u)
                        /\ Heard(k, u)' <=> Heard(k, u)
                        /\ InHand(k, u)' => InHand(k, u)
                        /\ Followed(k, u)' <=> Followed(k, u)
  <2> SUFFICES ASSUME NEW u \in States
               PROVE  /\ ToHear(k, u)' => ToHear(k, u)
                      /\ Heard(k, u)' <=> Heard(k, u)
                      /\ InHand(k, u)' => InHand(k, u)
                      /\ Followed(k, u)' <=> Followed(k, u)
    OBVIOUS
  <2>1. ToHear(k, u)' => ToHear(k, u)
    BY DEF ToHear
  <2>2. Heard(k, u)' <=> Heard(k, u)
    BY DEF Heard
  <2>3. InHand(k, u)' => InHand(k, u)
    BY DEF InHand, Idle
  <2>4. Followed(k, u)' <=> Followed(k, u)
    BY DEF Followed
  <2> QED BY <2>1, <2>2, <2>3, <2>4
<1>2. target'[k] = target[k]
  OBVIOUS
<1>3. \A m \in Link : <<"far", m>> \in left'[k] => target'[m] = target'[k]
  BY <1>2 DEF ApartOf
<1>4. k \notin registered' \/ loop'[k] = "marked" =>
          intros'[k] = <<>> /\ handler'[k] = Idle /\ \A u \in States : ~Followed(k, u)'
  BY <1>1 DEF ApartOf
<1>5. \A i, j \in 1..Len(intros'[k]) : i /= j => intros'[k][i] /= intros'[k][j]
  BY DEF ApartOf
<1>6. \A u \in States :
          /\ ToHear(k, u)' => ~Heard(k, u)' /\ ~InHand(k, u)' /\ ~Followed(k, u)'
          /\ Heard(k, u)' => ~InHand(k, u)' /\ ~Followed(k, u)'
          /\ InHand(k, u)' => ~Followed(k, u)'
          /\ Heard(k, u)' \/ InHand(k, u)' => u \notin {From(k), target'[k]}
  BY <1>1, <1>2 DEF ApartOf
<1>7. target'[k] /= None => target'[k] = Seed[From(k)]
  BY <1>2 DEF ApartOf
<1> QED BY <1>3, <1>4, <1>5, <1>6, <1>7 DEF ApartOf

\* The one place where links are opened, but for the first of a state.
LEMMA ConnectFacts ==
    ASSUME TypeOK, Course, Presence, Apart, dead = {}, NEW l \in Link, NEW m \in Link,
           Connect(l, m)
    PROVE  /\ IsSeedLink(l) /\ ~IsSeedLink(m) /\ m /= l /\ From(m) = From(l)
           /\ target[m] = None /\ target[l] /= None
           /\ l \in registered /\ loop[l] /= "marked"
           /\ handler[l].to \in States /\ InHand(l, handler[l].to)
           /\ target' = [target EXCEPT ![m] = handler[l].to]
           /\ handler' = [handler EXCEPT ![l] = [step |-> "add", to |-> m]]
           /\ UNCHANGED <<left, intros, registered, loop>>
<1> USE LinkShape
<1>1. /\ handler[l].step = "connect" /\ From(m) = From(l) /\ target[m] = None
      /\ handler' = [handler EXCEPT ![l] = [step |-> "add", to |-> m]]
      /\ UNCHANGED <<left, intros, registered, loop>>
  BY DEF Connect, Unused, syncVars
<1>2. PICK u \in up : Address(u) = handler[l].to /\ target' = [target EXCEPT ![m] = u]
  BY DEF Connect
<1>3. u = handler[l].to /\ u \in States
  BY <1>2, OwnAddress DEF TypeOK
<1>4. handler[l] /= Idle
  BY <1>1 DEF Idle
<1>5. /\ IsSeedLink(l) /\ ~Fresh(l) /\ loop[l] /= "marked"
      /\ target[l] /= None
  BY <1>4 DEF Course, CourseOf, SeedFirst, Fresh
<1>6. m /= l
  BY <1>1, <1>5
<1>7. ~IsSeedLink(m)
  BY <1>1, <1>5, <1>6 DEF IsSeedLink
<1>8. l \in registered
  BY <1>4, <1>5 DEF Apart, ApartOf
<1> QED BY <1>1, <1>2, <1>3, <1>5, <1>6, <1>7, <1>8 DEF InHand

LEMMA SeedFacts ==
    ASSUME TypeOK, Course, Presence, Apart, dead = {}, NEW s \in States, ConnectSeed(s)
    PROVE  /\ Seed[s] \in States /\ Seed[s] /= s
           /\ target' = [target EXCEPT ![SeedLink(s)] = Seed[s]]
           /\ target[SeedLink(s)] = None
           /\ SeedLink(s) \notin registered
           /\ \A m \in Link : m /= SeedLink(s) /\ From(m) = s => target[m] \notin States
           /\ UNCHANGED <<left, intros, handler, registered, loop>>
<1> USE LinkShape
<1>1. PICK u \in up : Address(u) = Seed[s] /\ target' = [target EXCEPT ![SeedLink(s)] = u]
  BY DEF ConnectSeed
<1>2. u = Seed[s] /\ u \in States
  BY <1>1, OwnAddress DEF TypeOK
<1>3. SeedLink(s) \in Link /\ target[SeedLink(s)] = None /\ IsSeedLink(SeedLink(s))
  BY DEF ConnectSeed, IsSeedLink
<1>4. SeedLink(s) \notin registered
  BY <1>3 DEF Course, CourseOf, Fresh
<1>5. \A x \in States : ~Followed(SeedLink(s), x)
  BY <1>3, <1>4 DEF Apart, ApartOf
<1>6. \A m \in Link : m /= SeedLink(s) /\ From(m) = s => target[m] \notin States
  BY <1>3, <1>5 DEF Followed
<1>7. UNCHANGED <<left, intros, handler, registered, loop>>
  BY DEF ConnectSeed, syncVars
<1>8. Seed[s] /= s
  BY MeshAssumption
<1> QED BY <1>1, <1>2, <1>3, <1>4, <1>6, <1>7, <1>8

LEMMA OneLinkStep ==
    TypeOK /\ Course /\ Presence /\ Apart /\ OneLinkEachWay /\ [Next]_vars => OneLinkEachWay'
<1> SUFFICES ASSUME TypeOK, Course, Presence, Apart, OneLinkEachWay, [Next]_vars, dead' = {},
                    NEW k \in Link, target'[k] /= None, NEW n \in Link
             PROVE  /\ target'[k] /= From(k)
                    /\ From(n) = From(k) /\ target'[n] = target'[k] => n = k
  BY DEF OneLinkEachWay
<1> DEFINE Goal == /\ target'[k] /= From(k)
                   /\ From(n) = From(k) /\ target'[n] = target'[k] => n = k
<1> USE LinkShape
<1>0. dead = {} /\ DOMAIN target = Link
  BY DeadStay DEF TypeOK
<1>a. /\ \A m \in Link : target[m] /= None => target[m] /= From(m)
      /\ \A l, m \in Link : /\ target[l] /= None /\ From(m) = From(l) /\ target[m] = target[l]
                            => m = l
  BY <1>0 DEF OneLinkEachWay
<1>b. \A l \in Link : IsSeedLink(l) => ApartOf(l)
  BY <1>0 DEF Apart
\* A new link n0 of the state of k, to x.
<1>c. ASSUME NEW n0 \in Link, NEW x \in States, target' = [target EXCEPT ![n0] = x],
             x /= From(n0), \A m \in Link \ {n0} : From(m) = From(n0) => target[m] /= x
      PROVE  Goal
  <2>1. None \notin States
    BY MeshAssumption
  <2> QED BY <1>0, <1>a, <1>c, <2>1
<1>1. ASSUME NEW s \in States, ConnectSeed(s) PROVE Goal
  BY <1>0, <1>c, <1>1, SeedFacts
<1>2. ASSUME NEW l \in Link, NEW m \in Link, Connect(l, m) PROVE Goal
  <2> DEFINE u == handler[l].to
  <2>1. /\ IsSeedLink(l) /\ m /= l /\ From(m) = From(l)
        /\ u \in States /\ InHand(l, u) /\ target' = [target EXCEPT ![m] = u]
    BY <1>0, <1>2, ConnectFacts
  <2>2. u /= From(l) /\ target[l] /= u /\ ~Followed(l, u)
    BY <1>b, <2>1 DEF ApartOf
  <2>3. \A x \in Link : From(x) = From(l) => target[x] /= u
    BY <2>2 DEF Followed
  <2>4. u /= From(m) /\ \A x \in Link \ {m} : From(x) = From(m) => target[x] /= u
    BY <2>1, <2>2, <2>3
  <2> HIDE DEF u
  <2> QED BY <1>c, <2>1, <2>4
<1>3. CASE UNCHANGED target
  BY <1>a, <1>3
<1> QED
  BY <1>1, <1>2, <1>3
     DEF Next, Start, Sync, Follow, Listen, Die, AcceptLink, OpenFar, OpenNear,
         CloseNear, CloseFar, ReadRegister, SyncSessions, Introduce, Introduced, ReadSession,
         AddSession, vars

LEMMA ApartStep ==
    TypeOK /\ Course /\ Presence /\ Apart /\ OneLinkEachWay /\ [Next]_vars => Apart'
<1> SUFFICES ASSUME TypeOK, Course, Presence, Apart, OneLinkEachWay, [Next]_vars, dead' = {},
                    NEW k \in Link, IsSeedLink(k)
             PROVE  ApartOf(k)'
  BY DEF Apart, IsSeedLink
<1> USE LinkShape
<1>0. /\ dead = {} /\ DOMAIN target = Link /\ DOMAIN left = Link /\ DOMAIN intros = Link
      /\ DOMAIN handler = Link /\ DOMAIN loop = Link
      /\ intros[k] \in Seq(States)
      /\ target \in [Link -> States \cup {None}] /\ None \notin States
  BY DeadStay, MeshAssumption DEF TypeOK
<1>a. ApartOf(k) /\ CourseOf(k)
  BY <1>0 DEF Apart, Course
<1>b. left[k] /= {} => target[k] /= None /\ loop[k] = "introducing" /\ k \in registered
  BY <1>a DEF CourseOf
<1>c. \A l, m \in Link : target[l] /= None =>
          /\ target[l] /= From(l)
          /\ From(m) = From(l) /\ target[m] = target[l] => m = l
  BY <1>0 DEF OneLinkEachWay
\* Steps that open no link.
<1>d. ASSUME left'[k] \subseteq left[k], intros'[k] = intros[k],
             handler'[k] \in {handler[k], Idle},
             k \in registered => k \in registered',
             loop'[k] = "marked" => loop[k] = "marked" \/ k \notin registered,
             UNCHANGED target
      PROVE  ApartOf(k)'
  BY <1>a, <1>b, <1>d, ApartKept
<1>1. ASSUME NEW s \in States, ConnectSeed(s) PROVE ApartOf(k)'
  <2>1. /\ Seed[s] \in States /\ target' = [target EXCEPT ![SeedLink(s)] = Seed[s]]
        /\ target[SeedLink(s)] = None
        /\ SeedLink(s) \notin registered
        /\ \A m \in Link : m /= SeedLink(s) /\ From(m) = s => target[m] \notin States
        /\ UNCHANGED <<left, intros, handler, registered, loop>>
    BY <1>0, <1>1, SeedFacts
  <2>2. CASE k = SeedLink(s)
    <3>1. intros[k] = <<>> /\ handler[k] = Idle /\ left[k] = {}
      BY <1>a, <1>b, <2>1, <2>2 DEF ApartOf
    <3>2. \A u \in States : ~ToHear(k, u)' /\ ~Heard(k, u)' /\ ~InHand(k, u)'
      BY <2>1, <3>1 DEF ToHear, Heard, InHand, Idle
    <3>3. \A m \in Link : m /= k /\ From(m) = From(k) => target'[m] \notin States
      BY <1>0, <2>1, <2>2
    <3>4. \A u \in States : ~Followed(k, u)'
      BY <3>3 DEF Followed
    <3>5. target'[k] = Seed[From(k)]
      BY <1>0, <2>1, <2>2
    <3> QED BY <2>1, <3>1, <3>2, <3>4, <3>5 DEF ApartOf
  <2>3. CASE k /= SeedLink(s)
    <3>1. From(k) /= s
      BY <2>3 DEF IsSeedLink
    <3>2. \A m \in Link : m /= SeedLink(s) => target'[m] = target[m]
      BY <1>0, <2>1
    <3> QED BY <1>a, <1>b, <2>1, <3>1, <3>2, ApartKept
  <2> QED BY <2>2, <2>3
<1>2. ASSUME NEW l \in Link, SyncSessions(l) PROVE ApartOf(k)'
  <2>1. UNCHANGED <<target, registered, intros, handler>>
    BY <1>2 DEF SyncSessions
  <2>2. CASE k = l
    <3>1. /\ loop[k] = "marked" /\ loop'[k] = "introducing" /\ k \in registered
          /\ left'[k] = SessionsOf(target[k]) /\ target[k] /= None
      BY <1>0, <1>2, <1>a, <2>2 DEF SyncSessions, CourseOf
    <3>2. intros[k] = <<>> /\ handler[k] = Idle /\ \A u \in States : ~Followed(k, u)
      BY <1>a, <3>1 DEF ApartOf
    <3>3. \A u \in States : ~Heard(k, u)' /\ ~InHand(k, u)' /\ ~Followed(k, u)'
      BY <2>1, <3>2 DEF Heard, InHand, Followed, Idle
    <3>4. \A m \in Link : <<"far", m>> \in left'[k] => target'[m] = target'[k]
      BY <2>1, <3>1, SessionsType
    <3> QED BY <1>a, <2>1, <3>1, <3>2, <3>3, <3>4 DEF ApartOf
  <2>3. CASE k /= l
    <3>1. left'[k] = left[k] /\ loop'[k] = loop[k]
      BY <1>0, <1>2, <2>3 DEF SyncSessions
    <3> QED BY <1>d, <2>1, <3>1
  <2> QED BY <2>2, <2>3
<1>3. ASSUME NEW l \in Link, NEW e \in left[l], Introduce(l, e) PROVE ApartOf(k)'
  <2>1. UNCHANGED <<target, registered, handler, loop>> /\ left' = [left EXCEPT ![l] = @ \ {e}]
    BY <1>3 DEF Introduce
  <2>2. left'[k] \subseteq left[k]
    BY <1>0, <2>1
  <2>3. CASE k = l /\ Reported(l, e)
    <3> DEFINE x == From(e[2])
    <3>1. e[2] \in Link /\ e = <<"far", e[2]>> /\ e[2] /= k /\ e[2] \in registered /\ x \in States
      BY <2>3 DEF Reported, TypeOK
    <3>2. x \in up
      BY <1>0, <3>1 DEF Presence
    <3>3. intros'[k] = Append(intros[k], x)
      BY <1>0, <1>3, <2>3, <3>2, OwnAddress DEF Introduce
    <3>4. ToHear(k, x) /\ target[e[2]] = target[k]
      BY <1>a, <2>3, <3>1 DEF ToHear, ApartOf
    <3>5. ~Heard(k, x) /\ ~InHand(k, x) /\ ~Followed(k, x)
      BY <1>a, <3>1, <3>4 DEF ApartOf
    \* Another link of x to the same seed would be the same link.
    <3>6. \A m \in Link : <<"far", m>> \in left'[k] => From(m) /= x
      <4>1. \A m \in Link : <<"far", m>> \in left[k] /\ From(m) = x => m = e[2]
        BY <1>a, <1>b, <1>c, <2>3, <3>1, <3>4 DEF ApartOf
      <4>2. e \notin left'[k]
        BY <1>0, <2>1, <2>3
      <4> QED BY <2>2, <3>1, <4>1, <4>2
    <3>7. x /= From(k) /\ x /= target[k]
      BY <1>b, <1>c, <2>3, <3>1, <3>4
    <3>8. /\ Len(intros[k]) \in Nat /\ Len(intros'[k]) = Len(intros[k]) + 1
          /\ intros'[k][Len(intros[k]) + 1] = x
          /\ \A i \in 1..Len(intros[k]) : intros'[k][i] = intros[k][i]
      BY <1>0, <3>1, <3>3, QueueFacts
    <3>9. \A u \in States : /\ ToHear(k, u)' => ToHear(k, u) /\ u /= x
                            /\ Heard(k, u)' => Heard(k, u) \/ u = x
                            /\ InHand(k, u)' <=> InHand(k, u)
                            /\ Followed(k, u)' <=> Followed(k, u)
      <4> SUFFICES ASSUME NEW u \in States
                   PROVE  /\ ToHear(k, u)' => ToHear(k, u) /\ u /= x
                          /\ Heard(k, u)' => Heard(k, u) \/ u = x
                          /\ InHand(k, u)' <=> InHand(k, u)
                          /\ Followed(k, u)' <=> Followed(k, u)
        OBVIOUS
      <4>1. ToHear(k, u)' => ToHear(k, u) /\ u /= x
        BY <2>2, <3>6 DEF ToHear
      <4>2. Heard(k, u)' => Heard(k, u) \/ u = x
        BY <3>8 DEF Heard
      <4>3. (InHand(k, u)' <=> InHand(k, u)) /\ (Followed(k, u)' <=> Followed(k, u))
        BY <2>1 DEF InHand, Followed
      <4> QED BY <4>1, <4>2, <4>3
    <3>10. \A i, j \in 1..Len(intros'[k]) : i /= j => intros'[k][i] /= intros'[k][j]
      <4>1. \A i \in 1..Len(intros[k]) : intros[k][i] /= x
        BY <3>5 DEF Heard
      <4>2. \A i, j \in 1..Len(intros[k]) : i /= j => intros[k][i] /= intros[k][j]
        BY <1>a DEF ApartOf
      <4>3. \A i \in 1..Len(intros'[k]) : i \in 1..Len(intros[k]) \/ i = Len(intros[k]) + 1
        BY <3>8
      <4> QED BY <3>8, <4>1, <4>2, <4>3
    <3>11. k \in registered /\ loop[k] /= "marked"
      BY <1>b, <2>3
    <3>12. \A u \in States :
              /\ ToHear(k, u)' => ~Heard(k, u)' /\ ~InHand(k, u)' /\ ~Followed(k, u)'
              /\ Heard(k, u)' => ~InHand(k, u)' /\ ~Followed(k, u)'
              /\ InHand(k, u)' => ~Followed(k, u)'
              /\ Heard(k, u)' \/ InHand(k, u)' => u \notin {From(k), target'[k]}
      BY <1>a, <2>1, <3>5, <3>7, <3>9 DEF ApartOf
    <3>13. \A m \in Link : <<"far", m>> \in left'[k] => target'[m] = target'[k]
      BY <1>a, <2>1, <2>2 DEF ApartOf
    <3> QED BY <1>a, <2>1, <3>10, <3>11, <3>12, <3>13 DEF ApartOf
  <2>4. CASE ~(k = l /\ Reported(l, e))
    <3>1. intros'[k] = intros[k]
      BY <1>0, <1>3, <2>4 DEF Introduce
    <3> QED BY <1>d, <2>1, <2>2, <3>1
  <2> QED BY <2>3, <2>4
<1>4. ASSUME NEW l \in Link, ReadSession(l) PROVE ApartOf(k)'
  <2>1. UNCHANGED <<target, registered, left, loop>>
    BY <1>4 DEF ReadSession, syncVars
  <2>2. CASE k = l
    <3> DEFINE x == Head(intros[k])
    <3>1. /\ intros[k] /= <<>> /\ intros'[k] = Tail(intros[k]) /\ handler[k] = Idle
          /\ handler'[k] \in {Idle, [step |-> "connect", to |-> x]}
      BY <1>0, <1>4, <2>2 DEF ReadSession
    <3>2. /\ x \in States /\ x = intros[k][1] /\ Len(intros[k]) \in Nat \ {0}
          /\ Len(intros'[k]) = Len(intros[k]) - 1
          /\ \A i \in 1..Len(intros'[k]) : intros'[k][i] = intros[k][i + 1]
      BY <1>0, <3>1, QueueFacts
    <3>3. Heard(k, x)
      BY <3>2 DEF Heard
    <3>a. \A i, j \in 1..Len(intros[k]) : i /= j => intros[k][i] /= intros[k][j]
      BY <1>a DEF ApartOf
    <3>b. \A i \in 1..Len(intros'[k]) : i + 1 \in 1..Len(intros[k]) /\ i + 1 /= 1 /\ i \in Int
      BY <3>2
    <3>4. \A i \in 1..Len(intros'[k]) : intros'[k][i] /= x
      BY <3>2, <3>a, <3>b
    <3>5. \A u \in States : /\ ToHear(k, u)' <=> ToHear(k, u)
                            /\ Heard(k, u)' => Heard(k, u) /\ u /= x
                            /\ InHand(k, u)' => u = x
                            /\ Followed(k, u)' <=> Followed(k, u)
      <4> SUFFICES ASSUME NEW u \in States
                   PROVE  /\ ToHear(k, u)' <=> ToHear(k, u)
                          /\ Heard(k, u)' => Heard(k, u) /\ u /= x
                          /\ InHand(k, u)' => u = x
                          /\ Followed(k, u)' <=> Followed(k, u)
        OBVIOUS
      <4>1. Heard(k, u)' => Heard(k, u) /\ u /= x
        BY <3>2, <3>4 DEF Heard
      <4>2. InHand(k, u)' => u = x
        BY <3>1 DEF InHand, Idle
      <4>3. (ToHear(k, u)' <=> ToHear(k, u)) /\ (Followed(k, u)' <=> Followed(k, u))
        BY <2>1 DEF ToHear, Followed
      <4> QED BY <4>1, <4>2, <4>3
    <3>6. \A i, j \in 1..Len(intros'[k]) : i /= j => intros'[k][i] /= intros'[k][j]
      <4>1. \A i, j \in 1..Len(intros'[k]) : i /= j => i + 1 /= j + 1
        BY <3>b
      <4> QED BY <3>2, <3>a, <3>b, <4>1
    <3>7. k \in registered /\ loop[k] /= "marked"
      BY <1>a, <3>1 DEF ApartOf
    <3>8. \A u \in States :
              /\ ToHear(k, u)' => ~Heard(k, u)' /\ ~InHand(k, u)' /\ ~Followed(k, u)'
              /\ Heard(k, u)' => ~InHand(k, u)' /\ ~Followed(k, u)'
              /\ InHand(k, u)' => ~Followed(k, u)'
              /\ Heard(k, u)' \/ InHand(k, u)' => u \notin {From(k), target'[k]}
      BY <1>a, <2>1, <3>2, <3>3, <3>5 DEF ApartOf
    <3> QED BY <1>a, <2>1, <3>6, <3>7, <3>8 DEF ApartOf
  <2>3. CASE k /= l
    <3>1. intros'[k] = intros[k] /\ handler'[k] = handler[k]
      BY <1>0, <1>4, <2>3 DEF ReadSession
    <3> QED BY <1>d, <2>1, <3>1
  <2> QED BY <2>2, <2>3
<1>5. ASSUME NEW l \in Link, NEW m \in Link, Connect(l, m) PROVE ApartOf(k)'
  <2> DEFINE x == handler[l].to
  <2>1. /\ IsSeedLink(l) /\ ~IsSeedLink(m) /\ m /= l /\ From(m) = From(l)
        /\ target[m] = None /\ target[l] /= None
        /\ l \in registered /\ loop[l] /= "marked"
        /\ x \in States /\ InHand(l, x)
        /\ target' = [target EXCEPT ![m] = x]
        /\ handler' = [handler EXCEPT ![l] = [step |-> "add", to |-> m]]
        /\ UNCHANGED <<left, intros, registered, loop>>
    BY <1>0, <1>5, ConnectFacts
  <2>2. \A n \in Link : n /= m => target'[n] = target[n]
    BY <1>0, <2>1
  <2>3. CASE k = l
    <3>1. target'[k] = target[k] /\ target'[m] = x /\ handler'[k] = [step |-> "add", to |-> m]
      BY <1>0, <2>1, <2>3
    <3>2. \A u \in States : /\ ToHear(k, u)' <=> ToHear(k, u)
                            /\ Heard(k, u)' <=> Heard(k, u)
                            /\ ~InHand(k, u)'
                            /\ Followed(k, u)' => Followed(k, u) \/ u = x
      <4> SUFFICES ASSUME NEW u \in States
                   PROVE  /\ ToHear(k, u)' <=> ToHear(k, u)
                          /\ Heard(k, u)' <=> Heard(k, u)
                          /\ ~InHand(k, u)'
                          /\ Followed(k, u)' => Followed(k, u) \/ u = x
        OBVIOUS
      <4>1. (ToHear(k, u)' <=> ToHear(k, u)) /\ (Heard(k, u)' <=> Heard(k, u))
        BY <2>1 DEF ToHear, Heard
      <4>2. ~InHand(k, u)'
        BY <3>1 DEF InHand
      <4>3. Followed(k, u)' => Followed(k, u) \/ u = x
        BY <2>2, <3>1 DEF Followed
      <4> QED BY <4>1, <4>2, <4>3
    <3>3. \A u \in States :
              /\ ToHear(k, u)' => ~Heard(k, u)' /\ ~InHand(k, u)' /\ ~Followed(k, u)'
              /\ Heard(k, u)' => ~InHand(k, u)' /\ ~Followed(k, u)'
              /\ InHand(k, u)' => ~Followed(k, u)'
              /\ Heard(k, u)' \/ InHand(k, u)' => u \notin {From(k), target'[k]}
      BY <1>a, <2>1, <2>3, <3>1, <3>2 DEF ApartOf
    <3>4. \A n \in Link : <<"far", n>> \in left'[k] => target'[n] = target'[k]
      BY <1>a, <2>1, <2>2, <2>3, <3>1 DEF ApartOf
    <3> QED BY <1>a, <2>1, <2>3, <3>1, <3>3, <3>4 DEF ApartOf
  <2>4. CASE k /= l
    <3>1. From(k) /= From(l)
      BY <2>1, <2>4 DEF IsSeedLink
    <3>2. handler'[k] = handler[k]
      BY <1>0, <2>1, <2>4
    <3> QED BY <1>a, <1>b, <2>1, <2>2, <3>1, <3>2, ApartKept
  <2> QED BY <2>3, <2>4
<1>6. ASSUME NEW l \in Link, AddSession(l) PROVE ApartOf(k)'
  BY <1>0, <1>d, <1>6 DEF AddSession, syncVars
<1>7. ASSUME NEW l \in Link, ReadRegister(l) PROVE ApartOf(k)'
  <2>1. /\ UNCHANGED <<target, left, intros, handler>>
        /\ registered \subseteq registered'
        /\ k /= l => loop'[k] = loop[k]
        /\ k = l => k \notin registered
    BY <1>0, <1>7, <1>a DEF ReadRegister, CourseOf
  <2> QED BY <1>d, <2>1
<1>8. ASSUME NEW l \in Link, Introduced(l) PROVE ApartOf(k)'
  <2>1. /\ UNCHANGED <<target, left, intros, handler, registered>>
        /\ loop'[k] = "marked" => loop[k] = "marked"
    BY <1>0, <1>8 DEF Introduced
  <2> QED BY <1>d, <2>1
<1>9. CASE \E s \in States : Die(s)
  <2>1. dead' /= {}
    BY <1>9 DEF Die
  <2> QED BY <2>1
<1>10. CASE UNCHANGED <<target, registered, loop, left, intros, handler>>
  BY <1>d, <1>10
<1> QED
  BY <1>1, <1>2, <1>3, <1>4, <1>5, <1>6, <1>7, <1>8, <1>9, <1>10
     DEF Next, Start, Sync, Follow, Listen, AcceptLink, OpenFar, OpenNear, CloseNear, CloseFar,
         vars, syncVars

LEMMA ApartHolds == Spec => [](TypeOK /\ Course /\ Presence /\ Apart /\ OneLinkEachWay)
<1>1. Init => TypeOK /\ Course /\ Presence /\ Apart /\ OneLinkEachWay
  <2> SUFFICES ASSUME Init PROVE TypeOK /\ Course /\ Presence /\ Apart /\ OneLinkEachWay
    OBVIOUS
  <2>1. TypeOK /\ Course /\ Presence
    BY CourseInit, MeshAssumption DEF Init, TypeOK, Presence, Idle
  <2>2. \A l \in Link : target[l] = None
    BY DEF Init
  <2>3. Apart
    BY <2>2, MeshAssumption, LinkShape
       DEF Init, Apart, ApartOf, ToHear, Heard, InHand, Followed, Idle
  <2> QED BY <2>1, <2>2, <2>3 DEF OneLinkEachWay
<1>2. TypeOK /\ Course /\ Presence /\ Apart /\ OneLinkEachWay /\ [Next]_vars
      => (TypeOK /\ Course /\ Presence /\ Apart /\ OneLinkEachWay)'
  BY TypeStep, CourseStep, PresenceStep, ApartStep, OneLinkStep
<1> QED BY <1>1, <1>2, PTL DEF Spec

(* As long as no process has died a state has at most one link to each other *)
(* state and none to itself, although session_handler finds an earlier link  *)
(* only when its handshake is over: nobody is introduced twice, for its one  *)
(* link to the seed is one session there, and the state itself is left out.  *)
THEOREM LinksOnce == Spec => []OneLinkEachWay
BY ApartHolds, PTL
-----------------------------------------------------------------------------
(* Nodes at rest.                                                          *)

\* A link that was opened has a near end, which registers as soon as its
\* handshake is over, and leads to a process that has listened; its far end is
\* in the table until it closes.
OpeningOf(l) ==
    /\ target[l] /= None => near[l] /= "none" /\ target[l] \in up \cup dead
    /\ near[l] = "open" => request[l] /= "none" \/ l \in registered \/ far[l] = "closed"
    /\ far[l] \in {"handshake", "open"} => <<"far", l>> \in listed

\* A process listens after it has connected to its seed, and dies for good.
Opening ==
    /\ up \cap dead = {}
    /\ \A s \in up \cup dead : Seed[s] /= None => target[SeedLink(s)] /= None
    /\ \A l \in Link : OpeningOf(l)

\* One of s and u has opened a link to the other.
Joined(s, u) ==
    \E k \in Link : (From(k) = s /\ target[k] = u) \/ (From(k) = u /\ target[k] = s)

\* No introduction is lost: it is on the link, in hand, or has been followed,
\* by whichever of the two came first.
Pursued ==
    dead = {} => \A l, m \in Link : <<l, m>> \in told =>
        Heard(l, From(m)) \/ InHand(l, From(m)) \/ Joined(From(l), From(m))

\* Nodes have a link with their seed and with the other nodes of it.
LinkedAtRest ==
    Settled => \A s \in States : Seed[s] /= None =>
        /\ Linked(s, Seed[s])
        /\ \A u \in States \ {s} : Seed[u] = Seed[s] => Linked(s, u)

\* Links stay where they lead to.
LEMMA TargetStays ==
    ASSUME TypeOK, [Next]_vars, NEW l \in Link, target[l] /= None
    PROVE  target'[l] = target[l]
<1>1. ASSUME NEW s \in States, ConnectSeed(s) PROVE target'[l] = target[l]
  BY <1>1 DEF ConnectSeed, TypeOK
<1>2. ASSUME NEW k \in Link, NEW m \in Link, Connect(k, m) PROVE target'[l] = target[l]
  BY <1>2 DEF Connect, Unused, TypeOK
<1>3. CASE UNCHANGED target
  BY <1>3
<1> QED
  BY <1>1, <1>2, <1>3
     DEF Next, Start, Sync, Follow, Listen, Die, AcceptLink, OpenFar, OpenNear,
         CloseNear, CloseFar, ReadRegister, SyncSessions, Introduce, Introduced, ReadSession,
         AddSession, vars

LEMMA OpeningStep == TypeOK /\ Course /\ Opening /\ [Next]_vars => Opening'
<1> SUFFICES ASSUME TypeOK, Course, Opening, [Next]_vars PROVE Opening'
  OBVIOUS
<1> USE LinkShape
<1>a. /\ \A l \in Link : OpeningOf(l) /\ CourseOf(l)
      /\ \A l \in Link : target[l] /= None => target'[l] = target[l]
  BY TargetStays DEF Opening, Course
\* A process listens, or dies, or neither.
<1>1. /\ up' \cap dead' = {}
      /\ up \cup dead \subseteq up' \cup dead'
      /\ \A s \in up' \cup dead' : Seed[s] /= None => target'[SeedLink(s)] /= None
  <2> DEFINE Goal == /\ up' \cap dead' = {}
                     /\ up \cup dead \subseteq up' \cup dead'
                     /\ \A s \in up' \cup dead' : Seed[s] /= None => target'[SeedLink(s)] /= None
  <2>1. ASSUME NEW s \in States, Listen(s) PROVE Goal
    <3>1. /\ up' = up \cup {s} /\ dead' = dead /\ target' = target /\ s \notin up \cup dead
          /\ Seed[s] = None \/ target[SeedLink(s)] /= None
      BY <2>1 DEF Listen
    <3> QED BY <3>1 DEF Opening
  <2>2. ASSUME NEW s \in States, Die(s) PROVE Goal
    <3>1. up' = up \ {s} /\ dead' = dead \cup {s} /\ target' = target /\ s \in up
      BY <2>2 DEF Die
    <3> QED BY <3>1 DEF Opening
  <2>3. ASSUME UNCHANGED <<up, dead>> PROVE Goal
    <3>1. up \cup dead \subseteq States
      BY MeshAssumption DEF TypeOK
    <3> QED BY <1>a, <2>3, <3>1 DEF Opening
  <2> HIDE DEF Goal
  <2>4. Goal
    BY <2>1, <2>2, <2>3
       DEF Next, Start, Sync, Follow, ConnectSeed, AcceptLink, OpenFar, OpenNear, CloseNear,
           CloseFar, ReadRegister, SyncSessions, Introduce, Introduced, ReadSession, Connect,
           AddSession, vars
  <2> QED BY <2>4 DEF Goal
<1>2. ASSUME NEW k \in Link PROVE OpeningOf(k)'
  <2> DEFINE Goal == OpeningOf(k)'
  \* A new link m to u.
  <2>a. ASSUME NEW m \in Link, NEW u \in up, target[m] = None,
               target' = [target EXCEPT ![m] = u], near' = [near EXCEPT ![m] = "handshake"],
               UNCHANGED <<far, request, registered>>, listed \subseteq listed'
        PROVE  Goal
    <3>1. CASE k = m
      <4>1. far[k] = "none"
        BY <1>a, <2>a, <3>1 DEF CourseOf
      <4>2. near'[k] = "handshake" /\ target'[k] = u
        BY <2>a, <3>1 DEF TypeOK
      <4> QED BY <1>1, <2>a, <4>1, <4>2 DEF OpeningOf
    <3>2. CASE k /= m
      <4>1. near'[k] = near[k] /\ target'[k] = target[k]
        BY <2>a, <3>2 DEF TypeOK
      <4> QED BY <1>1, <1>a, <2>a, <4>1 DEF OpeningOf
    <3> QED BY <3>1, <3>2
  \* Nothing of k has changed but what it may.
  <2>b. ASSUME target'[k] = target[k],
               near'[k] = near[k] \/ (near[k] /= "none" /\ near'[k] \in {"closed", "failed"}),
               far'[k] = far[k] \/ far'[k] = "closed",
               request'[k] = request[k] \/ far'[k] = "closed",
               registered \subseteq registered',
               <<"far", k>> \in listed => <<"far", k>> \in listed' \/ far'[k] = "closed"
        PROVE  Goal
    BY <1>1, <1>a, <2>b DEF OpeningOf
  <2>1. ASSUME NEW s \in States, ConnectSeed(s) PROVE Goal
    BY <2>1, <2>a DEF ConnectSeed
  <2>2. ASSUME NEW l \in Link, NEW m \in Link, Connect(l, m) PROVE Goal
    BY <2>2, <2>a DEF Connect, Unused
  <2>3. ASSUME NEW s \in States, Die(s) PROVE Goal
    <3>1. /\ target' = target /\ registered' = registered
          /\ near'[k] = IF From(k) = s /\ target[k] /= None THEN "closed" ELSE near[k]
          /\ far'[k] = IF target[k] = s THEN "closed" ELSE far[k]
          /\ request'[k] = IF target[k] = s THEN "none" ELSE request[k]
          /\ listed' = listed \ SessionsOf(s)
      BY <2>3 DEF Die
    <3>2. <<"far", k>> \in SessionsOf(s) => target[k] = s
      BY DEF SessionsOf
    <3>3. target[k] /= None => near[k] /= "none"
      BY <1>a DEF OpeningOf
    <3>4. near'[k] = near[k] \/ (near[k] /= "none" /\ near'[k] = "closed")
      BY <3>1, <3>3
    <3>5. /\ far'[k] = far[k] \/ far'[k] = "closed"
          /\ request'[k] = request[k] \/ far'[k] = "closed"
      BY <3>1
    <3>6. <<"far", k>> \in listed => <<"far", k>> \in listed' \/ far'[k] = "closed"
      BY <3>1, <3>2
    <3> HIDE DEF Goal
    <3> QED BY <2>b, <3>1, <3>4, <3>5, <3>6
  <2>4. ASSUME NEW l \in Link, AcceptLink(l) PROVE Goal
    <3>1. /\ far'[k] = far[k] \/ k = l
          /\ listed' = listed \cup {<<"far", l>>}
          /\ UNCHANGED <<target, near, request, registered>>
          /\ k = l => far[k] = "none"
      BY <2>4 DEF AcceptLink, TypeOK
    <3> QED BY <1>1, <1>a, <3>1 DEF OpeningOf
  <2>5. ASSUME NEW l \in Link, OpenFar(l) PROVE Goal
    <3>1. /\ far'[k] = far[k] \/ (far[k] = "handshake" /\ far'[k] = "open")
          /\ UNCHANGED <<target, near, request, registered, listed>>
      BY <2>5 DEF OpenFar, TypeOK
    <3> QED BY <1>1, <1>a, <3>1 DEF OpeningOf
  <2>6. ASSUME NEW l \in Link, OpenNear(l) PROVE Goal
    <3>1. /\ k = l => near[k] = "handshake" /\ near'[k] = "open" /\ request'[k] /= "none"
          /\ k /= l => near'[k] = near[k] /\ request'[k] = request[k]
          /\ UNCHANGED <<target, far, registered, listed>>
      BY <2>6 DEF OpenNear, TypeOK
    <3> QED BY <1>1, <1>a, <3>1 DEF OpeningOf
  <2>7. ASSUME NEW l \in Link, CloseNear(l) PROVE Goal
    <3>1. /\ near'[k] = near[k] \/ (near[k] /= "none" /\ near'[k] \in {"closed", "failed"})
          /\ UNCHANGED <<target, far, request, registered>>
      BY <2>7 DEF CloseNear, TypeOK
    <3>2. <<"far", k>> \in listed => <<"far", k>> \in listed'
      BY <2>7 DEF CloseNear
    <3> HIDE DEF Goal
    <3> QED BY <2>b, <3>1, <3>2
  <2>8. ASSUME NEW l \in Link, CloseFar(l) PROVE Goal
    <3>1. /\ k = l => far'[k] = "closed"
          /\ k /= l => far'[k] = far[k]
          /\ UNCHANGED <<target, near, request, registered>>
      BY <2>8 DEF CloseFar, TypeOK
    <3>2. <<"far", k>> \in listed => <<"far", k>> \in listed' \/ k = l
      BY <2>8 DEF CloseFar
    <3> HIDE DEF Goal
    <3> QED BY <2>b, <3>1, <3>2
  <2>9. ASSUME NEW l \in Link, ReadRegister(l) PROVE Goal
    <3>1. /\ registered' = registered \cup {l}
          /\ k /= l => request'[k] = request[k]
          /\ UNCHANGED <<target, near, far, listed>>
      BY <2>9 DEF ReadRegister, TypeOK
    <3> QED BY <1>1, <1>a, <3>1 DEF OpeningOf
  <2>10. ASSUME UNCHANGED <<target, near, far, request, registered>>, listed \subseteq listed' PROVE Goal
    BY <2>10, <2>b
  <2>11. ASSUME NEW l \in Link, Sync(l) \/ ReadSession(l) \/ AddSession(l) PROVE Goal
    <3>1. UNCHANGED <<target, near, far, request, registered>>
      BY <2>11 DEF Sync, SyncSessions, Introduce, Introduced, ReadSession, AddSession
    <3>2. listed \subseteq listed'
      BY <2>11 DEF Sync, SyncSessions, Introduce, Introduced, ReadSession, AddSession
    <3> QED BY <2>10, <3>1, <3>2
  <2>12. ASSUME (\E s \in States : Listen(s)) \/ UNCHANGED vars PROVE Goal
    <3>1. UNCHANGED <<target, near, far, request, registered, listed>>
      BY <2>12 DEF Listen, vars
    <3> QED BY <2>10, <3>1
  <2> HIDE DEF Goal
  <2>13. Goal
    BY <2>1, <2>2, <2>3, <2>4, <2>5, <2>6, <2>7, <2>8, <2>9, <2>11, <2>12
       DEF Next, Start, Follow
  <2> QED BY <2>13 DEF Goal
<1> QED BY <1>1, <1>2 DEF Opening

LEMMA PursuedStep ==
    TypeOK /\ Course /\ Presence /\ Opening /\ Pursued /\ [Next]_vars => Pursued'
<1> SUFFICES ASSUME TypeOK, Course, Presence, Opening, Pursued, [Next]_vars, dead' = {},
                    NEW l \in Link, NEW m \in Link, <<l, m>> \in told'
             PROVE  Heard(l, From(m))' \/ InHand(l, From(m))' \/ Joined(From(l), From(m))'
  BY DEF Pursued
<1> DEFINE x == From(m)
           Goal == Heard(l, x)' \/ InHand(l, x)' \/ Joined(From(l), x)'
<1> USE LinkShape
<1>0. /\ dead = {} /\ DOMAIN intros = Link /\ DOMAIN handler = Link
      /\ intros[l] \in Seq(States) /\ x \in States /\ None \notin States
      /\ target \in [Link -> States \cup {None}]
  BY DeadStay, MeshAssumption DEF TypeOK
<1>a. <<l, m>> \in told => Heard(l, x) \/ InHand(l, x) \/ Joined(From(l), x)
  BY <1>0 DEF Pursued
<1>b. Joined(From(l), x) => Joined(From(l), x)'
  BY <1>0, TargetStays DEF Joined
\* Nothing has changed at the near end of l.
<1>c. ASSUME told' = told, intros'[l] = intros[l], handler'[l] = handler[l] PROVE Goal
  <2>1. Heard(l, x) => Heard(l, x)'
    BY <1>c DEF Heard
  <2>2. InHand(l, x) => InHand(l, x)'
    BY <1>c DEF InHand
  <2> QED BY <1>a, <1>b, <1>c, <2>1, <2>2
\* Nobody is known by another one's address.
<1>d. \A s \in up : Address(s) = s
  BY <1>0, OwnAddress
<1>1. ASSUME NEW k \in Link, NEW e \in left[k], Introduce(k, e) PROVE Goal
  <2>1. CASE ~Reported(k, e)
    BY <1>1, <1>c, <2>1 DEF Introduce
  <2>2. CASE Reported(k, e)
    <3>1. /\ intros' = [intros EXCEPT ![k] = Append(@, Address(From(e[2])))]
          /\ told' = told \cup {<<k, e[2]>>} /\ handler' = handler
          /\ e[2] \in registered
      BY <1>1, <2>2 DEF Introduce, Reported
    <3>2. e[2] \in Link /\ From(e[2]) \in up
      BY <1>0, <3>1 DEF Presence, TypeOK
    <3>3. Address(From(e[2])) = From(e[2]) /\ From(e[2]) \in States
      BY <1>d, <3>2
    <3>4. CASE k /= l
      BY <1>0, <1>a, <1>b, <1>c, <3>1, <3>4 DEF Heard, InHand
    <3>5. CASE k = l
      <4>1. intros'[l] = Append(intros[l], From(e[2]))
        BY <1>0, <3>1, <3>3, <3>5
      <4>2. /\ Len(intros'[l]) = Len(intros[l]) + 1 /\ Len(intros[l]) \in Nat
            /\ intros'[l][Len(intros[l]) + 1] = From(e[2])
            /\ \A i \in 1..Len(intros[l]) : intros'[l][i] = intros[l][i]
        BY <1>0, <3>3, <4>1, QueueFacts
      <4>3. CASE m = e[2]
        <5>1. Len(intros[l]) + 1 \in 1..Len(intros'[l])
          BY <4>2
        <5> QED BY <4>2, <4>3, <5>1 DEF Heard
      <4>4. CASE m /= e[2]
        <5>1. <<l, m>> \in told
          BY <3>1, <4>4
        <5>2. Heard(l, x) => Heard(l, x)'
          <6>1. 1..Len(intros[l]) \subseteq 1..Len(intros'[l])
            BY <4>2
          <6> QED BY <4>2, <6>1 DEF Heard
        <5>3. InHand(l, x) => InHand(l, x)'
          BY <3>1 DEF InHand
        <5> QED BY <1>a, <1>b, <5>1, <5>2, <5>3
      <4> QED BY <4>3, <4>4
    <3> QED BY <3>4, <3>5
  <2> QED BY <2>1, <2>2
<1>2. ASSUME NEW k \in Link, ReadSession(k) PROVE Goal
  <2>1. CASE k /= l
    BY <1>0, <1>2, <1>c, <2>1 DEF ReadSession, syncVars
  <2>2. CASE k = l
    <3> DEFINE u == Head(intros[l])
    <3>1. /\ handler[l] = Idle /\ intros[l] /= <<>> /\ told' = told /\ target' = target
          /\ intros'[l] = Tail(intros[l])
          /\ handler'[l] = IF \E e \in SessionsOf(From(l)) : LeadsTo(e, u)
                           THEN Idle ELSE [step |-> "connect", to |-> u]
      BY <1>0, <1>2, <2>2 DEF ReadSession, syncVars
    <3>2. /\ u = intros[l][1] /\ Len(intros[l]) \in Nat \ {0}
          /\ Len(intros'[l]) = Len(intros[l]) - 1
          /\ \A i \in 1..Len(intros'[l]) : intros'[l][i] = intros[l][i + 1]
      BY <1>0, <3>1, QueueFacts
    <3>3. ~InHand(l, x)
      BY <3>1 DEF InHand, Idle
    <3>4. ASSUME Heard(l, x), x /= u PROVE Heard(l, x)'
      <4>1. PICK i \in 1..Len(intros[l]) : intros[l][i] = x
        BY <3>4 DEF Heard
      <4>2. i /= 1
        BY <3>2, <3>4, <4>1
      <4>3. i - 1 \in 1..Len(intros'[l]) /\ (i - 1) + 1 = i
        BY <3>2, <4>2
      <4>4. intros'[l][i - 1] = x
        BY <3>2, <4>1, <4>3
      <4> QED BY <4>3, <4>4 DEF Heard
    <3>5. ASSUME x = u PROVE InHand(l, x)' \/ Joined(From(l), x)'
      <4>1. CASE ~ \E e \in SessionsOf(From(l)) : LeadsTo(e, u)
        BY <3>1, <3>5, <4>1 DEF InHand
      <4>2. ASSUME NEW e \in SessionsOf(From(l)), LeadsTo(e, u) PROVE Joined(From(l), x)
        <5>1. e \in End /\ e[2] \in Link /\ CourseOf(e[2]) /\ OpeningOf(e[2])
          BY SessionsType DEF TypeOK, Course, Opening
        <5>2. CASE e[1] = "near"
          <6>1. From(e[2]) = From(l)
            BY <4>2, <5>2 DEF SessionsOf
          <6>2. near[e[2]] \in {"open", "closed"} /\ Address(target[e[2]]) = u
            BY <4>2, <5>2 DEF LeadsTo
          <6>3. target[e[2]] /= None
            BY <5>1, <6>2 DEF CourseOf
          <6>4. target[e[2]] \in up
            BY <1>0, <5>1, <6>3 DEF OpeningOf
          <6> QED BY <1>d, <3>5, <5>1, <6>1, <6>2, <6>4 DEF Joined
        <5>3. CASE e[1] = "far"
          <6>1. target[e[2]] = From(l)
            BY <4>2, <5>3, SessionsType
          <6>2. e[2] \in registered /\ Address(From(e[2])) = u
            BY <4>2, <5>3 DEF LeadsTo
          <6>3. From(e[2]) \in up
            BY <1>0, <5>1, <6>2 DEF Presence
          <6> QED BY <1>d, <3>5, <5>1, <6>1, <6>2, <6>3 DEF Joined
        <5> QED BY <5>1, <5>2, <5>3
      <4> QED BY <1>b, <4>1, <4>2
    <3> HIDE DEF u, x
    <3> QED BY <1>a, <1>b, <3>1, <3>3, <3>4, <3>5
  <2> QED BY <2>1, <2>2
<1>3. ASSUME NEW k \in Link, NEW n \in Link, Connect(k, n) PROVE Goal
  <2>1. CASE k /= l
    BY <1>0, <1>3, <1>c, <2>1 DEF Connect, syncVars
  <2>2. CASE k = l
    <3>1. PICK u \in up : Address(u) = handler[l].to /\ target' = [target EXCEPT ![n] = u]
      BY <1>3, <2>2 DEF Connect
    <3>2. From(n) = From(l) /\ UNCHANGED <<intros, told>>
      BY <1>3, <2>2 DEF Connect, syncVars
    <3>3. target'[n] = u /\ u = handler[l].to
      BY <1>0, <1>d, <3>1
    <3>4. InHand(l, x) => Joined(From(l), x)'
      BY <3>2, <3>3 DEF InHand, Joined
    <3>5. Heard(l, x) => Heard(l, x)'
      BY <3>2 DEF Heard
    <3> QED BY <1>a, <1>b, <3>2, <3>4, <3>5
  <2> QED BY <2>1, <2>2
<1>4. ASSUME NEW k \in Link, AddSession(k) PROVE Goal
  <2>1. CASE k /= l
    BY <1>0, <1>4, <1>c, <2>1 DEF AddSession, syncVars
  <2>2. CASE k = l
    <3>1. ~InHand(l, x) /\ UNCHANGED <<intros, told>>
      BY <1>4, <2>2 DEF AddSession, InHand, syncVars
    <3>2. Heard(l, x) => Heard(l, x)'
      BY <3>1 DEF Heard
    <3> QED BY <1>a, <1>b, <3>1, <3>2
  <2> QED BY <2>1, <2>2
<1>5. ASSUME \E s \in States : Die(s) PROVE Goal
  <2>1. dead' /= {}
    BY <1>5 DEF Die
  <2> QED BY <2>1
<1>6. ASSUME UNCHANGED <<told, intros, handler>> PROVE Goal
  BY <1>6, <1>c
<1> HIDE DEF Goal
<1>7. Goal
  BY <1>1, <1>2, <1>3, <1>4, <1>5, <1>6
     DEF Next, Start, Sync, Follow, ConnectSeed, Listen, AcceptLink, OpenFar, OpenNear, CloseNear,
         CloseFar, ReadRegister, SyncSessions, Introduced, vars, syncVars
<1> QED BY <1>7 DEF Goal

(* At rest - everybody has started, no link has failed, nothing is under    *)
(* way - nodes are linked with their seed and with each other, although     *)
(* only one of two nodes may have been introduced to the other, may have    *)
(* found a link the other one had opened in between, or may have opened its *)
(* own at the same time: register_handler marks a session before sync       *)
(* copies the table, and session_handler follows whatever it reads.         *)
THEOREM NodesLinkedAtRest == Spec => []LinkedAtRest
<1>1. Init => TypeOK /\ Course /\ Presence /\ Opening /\ Pursued
  <2> SUFFICES ASSUME Init PROVE TypeOK /\ Course /\ Presence /\ Opening /\ Pursued
    OBVIOUS
  <2>1. TypeOK /\ Course /\ Presence
    BY CourseInit, MeshAssumption DEF Init, TypeOK, Presence, Idle
  <2>2. Opening
    BY DEF Init, Opening, OpeningOf
  <2>3. Pursued
    BY DEF Init, Pursued
  <2> QED BY <2>1, <2>2, <2>3
<1>2. TypeOK /\ Course /\ Presence /\ Opening /\ Pursued /\ [Next]_vars
      => (TypeOK /\ Course /\ Presence /\ Opening /\ Pursued)'
  BY TypeStep, CourseStep, PresenceStep, OpeningStep, PursuedStep
<1>3. TypeOK /\ Opening /\ Pursued /\ NoMissedIntroduction /\ Apart => LinkedAtRest
  <2> SUFFICES ASSUME TypeOK, Opening, Pursued, NoMissedIntroduction, Apart, Settled,
                      NEW s \in States, Seed[s] /= None
               PROVE  /\ Linked(s, Seed[s])
                      /\ \A u \in States \ {s} : Seed[u] = Seed[s] => Linked(s, u)
    BY DEF LinkedAtRest
  <2> USE LinkShape
  <2>1. up = States /\ dead = {}
    <3>1. dead \subseteq States
      BY MeshAssumption DEF TypeOK
    <3> QED BY <3>1 DEF Settled, Opening
  \* Every link that was opened is marked, and in the table at its far end.
  <2>2. ASSUME NEW l \in Link, target[l] /= None
        PROVE  l \in registered /\ <<"far", l>> \in listed /\ Served(l)
    <3>1. near[l] = "open" /\ far[l] = "open" /\ request[l] = "none" /\ loop[l] = "idle"
      BY <2>2 DEF Opening, OpeningOf, Settled
    <3> QED BY <3>1 DEF Opening, OpeningOf, Served
  \* The first link of a node leads to its seed.
  <2>3. ASSUME NEW x \in States, Seed[x] /= None
        PROVE  SeedLink(x) \in Link /\ target[SeedLink(x)] = Seed[x]
    <3>1. SeedLink(x) \in Link /\ IsSeedLink(SeedLink(x)) /\ target[SeedLink(x)] /= None
      BY <2>1, <2>3 DEF Opening, IsSeedLink
    <3> QED BY <2>1, <3>1 DEF Apart, ApartOf
  <2>4. Linked(s, Seed[s])
    BY <2>2, <2>3 DEF Linked
  <2>5. ASSUME NEW x \in States, NEW y \in States, <<SeedLink(x), SeedLink(y)>> \in told
        PROVE  Linked(x, y)
    <3>1. intros[SeedLink(x)] = <<>> /\ handler[SeedLink(x)] = Idle
      BY DEF Settled
    <3>2. ~Heard(SeedLink(x), y) /\ ~InHand(SeedLink(x), y)
      BY <3>1 DEF Heard, InHand, Idle
    <3>3. Joined(x, y)
      BY <2>1, <2>5, <3>2 DEF Pursued
    <3>4. PICK k \in Link : (From(k) = x /\ target[k] = y) \/ (From(k) = y /\ target[k] = x)
      BY <3>3 DEF Joined
    <3>5. target[k] /= None
      BY <3>4, MeshAssumption
    <3>6. k \in registered /\ {From(k), target[k]} = {x, y}
      BY <2>2, <3>4, <3>5
    <3> QED BY <3>6 DEF Linked
  <2>6. ASSUME NEW u \in States \ {s}, Seed[u] = Seed[s] PROVE Linked(s, u)
    <3>1. \/ <<SeedLink(s), SeedLink(u)>> \in told \/ <<SeedLink(u), SeedLink(s)>> \in told
      BY <2>2, <2>3, <2>6 DEF NoMissedIntroduction
    <3>2. Linked(u, s) => Linked(s, u)
      BY DEF Linked
    <3> QED BY <2>5, <3>1, <3>2
  <2> QED BY <2>4, <2>6
<1> QED BY <1>1, <1>2, <1>3, NobodyMissed, ApartHolds, PTL DEF Spec
=============================================================================
