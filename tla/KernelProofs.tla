---------------------------- MODULE KernelProofs -----------------------------
(***************************************************************************)
(* Theorems about Kernel, for any number of requests, of any kinds of      *)
(* values, however many of them are on their way at a time.                *)
(***************************************************************************)
EXTENDS Kernel, FiniteSetTheorems, SequenceTheorems, TLAPS

-----------------------------------------------------------------------------
(* Validators and handlers.                                                *)

Contexts == {"on_session", "on_client"}

\* What a set of tests and a set of getters ask of the params of m.
Passes(m, S) == \A t \in S : m.params[t[1]] \in Accepted(t[2])
Yields(m, S) == \A g \in S : m.params[g[1]] \in Readable(g[2])

LEMMA Unions ==
    ASSUME NEW m, NEW S, NEW T
    PROVE  /\ Passes(m, S \cup T) <=> Passes(m, S) /\ Passes(m, T)
           /\ Yields(m, S \cup T) <=> Yields(m, S) /\ Yields(m, T)
BY DEF Passes, Yields

\* What the validators accept and the getters read.
LEMMA Accepts ==
    /\ Accepted("string") = Readable("get_param_as_string")
    /\ Accepted("uuid") = Readable("get_param_as_id")
    /\ Accepted("object") = Readable("get_param_as_object")
    /\ Accepted("bool") = Readable("get_param_as_bool")
    /\ Accepted("number") = Readable("get_param_as_number") \cup {"fraction"}
BY DEF Accepted, Readable

LEMMA ValidPasses ==
    \A m, cx : /\ Valid(m, cx) <=> Passes(m, Tests(m.action, cx))
               /\ Usable(m, cx) <=> Yields(m, Gets(m.action, cx))
BY DEF Valid, Passes, Usable, Yields

\* The sender is asked for where he is read.
LEMMA SenderAgrees ==
    \A m, cx, f : Passes(m, Sender(cx, f)) <=> Yields(m, FromSession(cx, f))
<1> SUFFICES ASSUME NEW m, NEW cx, NEW f
             PROVE  Passes(m, Sender(cx, f)) <=> Yields(m, FromSession(cx, f))
  OBVIOUS
<1>1. CASE cx = "on_session"
  <2>1. Sender(cx, f) = {<<f, "uuid">>} /\ FromSession(cx, f) = {<<f, "get_param_as_id">>}
    BY <1>1 DEF Sender, FromSession, Id
  <2> QED BY <2>1, Accepts DEF Passes, Yields
<1>2. CASE cx /= "on_session"
  <2>1. Sender(cx, f) = {} /\ FromSession(cx, f) = {}
    BY <1>2 DEF Sender, FromSession
  <2> QED BY <2>1 DEF Passes, Yields
<1> QED BY <1>1, <1>2

\* All handlers but those that read numbers get just what has been tested.
LEMMA Agree ==
    ASSUME NEW m, m.action \in Actions \ {"register", "session"}, NEW cx \in Contexts
    PROVE  Valid(m, cx) <=> Usable(m, cx)
<1> DEFINE a == m.action
<1>1. CASE a = "send"
  <2>1. Passes(m, send_validator(cx)) <=> Yields(m, send_handler(cx))
    <3>1. Passes(m, {<<"payload", "object">>, <<"to_client_id", "uuid">>}) <=> Yields(m, {Id("to_client_id"), Object("payload")})
      BY Accepts DEF Passes, Yields, String, Id, Object
    <3>2. Passes(m, Sender(cx, "from_client_id")) <=> Yields(m, FromSession(cx, "from_client_id"))
      BY SenderAgrees
    <3> QED BY <3>1, <3>2, Unions DEF send_validator, send_handler
  <2> QED BY <1>1, <2>1, ValidPasses DEF Tests, Gets
<1>2. CASE a = "broadcast"
  <2>1. Passes(m, broadcast_validator(cx)) <=> Yields(m, broadcast_handler(cx))
    <3>1. Passes(m, {<<"payload", "object">>}) <=> Yields(m, {Object("payload")})
      BY Accepts DEF Passes, Yields, String, Id, Object
    <3>2. Passes(m, Sender(cx, "client_id")) <=> Yields(m, FromSession(cx, "client_id"))
      BY SenderAgrees
    <3> QED BY <3>1, <3>2, Unions DEF broadcast_validator, broadcast_handler
  <2> QED BY <1>2, <2>1, ValidPasses DEF Tests, Gets
<1>3. CASE a = "publish"
  <2>1. Passes(m, publish_validator(cx)) <=> Yields(m, publish_handler(cx))
    <3>1. Passes(m, {<<"channel", "string">>, <<"payload", "object">>}) <=> Yields(m, {String("channel"), Object("payload")})
      BY Accepts DEF Passes, Yields, String, Id, Object
    <3>2. Passes(m, Sender(cx, "client_id")) <=> Yields(m, FromSession(cx, "client_id"))
      BY SenderAgrees
    <3> QED BY <3>1, <3>2, Unions DEF publish_validator, publish_handler
  <2> QED BY <1>3, <2>1, ValidPasses DEF Tests, Gets
<1>4. CASE a \in {"subscribe", "unsubscribe"}
  <2>1. Passes(m, subscriptions_validator(cx)) <=> Yields(m, subscribe_handler(cx))
    <3>1. Passes(m, {<<"channel", "string">>}) <=> Yields(m, {String("channel")})
      BY Accepts DEF Passes, Yields, String, Id, Object
    <3>2. Passes(m, Sender(cx, "client_id")) <=> Yields(m, FromSession(cx, "client_id"))
      BY SenderAgrees
    <3> QED BY <3>1, <3>2, Unions DEF subscriptions_validator, subscribe_handler
  <2>2. Tests(a, cx) = subscriptions_validator(cx) /\ Gets(a, cx) = subscribe_handler(cx)
    BY <1>4 DEF Tests, Gets
  <2> QED BY <2>1, <2>2, ValidPasses
<1>5. CASE a = "is_subscribed"
  <2>1. Passes(m, is_subscribed_validator) <=> Yields(m, {String("channel")})
    BY Accepts DEF is_subscribed_validator, String, Passes, Yields
  <2> QED BY <1>5, <2>1, ValidPasses DEF Tests, Gets
<1>6. CASE a \in {"join", "leave"}
  <2>1. Tests(a, cx) = Sender(cx, "client_id") /\ Gets(a, cx) = FromSession(cx, "client_id")
    BY <1>6 DEF Tests, Gets
  <2> QED BY <2>1, ValidPasses, SenderAgrees
<1>7. CASE a \in {"ping", "ack"}
  <2>1. Tests(a, cx) = {} /\ Gets(a, cx) = {}
    BY <1>7 DEF Tests, Gets
  <2> QED BY <2>1, ValidPasses DEF Passes, Yields
<1> QED BY <1>1, <1>2, <1>3, <1>4, <1>5, <1>6, <1>7 DEF Actions

\* register and session read numbers, from states only.
LEMMA PortsAgree ==
    ASSUME NEW m
    PROVE  /\ Yields(m, Ports("get_param_as_number")) => Passes(m, Ports("number"))
           /\ /\ Passes(m, Ports("number"))
              /\ \A f \in Fields : m.params[f] /= "fraction"
              => Yields(m, Ports("get_param_as_number"))
BY Accepts DEF Passes, Yields, Ports, Fields

LEMMA NumbersAgree ==
    ASSUME NEW m, m.action \in {"register", "session"}, NEW cx \in Contexts
    PROVE  /\ Usable(m, cx) => Valid(m, cx)
           /\ /\ Valid(m, cx)
              /\ cx = "on_client" \/ \A f \in Fields : m.params[f] /= "fraction"
              => Usable(m, cx)
<1>1. CASE cx = "on_client"
  <2>1. Tests(m.action, cx) = {} /\ Gets(m.action, cx) = {}
    BY <1>1 DEF Tests, Gets, register_handler, session_handler
  <2> QED BY <2>1, ValidPasses DEF Passes, Yields
<1>2. CASE cx = "on_session" /\ m.action = "register"
  <2>1. /\ Tests(m.action, cx) = Ports("number") \cup {<<"registered", "bool">>}
        /\ Gets(m.action, cx) =
              Ports("get_param_as_number") \cup {<<"registered", "get_param_as_bool">>}
    BY <1>2 DEF Tests, Gets, register_validator, register_handler
  <2>2. Passes(m, {<<"registered", "bool">>}) <=> Yields(m, {<<"registered", "get_param_as_bool">>})
    BY Accepts DEF Passes, Yields
  <2>3. Valid(m, cx) <=> Passes(m, Ports("number")) /\ Passes(m, {<<"registered", "bool">>})
    BY <2>1, ValidPasses, Unions
  <2>4. Usable(m, cx) <=> /\ Yields(m, Ports("get_param_as_number"))
                          /\ Yields(m, {<<"registered", "get_param_as_bool">>})
    <3>1. Usable(m, cx) <=> Yields(m, Gets(m.action, cx))
      BY ValidPasses
    <3>2. Usable(m, cx) <=>
              Yields(m, Ports("get_param_as_number") \cup {<<"registered", "get_param_as_bool">>})
      BY <2>1, <3>1
    <3> QED BY <3>2, Unions
  <2> QED BY <1>2, <2>2, <2>3, <2>4, PortsAgree
<1>3. CASE cx = "on_session" /\ m.action = "session"
  <2>1. /\ Tests(m.action, cx) = Ports("number") \cup {<<"host", "string">>}
        /\ Gets(m.action, cx) =
              Ports("get_param_as_number") \cup {<<"host", "get_param_as_string">>}
    BY <1>3 DEF Tests, Gets, session_validator, session_handler, String
  <2>2. Passes(m, {<<"host", "string">>}) <=> Yields(m, {<<"host", "get_param_as_string">>})
    BY Accepts DEF Passes, Yields
  <2>3. Valid(m, cx) <=> Passes(m, Ports("number")) /\ Passes(m, {<<"host", "string">>})
    BY <2>1, ValidPasses, Unions
  <2>4. Usable(m, cx) <=> /\ Yields(m, Ports("get_param_as_number"))
                          /\ Yields(m, {<<"host", "get_param_as_string">>})
    <3>1. Usable(m, cx) <=> Yields(m, Gets(m.action, cx))
      BY ValidPasses
    <3>2. Usable(m, cx) <=>
              Yields(m, Ports("get_param_as_number") \cup {<<"host", "get_param_as_string">>})
      BY <2>1, <3>1
    <3> QED BY <3>2, Unions
  <2> QED BY <1>3, <2>2, <2>3, <2>4, PortsAgree
<1> QED BY <1>1, <1>2, <1>3 DEF Contexts
-----------------------------------------------------------------------------
(* How many messages of a kind are in a queue.                             *)

N(q, M) == Cardinality({i \in 1..Len(q) : q[i] \in M})
One(m, M) == IF m \in M THEN 1 ELSE 0

LEMMA NType ==
    ASSUME NEW S, NEW q \in Seq(S), NEW M
    PROVE  /\ IsFiniteSet({i \in 1..Len(q) : q[i] \in M})
           /\ N(q, M) \in Nat
           /\ N(<<>>, M) = 0
<1> DEFINE P == {i \in 1..Len(q) : q[i] \in M}
<1>1. IsFiniteSet(1..Len(q))
  BY FS_Interval
<1>2. IsFiniteSet(P)
  BY <1>1, FS_Subset, P \in SUBSET (1..Len(q))
<1>3. Cardinality(P) \in Nat
  BY <1>2, FS_CardinalityType
<1>4. {i \in 1..Len(<<>>) : <<>>[i] \in M} = {}
  OBVIOUS
<1> QED BY <1>2, <1>3, <1>4, FS_EmptySet DEF N

LEMMA NAppend ==
    ASSUME NEW S, NEW q \in Seq(S), NEW m \in S, NEW M
    PROVE  N(Append(q, m), M) = N(q, M) + One(m, M)
<1> DEFINE n == Len(q)
           r == Append(q, m)
           P == {i \in 1..n : q[i] \in M}
           R == {i \in 1..Len(r) : r[i] \in M}
<1>1. n \in Nat /\ Len(r) = n + 1 /\ r[n + 1] = m /\ \A i \in 1..n : r[i] = q[i]
  OBVIOUS
<1>2. IsFiniteSet(P) /\ Cardinality(P) \in Nat
  BY NType DEF N
<1>3. n + 1 \notin P
  BY <1>1
<1>4. CASE m \in M
  <2>1. R = P \cup {n + 1}
    BY <1>1, <1>4
  <2>2. Cardinality(P \cup {n + 1}) = Cardinality(P) + 1
    BY <1>2, <1>3, FS_AddElement
  <2> QED BY <1>4, <2>1, <2>2 DEF N, One
<1>5. CASE m \notin M
  <2>1. R = P
    BY <1>1, <1>5
  <2>2. N(r, M) = Cardinality(R) /\ N(q, M) = Cardinality(P)
    BY DEF N
  <2> HIDE DEF P, R, r
  <2>3. N(r, M) = N(q, M) + One(m, M)
    BY <1>2, <1>5, <2>1, <2>2 DEF One
  <2> QED BY <2>3 DEF r
<1> QED BY <1>4, <1>5

LEMMA NTail ==
    ASSUME NEW S, NEW q \in Seq(S), q /= <<>>, NEW M
    PROVE  N(q, M) = One(Head(q), M) + N(Tail(q), M)
<1> DEFINE n == Len(q)
           t == Tail(q)
           P == {i \in 1..n : q[i] \in M}
           T == {i \in 1..Len(t) : t[i] \in M}
           f == [i \in T |-> i + 1]
<1>1. n \in Nat /\ n > 0 /\ Len(t) = n - 1 /\ Head(q) = q[1]
  OBVIOUS
<1>2. \A i \in 1..(n - 1) : t[i] = q[i + 1]
  OBVIOUS
<1>3. t \in Seq(S)
  OBVIOUS
<1>4. IsFiniteSet(P) /\ IsFiniteSet(T) /\ Cardinality(T) \in Nat /\ Cardinality(P) \in Nat
  BY <1>3, NType DEF N
<1>5. ExistsBijection(T, P \ {1})
  <2>1. \A i \in T : i \in Nat /\ i \in 1..(n - 1) /\ q[i + 1] \in M
    BY <1>1, <1>2
  <2>2. f \in [T -> P \ {1}]
    BY <1>1, <2>1
  <2>3. \A a, b \in T : f[a] = f[b] => a = b
    BY <2>1
  <2>4. ASSUME NEW j \in P \ {1}
        PROVE  \E i \in T : f[i] = j
    <3>1. j \in 1..n /\ j /= 1 /\ q[j] \in M
      OBVIOUS
    <3>2. j - 1 \in 1..(n - 1) /\ (j - 1) + 1 = j
      BY <1>1, <3>1
    <3>3. t[j - 1] = q[j]
      BY <1>2, <3>2
    <3>4. j - 1 \in T
      BY <1>1, <3>1, <3>2, <3>3
    <3> QED BY <3>2, <3>4
  <2>5. f \in Bijection(T, P \ {1})
    <3> HIDE DEF f, T, P
    <3>1. f \in Injection(T, P \ {1})
      BY <2>2, <2>3 DEF Injection, IsInjective
    <3>2. f \in Surjection(T, P \ {1})
      BY <2>2, <2>4 DEF Surjection
    <3> QED BY <3>1, <3>2 DEF Bijection
  <2> QED BY <2>5 DEF ExistsBijection
<1>6. Cardinality(P \ {1}) = Cardinality(T)
  BY <1>4, <1>5, FS_Bijection
<1>7. Cardinality(P \ {1}) = IF 1 \in P THEN Cardinality(P) - 1 ELSE Cardinality(P)
  BY <1>4, FS_RemoveElement
<1>8. 1 \in P <=> Head(q) \in M
  BY <1>1
<1>9. N(q, M) = Cardinality(P) /\ N(t, M) = Cardinality(T)
  BY DEF N
<1> HIDE DEF P, T
<1> QED BY <1>4, <1>6, <1>7, <1>8, <1>9 DEF One
-----------------------------------------------------------------------------
(* The invariant.                                                          *)

\* Messages as they are made: with params of the kinds that are tried.
Msg == {m \in Message : m.params \in [Fields -> Values]}

\* A request that a handler could not have read, or that there is no handler for.
Refused(m) == m.action \in {Unknown, NoAction} \/ ~Usable(m, context)

\* A request on its way is the one that is remembered under its id.
Asked(m) ==
    /\ m.status = "none"
    /\ m.id /= NoId => m.id \in 1..Len(requests) /\ requests[m.id] = m
    /\ m.action = NoObject => m.id = NoId
    /\ context = "on_session" => m.id /= NoId /\ m.action \notin {NoAction, NoObject}

\* An answer that says failed is one to a request that could not be used.
Refusal(m) ==
    m.status = "failed" /\ m.id /= NoId =>
        m.id \in 1..Len(requests) /\ Refused(requests[m.id])

\* The requests with an id that are to be answered, and the answers to them.
ToAnswer(id) == {m \in Message : m.id = id /\ (id /= NoId => m.action /= "ack")}
AnswerTo(id) == {m \in Message : m.id = id /\ m.status /= "none"}

Typed ==
    /\ context \in Contexts
    /\ wire \in [Side -> Seq(Msg)]
    /\ requests \in Seq(Msg) /\ Len(requests) <= MaxRequests
    /\ answers \in Seq(Msg)
    /\ thrown \in BOOLEAN

\* Every message goes back to a request of its own.
Room == Len(wire["asked"]) + Len(wire["asking"]) + Len(answers) <= Len(requests)

Pending == \A i \in 1..Len(wire["asked"]) : Asked(wire["asked"][i])

Coming ==
    \A i \in 1..Len(wire["asking"]) :
        /\ Refusal(wire["asking"][i])
        /\ context = "on_session" => IsAck(wire["asking"][i])

Come == \A k \in 1..Len(answers) : Refusal(answers[k]) /\ answers[k].status /= "none"

\* What is read and not tested: numbers that are not integers, of a state.
ThrownFor == thrown => context = "on_session" /\ "fraction" \in Values

\* A request is waiting, its answer is on its way, or it is there; unless the
\* process has ended over it.
OnItsWay(id) ==
    N(wire["asked"], ToAnswer(id)) + N(wire["asking"], AnswerTo(id)) + N(answers, AnswerTo(id))

Counting ==
    \A id \in 0..MaxRequests :
        /\ OnItsWay(id) <= N(requests, ToAnswer(id))
        /\ ~thrown => OnItsWay(id) = N(requests, ToAnswer(id))

KernelInv ==
    /\ Typed
    /\ Room
    /\ Pending
    /\ Coming
    /\ Come
    /\ ThrownFor
    /\ Counting
-----------------------------------------------------------------------------
(* What the kernel makes of a message.                                     *)

LEMMA MsgFields ==
    ASSUME NEW m \in Msg
    PROVE  /\ m \in Message
           /\ m.action \in Actions \cup {Unknown, NoAction, NoObject}
           /\ m.id \in 0..MaxRequests
           /\ m.status \in {"none", "success", "failed"}
           /\ m.params \in [Fields -> Values]
BY DEF Msg, Message

\* A handler throws on a number that is not an integer, and on nothing else.
LEMMA ThrowsOnFractions ==
    ASSUME NEW m \in Msg, NEW cx \in Contexts, Throws(m, cx)
    PROVE  /\ cx = "on_session" /\ "fraction" \in Values
           /\ m.action \in {"register", "session"}
<1>1. m.action \in Actions /\ Valid(m, cx) /\ ~Usable(m, cx)
  BY DEF Throws
<1>2. m.action \in {"register", "session"}
  BY <1>1, Agree
<1>3. /\ cx /= "on_client"
      /\ ~(\A f \in Fields : m.params[f] /= "fraction")
  BY <1>1, <1>2, NumbersAgree
<1>4. cx = "on_session"
  BY <1>3 DEF Contexts
<1>5. "fraction" \in Values
  BY <1>3, MsgFields
<1> QED BY <1>2, <1>4, <1>5

\* What is turned down could not have been used.
LEMMA FailedIsRefused ==
    ASSUME NEW m \in Msg, NEW cx \in Contexts, Status(m, cx) = "failed",
           m.id /= NoId, m.action /= NoObject
    PROVE  m.action \in {Unknown, NoAction} \/ ~Usable(m, cx)
<1>1. CASE m.action \in Actions
  <2>1. m.action \notin {NoAction, NoObject}
    BY <1>1 DEF Actions, NoAction, NoObject
  <2>2. ~Valid(m, cx)
    BY <1>1, <2>1 DEF Status, WellFormed
  <2> QED BY <1>1, <2>2, Agree, NumbersAgree
<1>2. CASE m.action \notin Actions
  BY <1>2, MsgFields
<1> QED BY <1>1, <1>2

\* The answer to a request, and that it is counted where the request was.
LEMMA ReplyFacts ==
    ASSUME NEW m \in Msg, NEW cx \in Contexts,
           m.action = NoObject => m.id = NoId
    PROVE  /\ Reply(m, cx) \in Msg
           /\ ~IsAck(m) => /\ Reply(m, cx) = Answer(m, Status(m, cx))
                           /\ Reply(m, cx).id = m.id
                           /\ Reply(m, cx).status = Status(m, cx)
                           /\ Reply(m, cx).status /= "none"
                           /\ Reply(m, cx).action = IF m.action = NoObject THEN NoAction ELSE "ack"
           /\ IsAck(m) => Reply(m, cx).status = "none" /\ Reply(m, cx).id = NoId
<1>1. NoParams \in [Fields -> Values] /\ NoParams \in [Fields -> KnownValues]
  BY KernelAssumption DEF NoParams
<1>2. Status(m, cx) \in {"success", "failed"}
  BY DEF Status
<1>3. "ack" \in Actions /\ NoId \in 0..MaxRequests
  BY KernelAssumption DEF Actions, NoId
<1>4. CASE IsAck(m)
  <2>1. Reply(m, cx) = [action |-> NoAction, id |-> NoId, status |-> "none", params |-> NoParams]
    BY <1>4 DEF Reply
  <2> QED BY <1>1, <1>3, <1>4, <2>1 DEF Msg, Message
<1>5. CASE ~IsAck(m)
  <2>1. Reply(m, cx) = Answer(m, Status(m, cx))
    BY <1>5 DEF Reply
  <2>2. Answer(m, Status(m, cx)) \in Msg
    BY <1>1, <1>2, <1>3, MsgFields DEF Answer, Msg, Message
  <2> QED BY <1>2, <1>5, <2>1, <2>2 DEF Answer
<1> QED BY <1>4, <1>5

LEMMA AnswersCount ==
    ASSUME NEW m \in Msg, NEW cx \in Contexts, NEW id \in 0..MaxRequests,
           m.action = NoObject => m.id = NoId
    PROVE  /\ One(Reply(m, cx), AnswerTo(id)) = One(m, ToAnswer(id))
           /\ IsAck(m) => One(m, ToAnswer(id)) = 0
           /\ One(m, ToAnswer(id)) \in {0, 1}
<1>1. /\ Reply(m, cx) \in Message
      /\ ~IsAck(m) => Reply(m, cx).id = m.id /\ Reply(m, cx).status /= "none"
      /\ IsAck(m) => Reply(m, cx).status = "none"
  BY ReplyFacts, MsgFields
<1>2. IsAck(m) <=> m.action = "ack" /\ m.id /= NoId
  BY DEF IsAck, WellFormed, NoAction, NoObject
<1>3. m \in ToAnswer(id) <=> m.id = id /\ (id /= NoId => m.action /= "ack")
  BY MsgFields DEF ToAnswer
<1>4. Reply(m, cx) \in AnswerTo(id) <=> Reply(m, cx).id = id /\ Reply(m, cx).status /= "none"
  BY <1>1 DEF AnswerTo
<1>5. Reply(m, cx) \in AnswerTo(id) <=> m \in ToAnswer(id)
  BY <1>1, <1>2, <1>3, <1>4
<1>6. IsAck(m) => m \notin ToAnswer(id)
  BY <1>2, <1>3
<1> QED BY <1>5, <1>6 DEF One
-----------------------------------------------------------------------------
(* Each step keeps the invariant.                                          *)

LEMMA InitInv ==
    ASSUME Init
    PROVE  KernelInv
<1>1. wire = [side \in Side |-> <<>>] /\ requests = <<>> /\ answers = <<>> /\ thrown = FALSE
  BY DEF Init
<1>2. wire["asked"] = <<>> /\ wire["asking"] = <<>>
  BY <1>1 DEF Side
<1>3. Typed
  <2>1. <<>> \in Seq(Msg) /\ Len(<<>>) = 0
    OBVIOUS
  <2>2. wire \in [Side -> Seq(Msg)]
    BY <1>1, <2>1
  <2>3. context \in Contexts
    BY DEF Init, Contexts
  <2>4. Len(requests) <= MaxRequests
    BY <1>1, <2>1, KernelAssumption
  <2> QED BY <1>1, <2>1, <2>2, <2>3, <2>4 DEF Typed
<1>4. Room /\ Pending /\ Coming /\ Come /\ ThrownFor
  <2>1. Len(<<>>) = 0 /\ 1..0 = {}
    OBVIOUS
  <2>2. Room
    <3>1. Len(wire["asked"]) = 0 /\ Len(wire["asking"]) = 0 /\ Len(answers) = 0 /\ Len(requests) = 0
      BY <1>1, <1>2, <2>1
    <3> QED BY <3>1 DEF Room
  <2>3. Pending /\ Coming /\ Come /\ ThrownFor
    BY <1>1, <1>2, <2>1 DEF Pending, Coming, Come, ThrownFor
  <2> QED BY <2>2, <2>3
<1>5. Counting
  <2> SUFFICES ASSUME NEW id \in 0..MaxRequests
               PROVE  OnItsWay(id) = N(requests, ToAnswer(id)) /\ OnItsWay(id) \in Nat
    BY DEF Counting
  <2>1. <<>> \in Seq(Msg)
    OBVIOUS
  <2>2. \A M : N(<<>>, M) = 0
    BY <2>1, NType
  <2> QED BY <1>1, <1>2, <2>2 DEF OnItsWay
<1> QED BY <1>3, <1>4, <1>5 DEF KernelInv

\* What has been said of a message holds while requests are only added.
LEMMA Lasting ==
    ASSUME NEW m, context' = context,
           requests \in Seq(Msg), requests' \in Seq(Msg),
           Len(requests) <= Len(requests'),
           \A i \in 1..Len(requests) : requests'[i] = requests[i]
    PROVE  /\ Asked(m) => Asked(m)'
           /\ Refusal(m) => Refusal(m)'
<1>1. Len(requests) \in Nat /\ Len(requests') \in Nat
  OBVIOUS
<1>2. \A r : Refused(r)' <=> Refused(r)
  BY DEF Refused
<1>3. m.id \in 1..Len(requests) => m.id \in 1..Len(requests') /\ requests'[m.id] = requests[m.id]
  BY <1>1
<1> QED BY <1>2, <1>3 DEF Asked, Refusal

LEMMA AskStep ==
    ASSUME KernelInv, NEW action \in Actions \cup {Unknown, NoAction, NoObject}, Ask(action)
    PROVE  KernelInv'
<1>1. PICK p \in ParamsFor(action), id \in {Len(requests) + 1, NoId} :
          LET m == [action |-> action, id |-> id, status |-> "none", params |-> p]
          IN  /\ id = NoId => context = "on_client"
              /\ action = NoObject => id = NoId
              /\ requests' = Append(requests, m)
              /\ wire' = [wire EXCEPT !["asked"] = Append(@, m)]
  BY DEF Ask
<1>2. PICK m : m = [action |-> action, id |-> id, status |-> "none", params |-> p]
  OBVIOUS
<1>3. /\ Len(requests) < MaxRequests
      /\ action \in {NoAction, NoObject} => context = "on_client"
      /\ context' = context /\ answers' = answers /\ thrown' = thrown
  BY DEF Ask
<1>4. requests' = Append(requests, m) /\ wire' = [wire EXCEPT !["asked"] = Append(@, m)]
  BY <1>1, <1>2
<1>5. /\ requests \in Seq(Msg) /\ answers \in Seq(Msg)
      /\ wire["asked"] \in Seq(Msg) /\ wire["asking"] \in Seq(Msg)
      /\ wire \in [Side -> Seq(Msg)]
  BY DEF KernelInv, Typed, Side
<1>6. m \in Msg
  <2>1. p \in [Fields -> Values]
    <3> DEFINE F == {t[1] : t \in Tests(action, "on_session") \cup Gets(action, "on_session")}
    <3>1. PICK r \in [F -> Values] : p = [f \in Fields |-> IF f \in F THEN r[f] ELSE "absent"]
      BY <1>1 DEF ParamsFor
    <3> HIDE DEF F
    <3> QED BY <3>1, KernelAssumption
  <2>2. p \in [Fields -> KnownValues]
    BY <2>1, KernelAssumption
  <2>3. id \in 0..MaxRequests
    BY <1>3, <1>5, KernelAssumption DEF NoId
  <2> QED BY <1>2, <2>1, <2>2, <2>3 DEF Msg, Message
<1>7. /\ wire'["asked"] = Append(wire["asked"], m)
      /\ wire'["asking"] = wire["asking"]
      /\ wire' \in [Side -> Seq(Msg)]
  BY <1>4, <1>5, <1>6 DEF Side
<1>8. /\ requests' \in Seq(Msg)
      /\ Len(requests') = Len(requests) + 1 /\ Len(requests) \in Nat
      /\ requests'[Len(requests) + 1] = m
      /\ \A i \in 1..Len(requests) : requests'[i] = requests[i]
  BY <1>4, <1>5, <1>6
<1>9. Typed'
  BY <1>3, <1>7, <1>8, KernelAssumption DEF KernelInv, Typed
<1>10. Room'
  <2>1. Len(wire'["asked"]) = Len(wire["asked"]) + 1
    BY <1>5, <1>6, <1>7
  <2>2. Len(wire["asked"]) \in Nat /\ Len(wire["asking"]) \in Nat /\ Len(answers) \in Nat
    BY <1>5
  <2>3. Len(wire'["asking"]) = Len(wire["asking"]) /\ Len(answers') = Len(answers)
    BY <1>3, <1>7
  <2>4. Len(wire["asked"]) + Len(wire["asking"]) + Len(answers) <= Len(requests)
    BY DEF KernelInv, Room
  <2>5. Len(requests') = Len(requests) + 1 /\ Len(requests) \in Nat
    BY <1>8
  <2>6. Len(wire'["asked"]) + Len(wire'["asking"]) + Len(answers') <= Len(requests')
    <3>1. PICK a \in Nat, b \in Nat, c \in Nat, n \in Nat :
              /\ a = Len(wire["asked"]) /\ b = Len(wire["asking"])
              /\ c = Len(answers) /\ n = Len(requests)
      BY <2>2, <2>5
    <3>2. a + b + c <= n
      BY <2>4, <3>1
    <3>3. a + 1 + b + c <= n + 1
      BY <3>2
    <3>4. /\ Len(wire'["asked"]) = a + 1 /\ Len(wire'["asking"]) = b
          /\ Len(answers') = c /\ Len(requests') = n + 1
      BY <2>1, <2>3, <2>5, <3>1
    <3> QED BY <3>3, <3>4
  <2> QED BY <2>6 DEF KernelInv, Room
<1>11. \A r : (Asked(r) => Asked(r)') /\ (Refusal(r) => Refusal(r)')
  <2>1. requests' \in Seq(Msg) /\ Len(requests) <= Len(requests')
    BY <1>8
  <2> QED BY <1>3, <1>5, <1>8, <2>1, Lasting
<1>12. Pending'
  <2>1. Asked(m)'
    <3>1. m.status = "none" /\ m.action = action /\ m.id = id
      BY <1>2
    <3>2. m.id /= NoId => m.id \in 1..Len(requests') /\ requests'[m.id] = m
      BY <1>8, <3>1
    <3>3. m.action = NoObject => m.id = NoId
      BY <1>1, <3>1
    <3>4. context' = "on_session" => m.id /= NoId /\ m.action \notin {NoAction, NoObject}
      BY <1>1, <1>3, <3>1
    <3> QED BY <3>1, <3>2, <3>3, <3>4 DEF Asked
  <2> SUFFICES ASSUME NEW i \in 1..Len(wire'["asked"])
               PROVE  Asked(wire["asked"][i])'
    BY DEF KernelInv, Pending
  <2>3. PICK r : r = wire'["asked"][i]
    OBVIOUS
  <2>4. Asked(r)'
    <3>1. CASE i \in 1..Len(wire["asked"])
      <4>1. r = wire["asked"][i]
        BY <1>5, <1>6, <1>7, <2>3, <3>1
      <4>2. Asked(r)
        BY <3>1, <4>1 DEF KernelInv, Pending
      <4> QED BY <1>11, <4>2
    <3>2. CASE i \notin 1..Len(wire["asked"])
      <4>1. r = m
        BY <1>5, <1>6, <1>7, <2>3, <3>2
      <4> QED BY <2>1, <4>1
    <3> QED BY <3>1, <3>2
  <2> QED BY <2>3, <2>4 DEF Asked
<1>13. Coming'
  <2> SUFFICES ASSUME NEW i \in 1..Len(wire["asking"])
               PROVE  /\ Refusal(wire["asking"][i])'
                      /\ context = "on_session" => IsAck(wire["asking"][i])
    BY <1>3, <1>7 DEF KernelInv, Coming
  <2>1. PICK r : r = wire["asking"][i]
    OBVIOUS
  <2>2. Refusal(r)'
    BY <1>11, <2>1 DEF KernelInv, Coming
  <2>3. Refusal(wire["asking"][i])'
    BY <1>7, <2>1, <2>2 DEF Refusal
  <2> QED BY <2>3 DEF KernelInv, Coming
<1>14. Come'
  <2> SUFFICES ASSUME NEW i \in 1..Len(answers)
               PROVE  Refusal(answers[i])' /\ answers[i].status /= "none"
    BY <1>3 DEF KernelInv, Come
  <2>1. PICK r : r = answers[i]
    OBVIOUS
  <2>2. Refusal(r)'
    BY <1>11, <2>1 DEF KernelInv, Come
  <2>3. Refusal(answers[i])'
    BY <1>3, <2>1, <2>2 DEF Refusal
  <2> QED BY <2>3 DEF KernelInv, Come
<1>15. ThrownFor'
  BY <1>3 DEF KernelInv, ThrownFor
<1>16. Counting'
  <2> SUFFICES ASSUME NEW d \in 0..MaxRequests
               PROVE  /\ OnItsWay(d)' <= N(requests', ToAnswer(d))
                      /\ ~thrown' => OnItsWay(d)' = N(requests', ToAnswer(d))
    BY DEF KernelInv, Counting
  <2> DEFINE A == ToAnswer(d)
             W == AnswerTo(d)
  <2> HIDE DEF A, W
  <2>1. N(requests', A) = N(requests, A) + One(m, A)
    BY <1>4, <1>5, <1>6, NAppend
  <2>2. N(wire'["asked"], A) = N(wire["asked"], A) + One(m, A)
    BY <1>5, <1>6, <1>7, NAppend
  <2>3. /\ N(requests, A) \in Nat /\ N(wire["asked"], A) \in Nat
        /\ N(wire["asking"], W) \in Nat /\ N(answers, W) \in Nat
        /\ One(m, A) \in Nat
    BY <1>5, NType DEF One
  <2>4. /\ OnItsWay(d) = N(wire["asked"], A) + N(wire["asking"], W) + N(answers, W)
        /\ OnItsWay(d)' = N(wire'["asked"], A) + N(wire'["asking"], W) + N(answers', W)
    BY DEF OnItsWay, A, W
  <2>5. OnItsWay(d) <= N(requests, A) /\ (~thrown => OnItsWay(d) = N(requests, A))
    BY DEF KernelInv, Counting, A
  <2>6. OnItsWay(d)' = OnItsWay(d) + One(m, A) /\ OnItsWay(d) \in Nat
    <3>1. wire'["asking"] = wire["asking"] /\ answers' = answers
      BY <1>3, <1>7
    <3> QED BY <2>2, <2>3, <2>4, <3>1
  <2>7. /\ OnItsWay(d)' <= N(requests', A)
        /\ ~thrown' => OnItsWay(d)' = N(requests', A)
    BY <1>3, <2>1, <2>3, <2>5, <2>6
  <2> QED BY <2>7 DEF A
<1> QED BY <1>9, <1>10, <1>12, <1>13, <1>14, <1>15, <1>16 DEF KernelInv
\* An answer comes in, at a state or at a client.
LEMMA AnswerStep ==
    ASSUME KernelInv, wire["asking"] /= <<>>,
           UNCHANGED <<context, requests, thrown>>,
           wire' = [wire EXCEPT !["asking"] = Tail(@)],
           answers' = Answered("asking", Head(wire["asking"]))
    PROVE  KernelInv'
<1>1. PICK m : m = Head(wire["asking"])
  OBVIOUS
<1>2. context' = context /\ requests' = requests /\ thrown' = thrown
  OBVIOUS
<1>3. /\ requests \in Seq(Msg) /\ answers \in Seq(Msg)
      /\ wire["asked"] \in Seq(Msg) /\ wire["asking"] \in Seq(Msg)
      /\ wire \in [Side -> Seq(Msg)]
  BY DEF KernelInv, Typed, Side
<1>4. /\ m \in Msg
      /\ Tail(wire["asking"]) \in Seq(Msg)
      /\ Len(Tail(wire["asking"])) = Len(wire["asking"]) - 1
      /\ \A i \in 1..Len(Tail(wire["asking"])) : Tail(wire["asking"])[i] = wire["asking"][i + 1]
      /\ m = wire["asking"][1] /\ 1 \in 1..Len(wire["asking"])
  BY <1>1, <1>3
<1>5. /\ wire'["asked"] = wire["asked"]
      /\ wire'["asking"] = Tail(wire["asking"])
      /\ wire' \in [Side -> Seq(Msg)]
  BY <1>3, <1>4 DEF Side
<1>6. PICK a \in Nat, b \in Nat, c \in Nat, n \in Nat :
          /\ a = Len(wire["asked"]) /\ b = Len(wire["asking"])
          /\ c = Len(answers) /\ n = Len(requests)
  BY <1>3
<1>7. a + b + c <= n /\ b >= 1
  <2>1. Len(wire["asking"]) >= 1
    BY <1>3
  <2>2. a + b + c <= n
    BY <1>6 DEF KernelInv, Room
  <2> QED BY <1>6, <2>1, <2>2
<1>8. answers' = IF m.status /= "none" THEN Append(answers, m) ELSE answers
  <2>1. Len(answers) <= Len(requests)
    <3>1. c <= n
      BY <1>7
    <3> QED BY <1>6, <3>1
  <2> QED BY <1>1, <2>1 DEF Answered
<1>9. answers' \in Seq(Msg)
  <2>1. Append(answers, m) \in Seq(Msg)
    BY <1>3, <1>4
  <2> QED BY <1>3, <1>8, <2>1
<1>10. Typed'
  BY <1>2, <1>5, <1>9 DEF KernelInv, Typed
<1>11. Room'
  <2>1. Len(answers') \in {c, c + 1}
    BY <1>3, <1>4, <1>6, <1>8
  <2>2. /\ Len(wire'["asked"]) = a /\ Len(wire'["asking"]) = b - 1 /\ Len(requests') = n
    BY <1>2, <1>4, <1>5, <1>6
  <2>3. a + (b - 1) + (c + 1) <= n /\ a + (b - 1) + c <= n
    BY <1>7
  <2> QED BY <2>1, <2>2, <2>3 DEF KernelInv, Room
<1>12. \A r : (Asked(r) => Asked(r)') /\ (Refusal(r) => Refusal(r)')
  BY <1>2, <1>3, Lasting
<1>13. Pending'
  <2> SUFFICES ASSUME NEW i \in 1..Len(wire["asked"])
               PROVE  Asked(wire["asked"][i])'
    BY <1>5 DEF KernelInv, Pending
  <2>1. PICK r : r = wire["asked"][i]
    OBVIOUS
  <2>2. Asked(r)'
    BY <1>12, <2>1 DEF KernelInv, Pending
  <2> QED BY <1>5, <2>1, <2>2 DEF Asked
<1>14. Coming'
  <2> SUFFICES ASSUME NEW i \in 1..Len(Tail(wire["asking"]))
               PROVE  /\ Refusal(wire["asking"][i])'
                      /\ context = "on_session" => IsAck(wire'["asking"][i])
    BY <1>2, <1>5 DEF KernelInv, Coming
  <2>1. PICK r : r = wire["asking"][i + 1]
    OBVIOUS
  <2>2. i + 1 \in 1..Len(wire["asking"]) /\ r = wire'["asking"][i]
    BY <1>3, <1>4, <1>5, <2>1
  <2>3. Refusal(r) /\ (context = "on_session" => IsAck(r))
    BY <2>1, <2>2 DEF KernelInv, Coming
  <2>4. Refusal(r)'
    BY <1>12, <2>3
  <2> QED BY <2>2, <2>3, <2>4 DEF Refusal
<1>15. Come'
  <2>1. Refusal(m)
    BY <1>4 DEF KernelInv, Coming
  <2> SUFFICES ASSUME NEW i \in 1..Len(answers')
               PROVE  Refusal(answers[i])' /\ answers'[i].status /= "none"
    BY DEF KernelInv, Come
  <2>2. PICK r : r = answers'[i]
    OBVIOUS
  <2>3. Refusal(r) /\ r.status /= "none"
    <3>1. CASE i \in 1..Len(answers)
      <4>1. r = answers[i]
        BY <1>3, <1>4, <1>8, <2>2, <3>1
      <4> QED BY <3>1, <4>1 DEF KernelInv, Come
    <3>2. CASE i \notin 1..Len(answers)
      <4>1. m.status /= "none"
        BY <1>8, <3>2
      <4>2. r = m
        BY <1>3, <1>4, <1>8, <2>2, <3>2, <4>1
      <4> QED BY <2>1, <4>1, <4>2
    <3> QED BY <3>1, <3>2
  <2>4. Refusal(r)'
    BY <1>12, <2>3
  <2> QED BY <2>2, <2>3, <2>4 DEF Refusal
<1>16. ThrownFor'
  BY <1>2 DEF KernelInv, ThrownFor
<1>17. Counting'
  <2> SUFFICES ASSUME NEW d \in 0..MaxRequests
               PROVE  /\ OnItsWay(d)' <= N(requests', ToAnswer(d))
                      /\ ~thrown' => OnItsWay(d)' = N(requests', ToAnswer(d))
    BY DEF KernelInv, Counting
  <2> DEFINE A == ToAnswer(d)
             W == AnswerTo(d)
  <2>1. m.status = "none" => m \notin W
    BY DEF AnswerTo
  <2> HIDE DEF A, W
  <2>2. N(answers', W) = N(answers, W) + One(m, W)
    <3>1. CASE m.status /= "none"
      <4>1. answers' = Append(answers, m)
        BY <1>8, <3>1
      <4>2. N(Append(answers, m), W) = N(answers, W) + One(m, W)
        BY <1>3, <1>4, NAppend
      <4> QED BY <4>1, <4>2
    <3>2. CASE m.status = "none"
      <4>1. answers' = answers /\ One(m, W) = 0
        BY <1>8, <2>1, <3>2 DEF One
      <4>2. N(answers, W) \in Nat
        BY <1>3, NType
      <4> QED BY <4>1, <4>2
    <3> QED BY <3>1, <3>2
  <2>3. N(wire["asking"], W) = One(m, W) + N(Tail(wire["asking"]), W)
    BY <1>1, <1>3, NTail
  <2>4. /\ N(Tail(wire["asking"]), W) \in Nat /\ N(wire["asked"], A) \in Nat
        /\ N(answers, W) \in Nat /\ One(m, W) \in Nat
    BY <1>3, <1>4, NType DEF One
  <2>5. N(wire'["asking"], W) = N(Tail(wire["asking"]), W) /\ N(wire'["asked"], A) = N(wire["asked"], A)
    BY <1>5
  <2>6. /\ OnItsWay(d) = N(wire["asked"], A) + N(wire["asking"], W) + N(answers, W)
        /\ OnItsWay(d)' = N(wire'["asked"], A) + N(wire'["asking"], W) + N(answers', W)
    BY DEF OnItsWay, A, W
  <2>7. OnItsWay(d)' = OnItsWay(d)
    BY <2>2, <2>3, <2>4, <2>5, <2>6
  <2>8. OnItsWay(d) <= N(requests, A) /\ (~thrown => OnItsWay(d) = N(requests, A))
    BY DEF KernelInv, Counting, A
  <2>9. /\ OnItsWay(d)' <= N(requests', A)
        /\ ~thrown' => OnItsWay(d)' = N(requests', A)
    BY <1>2, <2>7, <2>8
  <2> QED BY <2>9 DEF A
<1> QED BY <1>10, <1>11, <1>13, <1>14, <1>15, <1>16, <1>17 DEF KernelInv
\* The answer to a request on its way.
LEMMA AnswerFacts ==
    ASSUME NEW m \in Msg, context \in Contexts, Asked(m)
    PROVE  /\ Refusal(Reply(m, context))
           /\ context = "on_session" /\ ~IsAck(m) => IsAck(Reply(m, context))
<1> DEFINE r == Reply(m, context)
<1>1. m.action = NoObject => m.id = NoId
  BY DEF Asked
<1>2. /\ ~IsAck(m) => /\ r.id = m.id /\ r.status = Status(m, context)
                      /\ r.action = IF m.action = NoObject THEN NoAction ELSE "ack"
      /\ IsAck(m) => r.status = "none"
  BY <1>1, ReplyFacts
<1> HIDE DEF r
<1>3. Refusal(r)
  <2> SUFFICES ASSUME r.status = "failed", r.id /= NoId
               PROVE  r.id \in 1..Len(requests) /\ Refused(requests[r.id])
    BY DEF Refusal
  <2>1. r.id = m.id /\ Status(m, context) = "failed" /\ m.action /= NoObject
    BY <1>1, <1>2
  <2>2. m.id \in 1..Len(requests) /\ requests[m.id] = m
    BY <2>1 DEF Asked
  <2>3. m.action \in {Unknown, NoAction} \/ ~Usable(m, context)
    BY <2>1, FailedIsRefused
  <2> QED BY <2>1, <2>2, <2>3 DEF Refused
<1>4. ASSUME context = "on_session", ~IsAck(m)
      PROVE  IsAck(r)
  <2>1. r.action = "ack" /\ r.id /= NoId
    BY <1>2, <1>4 DEF Asked
  <2> QED BY <2>1 DEF IsAck, WellFormed, NoAction, NoObject
<1> QED BY <1>3, <1>4 DEF r

\* A request is handled: it is gone, and its answer is on its way, unless it
\* was an ack of a state, or the process has ended over it.
LEMMA RequestStep ==
    ASSUME KernelInv, Handle("asked")
    PROVE  KernelInv'
<1>1. PICK m : m = Head(wire["asked"])
  OBVIOUS
<1>2. PICK r : r = Reply(m, context)
  OBVIOUS
<1>3. /\ ~thrown /\ wire["asked"] /= <<>>
      /\ context' = context /\ requests' = requests /\ answers' = answers
      /\ thrown' = Throws(m, context)
  BY <1>1 DEF Handle, Answered
<1>4. PICK quiet \in BOOLEAN : quiet <=> Throws(m, context) \/ (context = "on_session" /\ IsAck(m))
  OBVIOUS
<1>5. wire' = IF quiet THEN [wire EXCEPT !["asked"] = Tail(@)]
              ELSE [[wire EXCEPT !["asked"] = Tail(@)] EXCEPT !["asking"] = Append(@, r)]
  BY <1>1, <1>2, <1>4 DEF Handle, Other
<1>6. /\ requests \in Seq(Msg) /\ answers \in Seq(Msg)
      /\ wire["asked"] \in Seq(Msg) /\ wire["asking"] \in Seq(Msg)
      /\ wire \in [Side -> Seq(Msg)] /\ context \in Contexts
  BY DEF KernelInv, Typed, Side
<1>7. /\ m \in Msg
      /\ Tail(wire["asked"]) \in Seq(Msg)
      /\ Len(Tail(wire["asked"])) = Len(wire["asked"]) - 1
      /\ \A i \in 1..Len(Tail(wire["asked"])) : Tail(wire["asked"])[i] = wire["asked"][i + 1]
      /\ m = wire["asked"][1] /\ 1 \in 1..Len(wire["asked"])
  BY <1>1, <1>3, <1>6
<1>8. Asked(m)
  BY <1>7 DEF KernelInv, Pending
<1>9. m.action = NoObject => m.id = NoId
  BY <1>8 DEF Asked
<1>10. r \in Msg
  BY <1>2, <1>6, <1>7, <1>9, ReplyFacts
<1>11. Refusal(r) /\ (context = "on_session" /\ ~IsAck(m) => IsAck(r))
  BY <1>2, <1>6, <1>7, <1>8, AnswerFacts
<1>12. /\ wire'["asked"] = Tail(wire["asked"])
       /\ wire'["asking"] = IF quiet THEN wire["asking"] ELSE Append(wire["asking"], r)
       /\ wire' \in [Side -> Seq(Msg)]
  <2>1. Append(wire["asking"], r) \in Seq(Msg)
    BY <1>6, <1>10
  <2>2. CASE quiet
    BY <1>5, <1>6, <1>7, <2>2 DEF Side
  <2>3. CASE ~quiet
    BY <1>5, <1>6, <1>7, <2>1, <2>3 DEF Side
  <2> QED BY <2>2, <2>3
<1>13. Typed'
  <2>1. thrown' \in BOOLEAN
    BY <1>3 DEF Throws
  <2> QED BY <1>3, <1>12, <2>1 DEF KernelInv, Typed
<1>14. PICK a \in Nat, b \in Nat, c \in Nat, n \in Nat :
           /\ a = Len(wire["asked"]) /\ b = Len(wire["asking"])
           /\ c = Len(answers) /\ n = Len(requests)
  BY <1>6
<1>15. Room'
  <2>1. a + b + c <= n
    BY <1>14 DEF KernelInv, Room
  <2>2. Len(wire'["asking"]) \in {b, b + 1}
    BY <1>6, <1>10, <1>12, <1>14
  <2>3. Len(wire'["asked"]) = a - 1 /\ Len(answers') = c /\ Len(requests') = n
    BY <1>3, <1>7, <1>12, <1>14
  <2>4. (a - 1) + b + c <= n /\ (a - 1) + (b + 1) + c <= n
    BY <2>1
  <2> QED BY <2>2, <2>3, <2>4 DEF Room
<1>16. \A x : (Asked(x) => Asked(x)') /\ (Refusal(x) => Refusal(x)')
  BY <1>3, <1>6, Lasting
<1>17. Pending'
  <2> SUFFICES ASSUME NEW i \in 1..Len(Tail(wire["asked"]))
               PROVE  Asked(wire["asked"][i])'
    BY <1>12 DEF Pending
  <2>1. PICK x : x = wire["asked"][i + 1]
    OBVIOUS
  <2>2. i + 1 \in 1..Len(wire["asked"]) /\ x = wire'["asked"][i]
    BY <1>6, <1>7, <1>12, <2>1
  <2>3. Asked(x)
    BY <2>1, <2>2 DEF KernelInv, Pending
  <2>4. Asked(x)'
    BY <1>16, <2>3
  <2> QED BY <2>2, <2>4 DEF Asked
<1>18. Coming'
  <2> SUFFICES ASSUME NEW i \in 1..Len(wire'["asking"])
               PROVE  /\ Refusal(wire["asking"][i])'
                      /\ context = "on_session" => IsAck(wire'["asking"][i])
    BY <1>3 DEF Coming
  <2>1. PICK x : x = wire'["asking"][i]
    OBVIOUS
  <2>2. Refusal(x) /\ (context = "on_session" => IsAck(x))
    <3>1. CASE i \in 1..Len(wire["asking"])
      <4>1. x = wire["asking"][i]
        BY <1>6, <1>10, <1>12, <2>1, <3>1
      <4> QED BY <3>1, <4>1 DEF KernelInv, Coming
    <3>2. CASE i \notin 1..Len(wire["asking"])
      <4>1. ~quiet
        BY <1>12, <3>2
      <4>2. x = r
        BY <1>6, <1>10, <1>12, <2>1, <3>2, <4>1
      <4> QED BY <1>4, <1>11, <4>1, <4>2
    <3> QED BY <3>1, <3>2
  <2>3. Refusal(x)'
    BY <1>16, <2>2
  <2> QED BY <2>1, <2>2, <2>3 DEF Refusal
<1>19. Come'
  <2> SUFFICES ASSUME NEW i \in 1..Len(answers)
               PROVE  Refusal(answers[i])' /\ answers[i].status /= "none"
    BY <1>3 DEF Come
  <2>1. PICK x : x = answers[i]
    OBVIOUS
  <2>2. Refusal(x) /\ x.status /= "none"
    BY <2>1 DEF KernelInv, Come
  <2>3. Refusal(x)'
    BY <1>16, <2>2
  <2> QED BY <1>3, <2>1, <2>2, <2>3 DEF Refusal
<1>20. ThrownFor'
  BY <1>3, <1>6, <1>7, ThrowsOnFractions DEF ThrownFor
<1>21. Counting'
  <2> SUFFICES ASSUME NEW d \in 0..MaxRequests
               PROVE  /\ OnItsWay(d)' <= N(requests', ToAnswer(d))
                      /\ ~thrown' => OnItsWay(d)' = N(requests', ToAnswer(d))
    BY DEF Counting
  <2> DEFINE A == ToAnswer(d)
             W == AnswerTo(d)
  <2>1. /\ One(r, W) = One(m, A)
        /\ IsAck(m) => One(m, A) = 0
        /\ One(m, A) \in {0, 1}
    BY <1>2, <1>6, <1>7, <1>9, AnswersCount
  <2>2. /\ OnItsWay(d) = N(wire["asked"], A) + N(wire["asking"], W) + N(answers, W)
        /\ OnItsWay(d)' = N(wire'["asked"], A) + N(wire'["asking"], W) + N(answers', W)
    BY DEF OnItsWay
  <2>3. OnItsWay(d) <= N(requests, A) /\ (~thrown => OnItsWay(d) = N(requests, A))
    BY DEF KernelInv, Counting
  <2> HIDE DEF A, W
  <2>4. N(wire["asked"], A) = One(m, A) + N(wire'["asked"], A)
    <3>1. N(wire["asked"], A) = One(m, A) + N(Tail(wire["asked"]), A)
      BY <1>1, <1>3, <1>6, NTail
    <3> QED BY <1>12, <3>1
  <2>5. N(wire'["asking"], W) = N(wire["asking"], W) + (IF quiet THEN 0 ELSE One(r, W))
    <3>1. N(Append(wire["asking"], r), W) = N(wire["asking"], W) + One(r, W)
      BY <1>6, <1>10, NAppend
    <3>2. N(wire["asking"], W) \in Nat
      BY <1>6, NType
    <3> QED BY <1>12, <3>1, <3>2
  <2>6. /\ N(wire'["asked"], A) \in Nat /\ N(wire["asking"], W) \in Nat
        /\ N(answers, W) \in Nat /\ N(requests, A) \in Nat /\ N(answers', W) = N(answers, W)
    <3>1. wire'["asked"] \in Seq(Msg)
      BY <1>7, <1>12
    <3> QED BY <1>3, <1>6, <3>1, NType
  <2>7. OnItsWay(d)' \in {OnItsWay(d), OnItsWay(d) - One(m, A)} /\ OnItsWay(d) \in Nat
    BY <2>1, <2>2, <2>4, <2>5, <2>6
  <2>8. ~thrown' => OnItsWay(d)' = OnItsWay(d)
    <3>1. CASE quiet
      <4>1. ~thrown' => One(m, A) = 0
        BY <1>3, <1>4, <2>1, <3>1
      <4>2. N(wire'["asking"], W) = N(wire["asking"], W)
        BY <2>5, <2>6, <3>1
      <4> QED BY <2>2, <2>4, <2>6, <4>1, <4>2
    <3>2. CASE ~quiet
      <4>1. N(wire'["asking"], W) = N(wire["asking"], W) + One(m, A)
        BY <2>1, <2>5, <3>2
      <4> QED BY <2>1, <2>2, <2>4, <2>6, <4>1
    <3> QED BY <3>1, <3>2
  <2>9. OnItsWay(d)' <= OnItsWay(d)
    BY <2>1, <2>7
  <2>10. OnItsWay(d)' \in Int
    BY <2>1, <2>7
  <2>11. /\ OnItsWay(d)' <= N(requests', A)
         /\ ~thrown' => OnItsWay(d)' = N(requests', A)
    <3>1. requests' = requests /\ ~thrown
      BY <1>3
    <3> QED BY <2>3, <2>6, <2>7, <2>8, <2>9, <2>10, <3>1
  <2> QED BY <2>11 DEF A
<1> QED BY <1>13, <1>15, <1>17, <1>18, <1>19, <1>20, <1>21 DEF KernelInv
\* A state runs the kernel on an answer, to no effect but that it is taken.
LEMMA SessionTakes ==
    ASSUME KernelInv, Handle("asking")
    PROVE  /\ wire["asking"] /= <<>>
           /\ UNCHANGED <<context, requests, thrown>>
           /\ wire' = [wire EXCEPT !["asking"] = Tail(@)]
           /\ answers' = Answered("asking", Head(wire["asking"]))
<1>1. PICK m : m = Head(wire["asking"])
  OBVIOUS
<1>2. /\ ~thrown /\ context = "on_session" /\ wire["asking"] /= <<>>
      /\ context' = context /\ requests' = requests
      /\ thrown' = Throws(m, context)
      /\ answers' = Answered("asking", m)
      /\ IsAck(m) => wire' = [wire EXCEPT !["asking"] = Tail(@)]
  BY <1>1 DEF Handle
<1>3. wire["asking"] \in Seq(Msg) /\ context \in Contexts /\ thrown \in BOOLEAN
  BY DEF KernelInv, Typed, Side
<1>4. m \in Msg /\ 1 \in 1..Len(wire["asking"]) /\ m = wire["asking"][1]
  BY <1>1, <1>2, <1>3
<1>5. IsAck(m)
  BY <1>2, <1>4 DEF KernelInv, Coming
<1>6. ~Throws(m, context)
  <2>1. m.action = "ack"
    BY <1>5 DEF IsAck
  <2> QED BY <1>3, <1>4, <2>1, ThrowsOnFractions
<1>7. thrown' = thrown
  <2>1. Throws(m, context) \in BOOLEAN
    BY DEF Throws
  <2> QED BY <1>2, <1>3, <1>6, <2>1
<1> QED BY <1>1, <1>2, <1>5, <1>7

LEMMA KernelStep ==
    ASSUME KernelInv, [Next]_vars
    PROVE  KernelInv'
<1>1. CASE \E action \in Actions \cup {Unknown, NoAction, NoObject} : Ask(action)
  BY <1>1, AskStep
<1>2. CASE \E side \in Side : Handle(side)
  <2>1. Handle("asked") \/ Handle("asking")
    BY <1>2 DEF Side
  <2> QED BY <2>1, RequestStep, SessionTakes, AnswerStep
<1>3. CASE Take
  <2>1. /\ wire["asking"] /= <<>>
        /\ UNCHANGED <<context, requests, thrown>>
        /\ wire' = [wire EXCEPT !["asking"] = Tail(@)]
        /\ answers' = Answered("asking", Head(wire["asking"]))
    BY <1>3 DEF Take
  <2> QED BY <2>1, AnswerStep
<1>4. CASE UNCHANGED vars
  BY <1>4 DEF vars, KernelInv, Typed, Room, Pending, Asked, Coming, Refusal, Refused,
              Come, ThrownFor, Counting, OnItsWay
<1> QED BY <1>1, <1>2, <1>3, <1>4 DEF Next

LEMMA KernelKeepsInv == Spec => []KernelInv
<1>1. Init => KernelInv
  BY InitInv
<1>2. KernelInv /\ [Next]_vars => KernelInv'
  BY KernelStep
<1> QED BY <1>1, <1>2, PTL DEF Spec

-----------------------------------------------------------------------------
(* The theorems.                                                           *)

(* The kernel works on what it knows: every message on the wire, asked or   *)
(* answered is a message, and nothing keeps more on the wire than was       *)
(* asked (kernel.cpp: one response per request, session.cpp: an ack is not  *)
(* answered).                                                               *)
THEOREM KernelTypeCorrect == Spec => []TypeOK
<1>1. KernelInv => TypeOK
  <2> SUFFICES ASSUME KernelInv PROVE TypeOK
    OBVIOUS
  <2>1. Msg \subseteq Message
    BY DEF Msg
  <2>2. Seq(Msg) \subseteq Seq(Message)
    BY <2>1
  <2>3. /\ wire \in [Side -> Seq(Msg)] /\ requests \in Seq(Msg) /\ answers \in Seq(Msg)
        /\ context \in Contexts /\ thrown \in BOOLEAN /\ Len(requests) <= MaxRequests
    BY DEF KernelInv, Typed
  <2>4. wire \in [Side -> Seq(Message)] /\ requests \in Seq(Message) /\ answers \in Seq(Message)
    BY <2>2, <2>3
  <2>5. \A side \in Side : Len(wire[side]) <= Len(requests)
    <3>1. PICK a \in Nat, b \in Nat, c \in Nat, n \in Nat :
              /\ a = Len(wire["asked"]) /\ b = Len(wire["asking"])
              /\ c = Len(answers) /\ n = Len(requests)
      BY <2>3 DEF Side
    <3>2. a + b + c <= n
      BY <3>1 DEF KernelInv, Room
    <3>3. a <= n /\ b <= n
      BY <3>2
    <3> QED BY <3>1, <3>3 DEF Side
  <2> QED BY <2>3, <2>4, <2>5 DEF TypeOK, Contexts
<1> QED BY <1>1, KernelKeepsInv, PTL

(* No handler gets a param that its validator has not tested, whatever a    *)
(* client sends and whatever a state sends, as long as the numbers are      *)
(* integers, as those are that states send (validators/*.cpp against the    *)
(* get_param_as_... of handlers/*.cpp).                                     *)
THEOREM GettersAreDefined ==
    ASSUME "fraction" \notin Values
    PROVE  Spec => []GettersDefined
<1>1. KernelInv => GettersDefined
  BY DEF KernelInv, ThrownFor, GettersDefined
<1> QED BY <1>1, KernelKeepsInv, PTL

(* With numbers of any kind, no client ends the process: only a state's     *)
(* register or session has a getter that throws on what has been tested     *)
(* (utils.cpp: is_number against as_int64).                                 *)
THEOREM NoClientThrows == Spec => [](context = "on_client" => GettersDefined)
<1>1. KernelInv => (context = "on_client" => GettersDefined)
  BY DEF KernelInv, ThrownFor, GettersDefined
<1> QED BY <1>1, KernelKeepsInv, PTL

(* Whatever an answer turns down is a request whose handler could not have  *)
(* read its params, or that has no handler: the validators ask for nothing  *)
(* that is not used.                                                        *)
THEOREM RejectedIsUnusable == Spec => []RejectedUnusable
<1>1. KernelInv => RejectedUnusable
  BY DEF KernelInv, Come, Refusal, Refused, RejectedUnusable
<1> QED BY <1>1, KernelKeepsInv, PTL

(* Every request that is no ack is answered with its transaction_id, no     *)
(* more than once, and just once when nothing is left on the wire, however  *)
(* many requests are on their way at a time.                                *)
THEOREM EveryRequestAnsweredOnce == Spec => []AnsweredOnce
<1>1. KernelInv => AnsweredOnce
  <2> SUFFICES ASSUME KernelInv, NEW id \in 0..MaxRequests
               PROVE  LET asked == {i \in 1..Len(requests) :
                                       requests[i].id = id /\ (id /= NoId => requests[i].action /= "ack")}
                          answered == {i \in 1..Len(answers) : answers[i].id = id}
                      IN  /\ Cardinality(answered) <= Cardinality(asked)
                          /\ AtRest /\ ~thrown => Cardinality(answered) = Cardinality(asked)
    BY DEF AnsweredOnce
  <2> DEFINE A == ToAnswer(id)
             W == AnswerTo(id)
             asked == {i \in 1..Len(requests) :
                          requests[i].id = id /\ (id /= NoId => requests[i].action /= "ack")}
             answered == {i \in 1..Len(answers) : answers[i].id = id}
  <2>1. /\ wire["asked"] \in Seq(Msg) /\ wire["asking"] \in Seq(Msg)
        /\ requests \in Seq(Msg) /\ answers \in Seq(Msg)
    BY DEF KernelInv, Typed, Side
  <2>2. Cardinality(asked) = N(requests, A)
    <3>1. \A i \in 1..Len(requests) : requests[i] \in Message
      BY <2>1, MsgFields
    <3>2. asked = {i \in 1..Len(requests) : requests[i] \in A}
      BY <3>1 DEF ToAnswer
    <3> QED BY <3>2 DEF N
  <2>3. Cardinality(answered) = N(answers, W)
    <3>1. \A i \in 1..Len(answers) : answers[i] \in Message
      BY <2>1, MsgFields
    <3>2. \A i \in 1..Len(answers) : answers[i].status /= "none"
      BY DEF KernelInv, Come
    <3>3. answered = {i \in 1..Len(answers) : answers[i] \in W}
      BY <3>1, <3>2 DEF AnswerTo
    <3> QED BY <3>3 DEF N
  <2>4. /\ OnItsWay(id) = N(wire["asked"], A) + N(wire["asking"], W) + N(answers, W)
        /\ OnItsWay(id) <= N(requests, A)
        /\ ~thrown => OnItsWay(id) = N(requests, A)
    BY DEF KernelInv, Counting, OnItsWay
  <2> HIDE DEF A, W, asked, answered
  <2>5. /\ N(wire["asked"], A) \in Nat /\ N(wire["asking"], W) \in Nat
        /\ N(answers, W) \in Nat /\ N(requests, A) \in Nat
    BY <2>1, NType
  <2>6. N(answers, W) <= N(requests, A)
    BY <2>4, <2>5
  <2>7. ASSUME AtRest, ~thrown
        PROVE  N(answers, W) = N(requests, A)
    <3>1. wire["asked"] = <<>> /\ wire["asking"] = <<>>
      BY <2>7 DEF AtRest, Side
    <3>2. N(wire["asked"], A) = 0 /\ N(wire["asking"], W) = 0
      BY <2>1, <3>1, NType
    <3> QED BY <2>4, <2>5, <2>7, <3>2
  <2>8. /\ Cardinality(answered) <= Cardinality(asked)
        /\ AtRest /\ ~thrown => Cardinality(answered) = Cardinality(asked)
    BY <2>2, <2>3, <2>6, <2>7
  <2> QED BY <2>8 DEF asked, answered
<1> QED BY <1>1, KernelKeepsInv, PTL
=============================================================================
