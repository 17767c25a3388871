------------------------------- MODULE Kernel -------------------------------
(***************************************************************************)
(* What the kernel makes of a message: the validator of every message, the *)
(* dispatch by action, the validator of the action, the params its handler *)
(* reads, and the one answer that goes back.                               *)
(*                                                                         *)
(* Two sides exchange messages.  Between two states (on_session) each runs *)
(* the kernel on whatever it gets, answers included, and answers whatever  *)
(* is not an "ack"; a client (on_client) just takes the answers.  Of a     *)
(* message only this matters: its action, its transaction_id, and for each *)
(* of its params what kind of JSON value it is.  A client may leave out    *)
(* the action or the transaction_id, or send something else than an        *)
(* object; states never do.  params is always an object: that get_params   *)
(* does not look whether it is there is out of scope.                      *)
(***************************************************************************)
EXTENDS Naturals, Sequences, FiniteSets

CONSTANTS
    Values,         \* kinds of JSON values to try; "absent" for no attribute
    MaxRequests     \* bound: how many requests are made

KnownValues == {"absent", "text", "uuid", "object", "integer", "fraction", "bool"}

ASSUME KernelAssumption ==
    /\ "absent" \in Values /\ Values \subseteq KnownValues
    /\ MaxRequests \in Nat

Actions == {"ping", "send", "register", "session", "ack", "subscribe",
            "is_subscribed", "unsubscribe", "broadcast", "publish", "join", "leave"}
Unknown == "?"          \* any other action
NoAction == "none"      \* no action, or one that is not a string
NoObject == "body"      \* not a JSON object at all
NoId == 0               \* no transaction_id, or one that is not a uuid

Fields == {"payload", "channel", "client_id", "from_client_id", "to_client_id",
           "host", "sessions_port", "clients_port", "registered"}

-----------------------------------------------------------------------------
(* The validators.                                                         *)

\* is_string, is_object, is_number, is_bool and validator::is_uuid.
Accepted(test) ==
    CASE test = "string" -> {"text", "uuid"}
      [] test = "uuid"   -> {"uuid"}
      [] test = "object" -> {"object"}
      [] test = "number" -> {"integer", "fraction"}
      [] test = "bool"   -> {"bool"}

\* Mutants of Sender: the sender is never looked for; it is asked of a client too.
SenderForgotten(context, field) == {}
SenderAlways(context, field) == {<<field, "uuid">>}

\* Only a state has to say on whose behalf it asks.
Sender(context, field) == IF context = "on_session" THEN {<<field, "uuid">>} ELSE {}

broadcast_validator(context) ==
    {<<"payload", "object">>} \cup Sender(context, "client_id")

publish_validator(context) ==
    {<<"channel", "string">>, <<"payload", "object">>} \cup Sender(context, "client_id")

send_validator(context) ==
    {<<"payload", "object">>, <<"to_client_id", "uuid">>}
    \cup Sender(context, "from_client_id")

subscriptions_validator(context) ==
    {<<"channel", "string">>} \cup Sender(context, "client_id")

is_subscribed_validator == {<<"channel", "string">>}

Ports(test) == {<<"sessions_port", test>>, <<"clients_port", test>>}

register_validator == Ports("number") \cup {<<"registered", "bool">>}

session_validator == Ports("number") \cup {<<"host", "string">>}

\* What is tested before the handler of an action does anything.  Some look at
\* the context first and have nothing to validate for a client.
Tests(action, context) ==
    CASE action = "send" -> send_validator(context)
      [] action = "broadcast" -> broadcast_validator(context)
      [] action = "publish" -> publish_validator(context)
      [] action \in {"subscribe", "unsubscribe"} -> subscriptions_validator(context)
      [] action = "is_subscribed" -> is_subscribed_validator
      [] action = "register" /\ context = "on_session" -> register_validator
      [] action = "session" /\ context = "on_session" -> session_validator
      [] action \in {"join", "leave"} -> Sender(context, "client_id")
      [] OTHER -> {}

Valid(m, context) ==
    \A t \in Tests(m.action, context) : m.params[t[1]] \in Accepted(t[2])

-----------------------------------------------------------------------------
(* The handlers.                                                           *)

\* as_string, lexical_cast of as_string to a uuid, as_object, as_int64 and
\* as_bool, which throw when it is anything else.
Readable(getter) ==
    CASE getter = "get_param_as_string" -> {"text", "uuid"}
      [] getter = "get_param_as_id"     -> {"uuid"}
      [] getter = "get_param_as_object" -> {"object"}
      [] getter = "get_param_as_number" -> {"integer"}
      [] getter = "get_param_as_bool"   -> {"bool"}

String(field) == <<field, "get_param_as_string">>
Id(field)     == <<field, "get_param_as_id">>
Object(field) == <<field, "get_param_as_object">>

\* Read only if a state asks.
FromSession(context, field) == IF context = "on_session" THEN {Id(field)} ELSE {}

broadcast_handler(context) == {Object("payload")} \cup FromSession(context, "client_id")

publish_handler(context) ==
    {String("channel"), Object("payload")} \cup FromSession(context, "client_id")

send_handler(context) ==
    {Id("to_client_id"), Object("payload")} \cup FromSession(context, "from_client_id")

subscribe_handler(context) == {String("channel")} \cup FromSession(context, "client_id")

register_handler(context) ==
    IF context = "on_client" THEN {}
    ELSE Ports("get_param_as_number") \cup {<<"registered", "get_param_as_bool">>}

session_handler(context) ==
    IF context = "on_client" THEN {}
    ELSE Ports("get_param_as_number") \cup {String("host")}

\* What the handler of an action reads once its validator has passed.
Gets(action, context) ==
    CASE action = "send" -> send_handler(context)
      [] action = "broadcast" -> broadcast_handler(context)
      [] action = "publish" -> publish_handler(context)
      [] action \in {"subscribe", "unsubscribe"} -> subscribe_handler(context)
      [] action = "is_subscribed" -> {String("channel")}
      [] action = "register" -> register_handler(context)
      [] action = "session" -> session_handler(context)
      [] action \in {"join", "leave"} -> FromSession(context, "client_id")
      [] OTHER -> {}

Usable(m, context) ==
    \A g \in Gets(m.action, context) : m.params[g[1]] \in Readable(g[2])

-----------------------------------------------------------------------------
(* The kernel.                                                             *)

\* validator.
WellFormed(m) == m.action \notin {NoAction, NoObject} /\ m.id /= NoId

NoParams == [f \in Fields |-> "absent"]

\* set_data and mark_as_failed: both answer with the id of the request, null
\* if it has none.  The one to a body that is no object is not an ack.
Answer(m, status) ==
    [action |-> IF m.action = NoObject THEN NoAction ELSE "ack",
     id |-> m.id, status |-> status, params |-> NoParams]

\* Mutant of IsAck: answers are told by their status only.
IsAckFailed(m) == m.action = "ack" /\ m.status = "failed"

\* mark_as_ack.
IsAck(m) == m.action = "ack" /\ WellFormed(m)

\* The validator of every message, then unimplemented_handler, or the
\* validator of the action, or its handler.
Status(m, context) ==
    IF WellFormed(m) /\ m.action \in Actions /\ Valid(m, context)
    THEN "success" ELSE "failed"

\* What goes back: data_ is an empty object for an ack.
Reply(m, context) ==
    IF IsAck(m)
    THEN [action |-> NoAction, id |-> NoId, status |-> "none", params |-> NoParams]
    ELSE Answer(m, Status(m, context))

Throws(m, context) ==
    WellFormed(m) /\ m.action \in Actions /\ Valid(m, context) /\ ~Usable(m, context)

VARIABLES
    context,        \* on_session between states, on_client between a client and its state
    wire,           \* wire[side]: the messages on their way to that side
    requests,       \* history: the requests made
    answers,        \* history: the answers the asking side got
    thrown          \* an exception has left the kernel: the process ends

vars == <<context, wire, requests, answers, thrown>>

Side == {"asking", "asked"}
Other(side) == IF side = "asking" THEN "asked" ELSE "asking"

Message == [action : Actions \cup {Unknown, NoAction, NoObject}, id : 0..MaxRequests,
            status : {"none", "success", "failed"}, params : [Fields -> KnownValues]]

\* Nothing keeps more on the wire than was asked.
TypeOK ==
    /\ context \in {"on_session", "on_client"}
    /\ wire \in [Side -> Seq(Message)]
    /\ requests \in Seq(Message) /\ Len(requests) <= MaxRequests
    /\ answers \in Seq(Message)
    /\ thrown \in BOOLEAN
    /\ \A side \in Side : Len(wire[side]) <= Len(requests)

Init ==
    /\ context \in {"on_session", "on_client"}
    /\ wire = [side \in Side |-> <<>>]
    /\ requests = <<>>
    /\ answers = <<>>
    /\ thrown = FALSE

\* Params of the action, each of any kind.
ParamsFor(action) ==
    LET F == {t[1] : t \in Tests(action, "on_session") \cup Gets(action, "on_session")}
    IN  {[f \in Fields |-> IF f \in F THEN p[f] ELSE "absent"] : p \in [F -> Values]}

Ask(action) ==
    /\ Len(requests) < MaxRequests
    /\ action \in {NoAction, NoObject} => context = "on_client"
    /\ \E p \in ParamsFor(action), id \in {Len(requests) + 1, NoId} :
          LET m == [action |-> action, id |-> id, status |-> "none", params |-> p]
          IN  /\ id = NoId => context = "on_client"
              /\ action = NoObject => id = NoId
              /\ requests' = Append(requests, m)
              /\ wire' = [wire EXCEPT !["asked"] = Append(@, m)]
    /\ UNCHANGED <<context, answers, thrown>>

\* One answer too many is kept, further ones are not: a bound.
Answered(side, m) ==
    IF side = "asking" /\ m.status /= "none" /\ Len(answers) <= Len(requests)
    THEN Append(answers, m) ELSE answers

\* Mutant of Handle: the buffer is not consumed.
HandleAgain(side) ==
    /\ ~thrown
    /\ wire[side] /= <<>>
    /\ LET m == Head(wire[side])
       IN  /\ thrown' = Throws(m, context)
           /\ answers' = Answered(side, m)
           /\ wire' = IF Throws(m, context) \/ (context = "on_session" /\ IsAck(m)) THEN wire
                      ELSE [wire EXCEPT ![Other(side)] = Append(@, Reply(m, context))]
    /\ UNCHANGED <<context, requests>>

\* session::on_read and client::on_read: the kernel, the answer, the next read.
\* A session does not answer an ack; a client gets its empty data_.
Handle(side) ==
    /\ ~thrown
    /\ context = "on_session" \/ side = "asked"
    /\ wire[side] /= <<>>
    /\ LET m == Head(wire[side])
           taken == [wire EXCEPT ![side] = Tail(@)]
       IN  /\ thrown' = Throws(m, context)
           /\ answers' = Answered(side, m)
           /\ wire' = IF Throws(m, context) \/ (context = "on_session" /\ IsAck(m)) THEN taken
                      ELSE [taken EXCEPT ![Other(side)] = Append(@, Reply(m, context))]
    /\ UNCHANGED <<context, requests>>

\* A client takes what it gets.
Take ==
    /\ context = "on_client"
    /\ wire["asking"] /= <<>>
    /\ answers' = Answered("asking", Head(wire["asking"]))
    /\ wire' = [wire EXCEPT !["asking"] = Tail(@)]
    /\ UNCHANGED <<context, requests, thrown>>

Next ==
    \/ \E action \in Actions \cup {Unknown, NoAction, NoObject} : Ask(action)
    \/ \E side \in Side : Handle(side)
    \/ Take

Spec == Init /\ [][Next]_vars

\* The strands read on.
FairSpec == Spec /\ WF_vars(Take) /\ \A side \in Side : WF_vars(Handle(side))

-----------------------------------------------------------------------------
AtRest == \A side \in Side : wire[side] = <<>>

(* Every request is answered, once, with its id (null if it has none to     *)
(* answer with), and an answer is not answered in turn, so that two states  *)
(* that run the same kernel on each other's messages do not keep each other *)
(* busy.                                                                    *)
AnsweredOnce ==
    \A id \in 0..MaxRequests :
        LET asked == {i \in 1..Len(requests) :
                         requests[i].id = id /\ (id /= NoId => requests[i].action /= "ack")}
            answered == {i \in 1..Len(answers) : answers[i].id = id}
        IN  /\ Cardinality(answered) <= Cardinality(asked)
            /\ AtRest /\ ~thrown => Cardinality(answered) = Cardinality(asked)

(* What the validators let through the handlers can read: in no context     *)
(* does a handler get a param that nobody has tested.                       *)
GettersDefined == ~thrown

(* What they turn down the handlers could not have read: nothing is asked   *)
(* of a client or of a state that is not used.                              *)
RejectedUnusable ==
    \A k \in 1..Len(answers) :
        answers[k].status = "failed" /\ answers[k].id /= NoId =>
            LET m == requests[answers[k].id]
            IN  m.action \in {Unknown, NoAction} \/ ~Usable(m, context)

(* The exchange ends.                                                       *)
ComesToRest == <>[](Len(requests) = MaxRequests => AtRest)
=============================================================================
