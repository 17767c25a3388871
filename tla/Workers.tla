------------------------------ MODULE Workers -------------------------------
(***************************************************************************)
(* The io threads of the states, and what they wait for.                   *)
(*                                                                         *)
(* server::start connects to the seed, listens, and then runs the          *)
(* io_context in threads[s] threads.  A thread takes a handler that is     *)
(* ready and whose strand is free and runs it to its end.  On the way a    *)
(* handler may wait for three things: a lock on one of the three tables    *)
(* (shared_mutex: many readers or one writer), a state that accepts the    *)
(* connection session_handler opens (it retries for ever, on the thread),  *)
(* and the console, if its output has been stopped (or it throws then).    *)
(*                                                                         *)
(* A handler is the sequence of its locks, connects and prints; what it    *)
(* does between them waits for nobody (a send only posts).  The processes  *)
(* may die and be started again; their handlers die with them.             *)
(***************************************************************************)
EXTENDS Naturals, Sequences, FiniteSets

CONSTANTS
    States,
    Seed,           \* Seed[s]: remote_address of s; None for the first state
    Threads,        \* Threads[s]: what threads_ of its configuration may be
    Repl,           \* the states with repl_enabled
    Work,           \* bound: the handlers there are to run, once each
    StateOf,        \* StateOf[w]: the state that runs w
    Kinds,          \* Kinds[w]: the handlers w may be, one in each behaviour
    Strand,         \* Strand[w]: the strand it runs on
    To,             \* To[w]: the state an introduction leads to, else None
    Mortal,         \* bound: the states that may die, once each
    None

-----------------------------------------------------------------------------
(* The handlers.                                                           *)

Shared(t) == [op |-> "shared", on |-> t]
Unique(t) == [op |-> "unique", on |-> t]
Unlock(t) == [op |-> "unlock", on |-> t]
ConnectTo == [op |-> "connect", on |-> None]
Output     == [op |-> "print", on |-> None]
Return    == [op |-> "return", on |-> None]

\* Every operation of state locks one table and unlocks it before it returns.
Reading(t) == <<Shared(t), Unlock(t)>>
Writing(t) == <<Unique(t), Unlock(t)>>

\* client_listener::on_accept: add_client, join_to_sessions.  client::on_read
\* with an error: remove_client, leave_to_sessions.
ClientAccepted == Writing("clients") \o Reading("sessions")
ClientGone     == Writing("clients") \o Reading("sessions")

SessionAccepted == Writing("sessions")

\* Mutant of SessionGone: the session is destroyed by the erase in
\* remove_session, whose lock is still held.
SessionGoneNested ==
    <<Unique("sessions")>> \o Writing("clients") \o Writing("subscriptions")
    \o <<Unlock("sessions")>>

\* session::on_read with an error: remove_session; then the handler lets go of
\* the session, whose destructor calls remove_state_of_session.
SessionGone == Writing("sessions") \o Writing("clients") \o Writing("subscriptions")

\* get_session, then sync: the copy of the sessions, the clients and the
\* subscriptions, the last two sent under the lock.  Whoever has registered
\* elsewhere is introduced to nobody.
RegisterAgain == Reading("sessions") \o Reading("clients") \o Reading("subscriptions")
Register == Reading("sessions") \o RegisterAgain

\* Mutant of Introduction: the table stays locked from the search to the entry.
IntroductionLocked ==
    <<Unique("sessions"), ConnectTo, Unlock("sessions")>>

\* The search for a link, the connect loop, add_session.
Introduction == Reading("sessions") \o <<ConnectTo>> \o Writing("sessions")

\* subscribe and unsubscribe of a client; of a session they end after the first.
Subscription == Writing("subscriptions") \o Reading("sessions")

\* A message to the clients here, then to the sessions.
Broadcast == Reading("clients") \o Reading("sessions")
Send == Reading("clients") \o Reading("sessions")
Publish == Reading("clients") \o Reading("subscriptions") \o Reading("sessions")

\* The console prints copies.
Dump == Reading("sessions") \o <<Output>> \o Reading("clients") \o <<Output>>
        \o Reading("subscriptions") \o <<Output>>

Program ==
    [accept_client |-> ClientAccepted, client_gone |-> ClientGone,
     accept_session |-> SessionAccepted, session_gone |-> SessionGone,
     register |-> Register, register_again |-> RegisterAgain, session |-> Introduction,
     subscribe |-> Subscription, broadcast |-> Broadcast, publish |-> Publish,
     send |-> Send, is_subscribed |-> Reading("subscriptions"),
     join |-> Writing("clients"), leave |-> Writing("clients"),
     dump |-> Dump, exit |-> <<Return>>, line |-> <<Return>>]

\* After how many steps a handler may find that there is nothing else to do:
\* no such session; a session to that address; a client here or none; the
\* request came over a session; no receivers.
Exits == [register |-> {2}, register_again |-> {2}, session |-> {2}, subscribe |-> {2}, broadcast |-> {2},
          send |-> {2}, publish |-> {2, 4}]

\* What the console reads: any other line is only answered.
Console == {"dump", "exit", "line"}

ASSUME WorkersAssumption ==
    /\ None \notin States
    /\ Seed \in [States -> States \cup {None}]
    /\ Threads \in [States -> SUBSET (Nat \ {0})]
    /\ Repl \subseteq States
    /\ IsFiniteSet(Work)
    /\ StateOf \in [Work -> States]
    /\ Kinds \in [Work -> SUBSET DOMAIN Program]
    /\ To \in [Work -> States \cup {None}]
    /\ \A w \in Work : /\ "session" \in Kinds[w] => To[w] /= None
                       /\ Kinds[w] \cap Console /= {} => StateOf[w] \in Repl
    \* Only the seed introduces (Mesh, OnlySeedIntroduces): one strand.
    /\ \A v, w \in Work : "session" \in Kinds[v] \cap Kinds[w]
                             /\ StateOf[v] = StateOf[w] => Strand[v] = Strand[w]
    /\ Mortal \subseteq States

VARIABLES
    phase,          \* phase[s]: how far server::start of s is
    threads,        \* threads[s]: the size of the pool
    kind,           \* kind[w]: which handler w is
    status,         \* status[w]: what has become of w
    pc,             \* pc[w]: how many steps of its program w has taken
    console,        \* console[s]: the asynchronous loop of repl
    stopped,        \* the states whose standard output takes no more
    died            \* the states that have died

vars == <<phase, threads, kind, status, pc, console, stopped, died>>

TypeOK ==
    /\ phase \in [States -> {"connecting", "listening", "running", "dead"}]
    /\ \A s \in States : threads[s] \in Threads[s]
    /\ kind \in [Work -> DOMAIN Program]
    /\ status \in [Work -> {"ready", "running", "done", "lost"}]
    /\ \A w \in Work : pc[w] \in 0..Len(Program[kind[w]])
    /\ console \in [States -> {"off", "reading", "busy", "writing"}]
    /\ stopped \subseteq States
    /\ died \subseteq States
    /\ \A s \in States :
          /\ Cardinality({w \in Work : status[w] = "running" /\ StateOf[w] = s}) <= threads[s]
          /\ console[s] /= "off" => s \in Repl /\ phase[s] \in {"listening", "running"}

Init ==
    /\ phase = [s \in States |-> "connecting"]
    /\ threads \in {t \in [States -> UNION {Threads[s] : s \in States}] :
                      \A s \in States : t[s] \in Threads[s]}
    /\ kind \in {k \in [Work -> DOMAIN Program] : \A w \in Work : k[w] \in Kinds[w]}
    /\ status = [w \in Work |-> "ready"]
    /\ pc = [w \in Work |-> 0]
    /\ console = [s \in States |-> "off"]
    /\ stopped = {}
    /\ died = {}

Running(w) == status[w] = "running"

-----------------------------------------------------------------------------
(* server::start and the end of a process.                                 *)

\* The operating system accepts connections for whoever listens, also while
\* none of its threads is free.
Listening(s) == phase[s] \in {"listening", "running"}

\* Mutant of Listen: repl_enabled is not looked at.
ListenWithConsole(s) ==
    /\ phase[s] = "connecting"
    /\ Seed[s] /= None => Listening(Seed[s])
    /\ phase' = [phase EXCEPT ![s] = "listening"]
    /\ console' = [console EXCEPT ![s] = "reading"]
    /\ UNCHANGED <<threads, kind, status, pc, stopped, died>>

\* The connect loop to the seed, then both listeners, then the console.
Listen(s) ==
    /\ phase[s] = "connecting"
    /\ Seed[s] /= None => Listening(Seed[s])
    /\ phase' = [phase EXCEPT ![s] = "listening"]
    /\ console' = [console EXCEPT ![s] = IF s \in Repl THEN "reading" ELSE "off"]
    /\ UNCHANGED <<threads, kind, status, pc, stopped, died>>

RunThreads(s) ==
    /\ phase[s] = "listening"
    /\ phase' = [phase EXCEPT ![s] = "running"]
    /\ UNCHANGED <<threads, kind, status, pc, console, stopped, died>>

End(s) ==
    /\ phase' = [phase EXCEPT ![s] = "dead"]
    /\ died' = died \cup {s}
    /\ status' = [w \in Work |-> IF StateOf[w] = s /\ Running(w) THEN "lost" ELSE status[w]]
    /\ pc' = [w \in Work |-> IF StateOf[w] = s /\ Running(w) THEN 0 ELSE pc[w]]
    /\ console' = [console EXCEPT ![s] = "off"]
    /\ UNCHANGED <<threads, kind, stopped>>

Die(s) ==
    /\ Listening(s)
    /\ s \in Mortal \ died
    /\ End(s)

Restart(s) ==
    /\ phase[s] = "dead"
    /\ phase' = [phase EXCEPT ![s] = "connecting"]
    /\ UNCHANGED <<threads, kind, status, pc, console, stopped, died>>

-----------------------------------------------------------------------------
(* Handlers.                                                               *)

\* w is at work and the last of its steps on table t locked it that way.
Holds(w, op, t) ==
    /\ Running(w)
    /\ \E i \in 1..pc[w] :
          /\ Program[kind[w]][i] = [op |-> op, on |-> t]
          /\ \A j \in (i + 1)..pc[w] : Program[kind[w]][j] /= Unlock(t)

Colleagues(w) == {v \in Work : StateOf[v] = StateOf[w] /\ v /= w /\ Running(v)}

\* Mutant of MayStep: session_handler waits for the handshake, too, which takes
\* a thread of the other state.
MayStepHandshake(w) ==
    LET step == Program[kind[w]][pc[w] + 1]
        held(op) == \E v \in Colleagues(w) : Holds(v, op, step.on)
        busy(s) == {v \in Work : StateOf[v] = s /\ Running(v)}
    IN  /\ step.op = "shared"  => ~held("unique")
        /\ step.op = "unique"  => ~held("unique") /\ ~held("shared")
        /\ step.op = "connect" => /\ phase[To[w]] = "running"
                                  /\ Cardinality(busy(To[w])) < threads[To[w]]
        /\ step.op = "print"   => StateOf[w] \notin stopped

\* The next step of w need not wait any longer.
MayStep(w) ==
    LET step == Program[kind[w]][pc[w] + 1]
        held(op) == \E v \in Colleagues(w) : Holds(v, op, step.on)
    IN  /\ step.op = "shared"  => ~held("unique")
        /\ step.op = "unique"  => ~held("unique") /\ ~held("shared")
        /\ step.op = "connect" => Listening(To[w])
        /\ step.op = "print"   => StateOf[w] \notin stopped

\* Whoever is introduced has listened before; the console reads one line at
\* a time.
Arrived(w) ==
    /\ phase[StateOf[w]] = "running"
    /\ kind[w] = "session" => Listening(To[w]) \/ To[w] \in died
    /\ kind[w] \in Console => console[StateOf[w]] = "reading"

\* A thread is free and so is the strand.
Free(w) ==
    /\ Cardinality(Colleagues(w)) < threads[StateOf[w]]
    /\ \A v \in Colleagues(w) : Strand[v] /= Strand[w]

Begin(w) ==
    /\ status[w] = "ready"
    /\ Arrived(w)
    /\ Free(w)
    /\ status' = [status EXCEPT ![w] = "running"]
    /\ console' = [console EXCEPT ![StateOf[w]] = IF kind[w] \in Console THEN "busy" ELSE @]
    /\ UNCHANGED <<phase, threads, kind, pc, stopped, died>>

EndsEarly(w) == kind[w] \in DOMAIN Exits /\ pc[w] + 1 \in Exits[kind[w]]

\* repl::read: "exit" is not answered and nothing is read after it.
After(w) ==
    CASE kind[w] \in {"dump", "line"} -> "writing"
      [] kind[w] = "exit" -> "off"
      [] OTHER -> console[StateOf[w]]

Step(w) ==
    LET last == Len(Program[kind[w]])
    IN  /\ Running(w)
        /\ MayStep(w)
        /\ \E n \in {pc[w] + 1} \cup IF EndsEarly(w) THEN {last} ELSE {} :
              /\ pc' = [pc EXCEPT ![w] = n]
              /\ IF n = last
                 THEN /\ status' = [status EXCEPT ![w] = "done"]
                      /\ console' = [console EXCEPT ![StateOf[w]] = After(w)]
                 ELSE UNCHANGED <<status, console>>
        /\ UNCHANGED <<phase, threads, kind, stopped, died>>

\* The asynchronous reads and writes of the console have made its descriptors
\* non-blocking: fmt::print throws, nothing catches it, the process ends.
PrintFails(w) ==
    /\ Running(w)
    /\ Program[kind[w]][pc[w] + 1] = Output
    /\ StateOf[w] \in stopped
    /\ End(StateOf[w])

\* repl::write: the answer has been written, the next line is read.
Written(s) ==
    /\ console[s] = "writing"
    /\ s \notin stopped
    /\ console' = [console EXCEPT ![s] = "reading"]
    /\ UNCHANGED <<phase, threads, kind, status, pc, stopped, died>>

\* repl::read and repl::write with an error.
ConsoleEnds(s) ==
    /\ console[s] \in {"reading", "writing"}
    /\ console' = [console EXCEPT ![s] = "off"]
    /\ UNCHANGED <<phase, threads, kind, status, pc, stopped, died>>

\* Whoever reads the console's output stops or resumes.
Stop(s) ==
    /\ s \in Repl
    /\ stopped' = IF s \in stopped THEN stopped \ {s} ELSE stopped \cup {s}
    /\ UNCHANGED <<phase, threads, kind, status, pc, console, died>>

-----------------------------------------------------------------------------
Start(s) == Listen(s) \/ RunThreads(s)

Next ==
    \/ \E s \in States : \/ Start(s) \/ Die(s) \/ Restart(s)
                          \/ Written(s) \/ ConsoleEnds(s) \/ Stop(s)
    \/ \E w \in Work : Begin(w) \/ Step(w) \/ PrintFails(w)

Spec == Init /\ [][Next]_vars

Fairness ==
    /\ \A s \in States : WF_vars(Start(s) \/ Written(s))
    /\ \A w \in Work : WF_vars(Begin(w) \/ Step(w))

FairSpec == Spec /\ Fairness

-----------------------------------------------------------------------------
(* A handler that holds a lock waits for nothing, neither for another lock *)
(* nor for a peer nor for the console: so the threads of a state do not    *)
(* stop each other, whatever the order in which the handlers lock.         *)
LocksHeldBriefly ==
    \A w \in Work :
        (\E op \in {"shared", "unique"}, t \in {"sessions", "clients", "subscriptions"} :
            Holds(w, op, t))
        => MayStep(w)

(* With three threads a state goes on serving although a peer it was       *)
(* introduced to never comes back and its console is stopped: introductions*)
(* run one at a time, on the strand of the session to the seed, and so does*)
(* the console.                                                            *)
MayBlock(w) ==
    \/ Kinds[w] \cap Console /= {}
    \/ \E v \in Work : /\ "session" \in Kinds[v]
                       /\ StateOf[v] = StateOf[w] /\ Strand[v] = Strand[w]

PoolServes ==
    \A w \in {v \in Work : ~MayBlock(v)} :
        status[w] = "ready" /\ threads[StateOf[w]] > 2 ~>
            status[w] \in {"done", "lost"} \/ phase[StateOf[w]] /= "running"

Pending(w) == Running(w) \/ (status[w] = "ready" /\ Arrived(w))

(* Nobody waits for each other for good: when no process stays dead and no *)
(* console stopped, everyone gets to run and every handler to its end,     *)
(* although a single thread may wait for a peer that is starting, and that *)
(* one for the state of this thread.  A connection needs nobody's thread.  *)
Recovers ==
    (\A s \in States : <>[](phase[s] /= "dead" /\ s \notin stopped)) =>
        /\ \A s \in States : <>[](phase[s] = "running")
        /\ \A w \in Work : []<>~Pending(w)
=============================================================================
