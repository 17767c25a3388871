---------------------------- MODULE WorkersProofs ----------------------------
(***************************************************************************)
(* Theorems about Workers, for any states, pools, handlers and strands.    *)
(*                                                                         *)
(* That no handler waits with a lock in its hand is a matter of its        *)
(* program: Paired says that whatever locks is followed by its unlock, and *)
(* is kept when programs are put one behind the other.  From this, and     *)
(* from what runs one at a time, follows that three threads go on.         *)
(***************************************************************************)
EXTENDS Workers, FiniteSetTheorems, TLAPS

-----------------------------------------------------------------------------
(* Programs.                                                               *)

Table == {"sessions", "clients", "subscriptions"}

Instruction == [op : {"shared", "unique", "unlock"}, on : Table] \cup {ConnectTo, Output, Return}

\* Every lock is let go of in the very next step.
Paired(p) ==
    \A i \in 1..Len(p) : p[i].op \in {"shared", "unique"} =>
        i + 1 \in 1..Len(p) /\ p[i + 1] = Unlock(p[i].on)

Fine(p) == p \in Seq(Instruction) /\ Len(p) > 0 /\ Paired(p)

LEMMA FinePair ==
    /\ \A t \in Table : Fine(Reading(t)) /\ Fine(Writing(t))
    /\ Fine(<<ConnectTo>>) /\ Fine(<<Output>>) /\ Fine(<<Return>>)
<1>1. ASSUME NEW t \in Table PROVE Fine(Reading(t)) /\ Fine(Writing(t))
  <2>1. /\ Shared(t) \in Instruction /\ Unique(t) \in Instruction /\ Unlock(t) \in Instruction
        /\ Shared(t).on = t /\ Unique(t).on = t /\ Unlock(t).op = "unlock"
    BY DEF Instruction, Shared, Unique, Unlock
  <2>2. ASSUME NEW x \in Instruction, x.on = t PROVE Fine(<<x, Unlock(t)>>)
    <3>1. /\ <<x, Unlock(t)>> \in Seq(Instruction) /\ Len(<<x, Unlock(t)>>) = 2
          /\ <<x, Unlock(t)>>[1] = x /\ <<x, Unlock(t)>>[2] = Unlock(t)
      BY <2>1
    <3>2. Paired(<<x, Unlock(t)>>)
      BY <2>1, <2>2, <3>1 DEF Paired
    <3> QED BY <3>1, <3>2 DEF Fine
  <2> QED BY <2>1, <2>2 DEF Reading, Writing
<1>2. ASSUME NEW x \in {ConnectTo, Output, Return} PROVE Fine(<<x>>)
  <2>1. x \in Instruction /\ x.op \notin {"shared", "unique"}
    BY DEF Instruction, ConnectTo, Output, Return
  <2>2. <<x>> \in Seq(Instruction) /\ Len(<<x>>) = 1 /\ <<x>>[1] = x
    BY <2>1
  <2> QED BY <2>1, <2>2 DEF Fine, Paired
<1> QED BY <1>1, <1>2

LEMMA FineConcat == ASSUME NEW p, NEW q, Fine(p), Fine(q) PROVE Fine(p \o q)
<1>1. /\ p \o q \in Seq(Instruction) /\ Len(p \o q) = Len(p) + Len(q)
      /\ Len(p) \in Nat \ {0} /\ Len(q) \in Nat \ {0}
      /\ \A i \in 1..Len(p \o q) : (p \o q)[i] = IF i <= Len(p) THEN p[i] ELSE q[i - Len(p)]
  BY DEF Fine
<1>2. Paired(p \o q)
  <2> SUFFICES ASSUME NEW i \in 1..Len(p \o q), (p \o q)[i].op \in {"shared", "unique"}
               PROVE  i + 1 \in 1..Len(p \o q) /\ (p \o q)[i + 1] = Unlock((p \o q)[i].on)
    BY DEF Paired
  <2>1. CASE i <= Len(p)
    <3>1. i \in 1..Len(p) /\ (p \o q)[i] = p[i]
      BY <1>1, <2>1
    <3>2. i + 1 \in 1..Len(p) /\ p[i + 1] = Unlock(p[i].on)
      BY <3>1 DEF Fine, Paired
    <3> QED BY <1>1, <3>1, <3>2
  <2>2. CASE i > Len(p)
    <3>1. i - Len(p) \in 1..Len(q) /\ (p \o q)[i] = q[i - Len(p)]
      BY <1>1, <2>2
    <3>2. i - Len(p) + 1 \in 1..Len(q) /\ q[i - Len(p) + 1] = Unlock(q[i - Len(p)].on)
      BY <3>1 DEF Fine, Paired
    <3>3. (i + 1) - Len(p) = i - Len(p) + 1 /\ ~(i + 1 <= Len(p)) /\ i + 1 \in 1..Len(p \o q)
      BY <1>1, <2>2, <3>2
    <3> QED BY <1>1, <3>1, <3>2, <3>3
  <2> QED BY <1>1, <2>1, <2>2
<1> QED BY <1>1, <1>2 DEF Fine

\* Every handler of the system keeps to it.
LEMMA ProgramFine == \A k \in DOMAIN Program : Fine(Program[k])
<1> USE FinePair, FineConcat DEF Table
<1>1. Fine(ClientAccepted) /\ Fine(ClientGone)
  BY DEF ClientAccepted, ClientGone
<1>2. Fine(SessionAccepted) /\ Fine(SessionGone)
  BY DEF SessionAccepted, SessionGone
<1>3. Fine(RegisterAgain)
  BY DEF RegisterAgain
<1>4. Fine(Register)
  BY <1>3 DEF Register
<1>5. Fine(Introduction)
  BY DEF Introduction
<1>6. Fine(Subscription) /\ Fine(Broadcast) /\ Fine(Send) /\ Fine(Publish)
  BY DEF Subscription, Broadcast, Send, Publish
<1>7. Fine(Dump)
  <2>1. Fine(Reading("sessions") \o <<Output>>)
    OBVIOUS
  <2>2. Fine(Reading("sessions") \o <<Output>> \o Reading("clients"))
    BY <2>1
  <2>3. Fine(Reading("sessions") \o <<Output>> \o Reading("clients") \o <<Output>>)
    BY <2>2
  <2>4. Fine(Reading("sessions") \o <<Output>> \o Reading("clients") \o <<Output>>
             \o Reading("subscriptions"))
    BY <2>3
  <2> QED BY <2>4 DEF Dump
<1> QED
  BY <1>1, <1>2, <1>3, <1>4, <1>5, <1>6, <1>7 DEF Program
-----------------------------------------------------------------------------
(* The invariant.                                                          *)

Busy(s) == {w \in Work : status[w] = "running" /\ StateOf[w] = s}

Types ==
    /\ phase \in [States -> {"connecting", "listening", "running", "dead"}]
    /\ \A s \in States : threads[s] \in Threads[s]
    /\ kind \in [Work -> DOMAIN Program]
    /\ status \in [Work -> {"ready", "running", "done", "lost"}]
    /\ pc \in [Work -> Nat]
    /\ \A w \in Work : pc[w] \in 0..Len(Program[kind[w]])
    /\ console \in [States -> {"off", "reading", "busy", "writing"}]
    /\ stopped \subseteq States
    /\ died \subseteq States

PoolSize == \A s \in States : Cardinality(Busy(s)) <= threads[s]

ConsoleOn ==
    \A s \in States : console[s] /= "off" => s \in Repl /\ phase[s] \in {"listening", "running"}

\* Who has not begun has taken no step, and who is at work has some left; a
\* handler runs only where the threads do, a line only where there is a console.
AtWork ==
    \A w \in Work :
        /\ status[w] = "ready" => pc[w] = 0
        /\ Running(w) => /\ pc[w] < Len(Program[kind[w]])
                         /\ phase[StateOf[w]] = "running"
                         /\ kind[w] \in Console => StateOf[w] \in Repl

WorkersInv == Types /\ PoolSize /\ ConsoleOn /\ AtWork

LEMMA PoolFacts ==
    /\ \A s \in States : threads[s] \in Threads[s] => threads[s] \in Nat \ {0}
    /\ \A S \in SUBSET Work : IsFiniteSet(S) /\ Cardinality(S) \in Nat
<1>1. \A s \in States : Threads[s] \subseteq Nat \ {0}
  BY WorkersAssumption
<1>2. \A S \in SUBSET Work : IsFiniteSet(S) /\ Cardinality(S) \in Nat
  BY FS_Subset, FS_CardinalityType, WorkersAssumption
<1> QED BY <1>1, <1>2

LEMMA ProgramLength == \A k \in DOMAIN Program : Len(Program[k]) \in Nat \ {0}
BY ProgramFine DEF Fine

LEMMA WorkersInit == Init => WorkersInv
<1> SUFFICES ASSUME Init PROVE WorkersInv
  OBVIOUS
<1>1. Types
  <2>1. \A w \in Work : kind[w] \in DOMAIN Program
    BY DEF Init
  <2>2. \A w \in Work : pc[w] \in 0..Len(Program[kind[w]])
    BY <2>1, ProgramLength DEF Init
  <2> QED BY <2>2 DEF Init, Types
<1>2. PoolSize
  <2> SUFFICES ASSUME NEW s \in States PROVE Cardinality(Busy(s)) <= threads[s]
    BY DEF PoolSize
  <2>1. Busy(s) = {}
    BY DEF Init, Busy
  <2> QED BY <1>1, <2>1, FS_EmptySet, PoolFacts DEF Types
<1>3. ConsoleOn /\ AtWork
  BY DEF Init, ConsoleOn, AtWork, Running
<1> QED BY <1>1, <1>2, <1>3 DEF WorkersInv

\* A process ends: its handlers are gone, and so is its console.
LEMMA EndKeeps ==
    ASSUME WorkersInv, NEW s \in States, End(s)
    PROVE  WorkersInv'
<1> USE WorkersAssumption
<1>1. Types'
  <2>1. /\ phase' \in [States -> {"connecting", "listening", "running", "dead"}]
        /\ died' \subseteq States /\ stopped' \subseteq States
        /\ console' \in [States -> {"off", "reading", "busy", "writing"}]
        /\ status' \in [Work -> {"ready", "running", "done", "lost"}]
        /\ UNCHANGED <<threads, kind>>
    BY DEF End, WorkersInv, Types
  <2>2. \A w \in Work : pc'[w] \in {0, pc[w]}
    BY DEF End
  <2>3. ASSUME NEW w \in Work PROVE pc'[w] \in 0..Len(Program[kind[w]]) /\ pc'[w] \in Nat
    <3>1. kind[w] \in DOMAIN Program /\ pc[w] \in 0..Len(Program[kind[w]])
      BY DEF WorkersInv, Types
    <3>2. Len(Program[kind[w]]) \in Nat \ {0}
      BY <3>1, ProgramLength
    <3> QED BY <2>2, <3>1, <3>2
  <2>4. pc' \in [Work -> Nat]
    BY <2>3 DEF End
  <2> QED BY <2>1, <2>3, <2>4 DEF Types, WorkersInv
<1>2. PoolSize'
  <2> SUFFICES ASSUME NEW r \in States PROVE Cardinality(Busy(r)') <= threads'[r]
    BY DEF PoolSize
  <2>1. Busy(r)' \subseteq Busy(r) /\ Busy(r) \subseteq Work
    BY DEF End, Busy, Running
  <2>2. Cardinality(Busy(r)') <= Cardinality(Busy(r))
    BY <2>1, PoolFacts, FS_Subset
  <2>3. Cardinality(Busy(r)') \in Nat /\ Cardinality(Busy(r)) \in Nat
    BY <2>1, PoolFacts
  <2>4. Cardinality(Busy(r)) <= threads[r] /\ threads'[r] = threads[r] /\ threads[r] \in Nat
    BY PoolFacts DEF End, WorkersInv, PoolSize, Types
  <2> QED BY <2>2, <2>3, <2>4
<1>3. ConsoleOn'
  BY DEF End, WorkersInv, Types, ConsoleOn
<1>4. AtWork'
  <2> SUFFICES ASSUME NEW w \in Work
               PROVE  /\ status'[w] = "ready" => pc'[w] = 0
                      /\ Running(w)' => /\ pc'[w] < Len(Program[kind'[w]])
                                        /\ phase'[StateOf[w]] = "running"
                                        /\ kind'[w] \in Console => StateOf[w] \in Repl
    BY DEF AtWork
  <2>1. CASE StateOf[w] = s /\ Running(w)
    BY <2>1 DEF End, Running
  <2>2. CASE ~(StateOf[w] = s /\ Running(w))
    <3>1. /\ status'[w] = status[w] /\ pc'[w] = pc[w] /\ kind'[w] = kind[w]
          /\ Running(w)' => Running(w) /\ StateOf[w] /= s
      BY <2>2 DEF End, Running
    <3>2. StateOf[w] /= s => phase'[StateOf[w]] = phase[StateOf[w]]
      BY DEF End, WorkersInv, Types
    <3> QED BY <3>1, <3>2 DEF WorkersInv, AtWork
  <2> QED BY <2>1, <2>2
<1> QED BY <1>1, <1>2, <1>3, <1>4 DEF WorkersInv
LEMMA BeginKeeps ==
    ASSUME WorkersInv, NEW w \in Work, Begin(w)
    PROVE  WorkersInv'
<1> USE WorkersAssumption
<1> DEFINE s == StateOf[w]
<1>0. /\ s \in States /\ status[w] = "ready" /\ phase[s] = "running"
      /\ kind[w] \in Console => console[s] = "reading"
      /\ Cardinality(Colleagues(w)) < threads[s]
      /\ status' = [status EXCEPT ![w] = "running"]
      /\ console' = [console EXCEPT ![s] = IF kind[w] \in Console THEN "busy" ELSE @]
      /\ UNCHANGED <<phase, threads, kind, pc, stopped, died>>
  BY DEF Begin, Arrived, Free
<1>1. Types'
  BY <1>0 DEF WorkersInv, Types
<1>2. PoolSize'
  <2> SUFFICES ASSUME NEW r \in States PROVE Cardinality(Busy(r)') <= threads'[r]
    BY DEF PoolSize
  <2>1. CASE r = s
    <3>1. Busy(r)' = Colleagues(w) \cup {w} /\ w \notin Colleagues(w) /\ Colleagues(w) \subseteq Work
      BY <1>0, <2>1 DEF WorkersInv, Types, Busy, Colleagues, Running
    <3>2. Cardinality(Busy(r)') = Cardinality(Colleagues(w)) + 1
      BY <3>1, FS_AddElement, PoolFacts
    <3>3. Cardinality(Colleagues(w)) \in Nat /\ threads[r] \in Nat
      BY <2>1, <3>1, PoolFacts DEF WorkersInv, Types
    <3> QED BY <1>0, <2>1, <3>2, <3>3
  <2>2. CASE r /= s
    <3>1. Busy(r)' = Busy(r)
      BY <1>0, <2>2 DEF WorkersInv, Types, Busy
    <3> QED BY <1>0, <3>1 DEF WorkersInv, PoolSize
  <2> QED BY <2>1, <2>2
<1>3. ConsoleOn'
  BY <1>0 DEF WorkersInv, Types, ConsoleOn
<1>4. AtWork'
  <2>1. pc[w] = 0 /\ pc[w] < Len(Program[kind[w]])
    <3>1. Len(Program[kind[w]]) \in Nat \ {0}
      BY ProgramLength DEF WorkersInv, Types
    <3> QED BY <1>0, <3>1 DEF WorkersInv, AtWork
  <2>2. kind[w] \in Console => s \in Repl
    BY <1>0 DEF WorkersInv, ConsoleOn
  <2>3. \A v \in Work : v /= w => status'[v] = status[v]
    BY <1>0 DEF WorkersInv, Types
  <2>4. status'[w] = "running"
    BY <1>0 DEF WorkersInv, Types
  <2> QED BY <1>0, <2>1, <2>2, <2>3, <2>4 DEF WorkersInv, AtWork, Running
<1> QED BY <1>1, <1>2, <1>3, <1>4 DEF WorkersInv

LEMMA StepKeeps ==
    ASSUME WorkersInv, NEW w \in Work, Step(w)
    PROVE  WorkersInv'
<1> USE WorkersAssumption
<1> DEFINE s == StateOf[w]
           last == Len(Program[kind[w]])
<1>0. PICK n \in {pc[w] + 1, last} :
         /\ s \in States /\ Running(w)
         /\ pc' = [pc EXCEPT ![w] = n]
         /\ IF n = last
            THEN /\ status' = [status EXCEPT ![w] = "done"]
                 /\ console' = [console EXCEPT ![s] = After(w)]
            ELSE UNCHANGED <<status, console>>
         /\ UNCHANGED <<phase, threads, kind, stopped, died>>
  <2>1. PICK n \in {pc[w] + 1} \cup (IF EndsEarly(w) THEN {last} ELSE {}) :
           /\ pc' = [pc EXCEPT ![w] = n]
           /\ IF n = last
              THEN /\ status' = [status EXCEPT ![w] = "done"]
                   /\ console' = [console EXCEPT ![s] = After(w)]
              ELSE UNCHANGED <<status, console>>
    BY DEF Step
  <2>2. n \in {pc[w] + 1, last}
    OBVIOUS
  <2>3. s \in States /\ Running(w) /\ UNCHANGED <<phase, threads, kind, stopped, died>>
    BY DEF Step
  <2> QED BY <2>1, <2>2, <2>3
<1>1. /\ last \in Nat \ {0} /\ pc[w] \in Nat /\ pc[w] < last
      /\ phase[s] = "running" /\ (kind[w] \in Console => s \in Repl)
  BY <1>0, ProgramLength DEF WorkersInv, Types, AtWork
<1>2. n \in 0..last /\ n \in Nat /\ (n /= last => n < last)
  BY <1>0, <1>1
<1>3. After(w) \in {"off", console[s]} \/ (After(w) = "writing" /\ kind[w] \in Console)
  <2>1. CASE kind[w] \in {"dump", "line"}
    <3>1. After(w) = "writing"
      BY <2>1 DEF After
    <3> QED BY <2>1, <3>1 DEF Console
  <2>2. CASE kind[w] = "exit"
    <3>1. After(w) = "off"
      BY <2>2 DEF After
    <3> QED BY <3>1
  <2>3. CASE kind[w] \notin {"dump", "line", "exit"}
    <3>1. After(w) = console[s]
      BY <2>3 DEF After
    <3> QED BY <3>1
  <2> QED BY <2>1, <2>2, <2>3
<1> HIDE DEF last
<1>4. Types'
  <2>1. pc' \in [Work -> Nat] /\ \A v \in Work : pc'[v] \in 0..Len(Program[kind[v]])
    BY <1>0, <1>2 DEF WorkersInv, Types, last
  <2>2. /\ status' \in [Work -> {"ready", "running", "done", "lost"}]
        /\ console' \in [States -> {"off", "reading", "busy", "writing"}]
    <3>1. After(w) \in {"off", "reading", "busy", "writing"}
      BY <1>0, <1>3 DEF WorkersInv, Types
    <3>2. /\ status \in [Work -> {"ready", "running", "done", "lost"}]
          /\ console \in [States -> {"off", "reading", "busy", "writing"}]
      BY DEF WorkersInv, Types
    <3> QED BY <1>0, <3>1, <3>2
  <2> QED BY <1>0, <2>1, <2>2 DEF WorkersInv, Types
<1>5. \A v \in Work : status'[v] = status[v] \/ (v = w /\ status'[v] = "done")
  BY <1>0 DEF WorkersInv, Types
<1>6. PoolSize'
  <2> SUFFICES ASSUME NEW r \in States PROVE Cardinality(Busy(r)') <= threads'[r]
    BY DEF PoolSize
  <2>1. Busy(r)' \subseteq Busy(r) /\ Busy(r) \subseteq Work
    BY <1>5 DEF Busy
  <2>2. Cardinality(Busy(r)') <= Cardinality(Busy(r))
    BY <2>1, PoolFacts, FS_Subset
  <2>3. Cardinality(Busy(r)') \in Nat /\ Cardinality(Busy(r)) \in Nat
    BY <2>1, PoolFacts
  <2>4. Cardinality(Busy(r)) <= threads[r] /\ threads'[r] = threads[r] /\ threads[r] \in Nat
    BY <1>0, PoolFacts DEF WorkersInv, PoolSize, Types
  <2> QED BY <2>2, <2>3, <2>4
<1>7. ConsoleOn'
  <2>1. \A r \in States : console'[r] = console[r] \/ (r = s /\ console'[r] = After(w))
    BY <1>0 DEF WorkersInv, Types
  <2> QED BY <1>0, <1>1, <1>3, <2>1 DEF WorkersInv, ConsoleOn
<1>8. AtWork'
  <2>1. \A v \in Work : v /= w => pc'[v] = pc[v] /\ status'[v] = status[v]
    BY <1>0 DEF WorkersInv, Types
  <2>2. pc'[w] = n /\ status'[w] = IF n = last THEN "done" ELSE "running"
    BY <1>0 DEF WorkersInv, Types, Running
  <2>3. status'[w] = "running" => n < Len(Program[kind[w]])
    BY <1>2, <2>2 DEF last
  <2>4. ASSUME NEW v \in Work
        PROVE  /\ status'[v] = "ready" => pc'[v] = 0
               /\ Running(v)' => /\ pc'[v] < Len(Program[kind'[v]])
                                 /\ phase'[StateOf[v]] = "running"
                                 /\ kind'[v] \in Console => StateOf[v] \in Repl
    <3>1. CASE v = w
      BY <1>0, <1>1, <2>2, <2>3, <3>1 DEF Running
    <3>2. CASE v /= w
      BY <1>0, <2>1, <3>2 DEF WorkersInv, AtWork, Running
    <3> QED BY <3>1, <3>2
  <2> QED BY <2>4 DEF AtWork
<1> QED BY <1>4, <1>6, <1>7, <1>8 DEF WorkersInv

LEMMA WorkersStep == WorkersInv /\ [Next]_vars => WorkersInv'
<1> SUFFICES ASSUME WorkersInv, [Next]_vars PROVE WorkersInv'
  OBVIOUS
<1> USE WorkersAssumption
\* What leaves the handlers and the pools alone.
<1>a. ASSUME UNCHANGED <<threads, kind, status, pc>>, Types', ConsoleOn',
             \A s \in States : phase[s] = "running" => phase'[s] = "running"
      PROVE  WorkersInv'
  <2>1. PoolSize'
    BY <1>a DEF WorkersInv, PoolSize, Busy
  <2>2. AtWork'
    BY <1>a DEF WorkersInv, AtWork, Running
  <2> QED BY <1>a, <2>1, <2>2 DEF WorkersInv
<1>1. ASSUME NEW s \in States, Listen(s) PROVE WorkersInv'
  <2>1. Types' /\ ConsoleOn'
    BY <1>1 DEF Listen, WorkersInv, Types, ConsoleOn
  <2>2. \A r \in States : phase[r] = "running" => phase'[r] = "running"
    BY <1>1 DEF Listen, WorkersInv, Types
  <2> QED BY <1>1, <1>a, <2>1, <2>2 DEF Listen
<1>2. ASSUME NEW s \in States, RunThreads(s) \/ Restart(s) PROVE WorkersInv'
  <2>1. Types' /\ ConsoleOn'
    <3>1. CASE RunThreads(s)
      BY <3>1 DEF RunThreads, WorkersInv, Types, ConsoleOn
    <3>2. CASE Restart(s)
      BY <3>2 DEF Restart, WorkersInv, Types, ConsoleOn
    <3> QED BY <1>2, <3>1, <3>2
  <2>2. \A r \in States : phase[r] = "running" => phase'[r] = "running"
    BY <1>2 DEF RunThreads, Restart, WorkersInv, Types
  <2> QED BY <1>2, <1>a, <2>1, <2>2 DEF RunThreads, Restart
<1>3. ASSUME NEW s \in States, Written(s) \/ ConsoleEnds(s) \/ Stop(s) PROVE WorkersInv'
  <2>1. Types' /\ ConsoleOn'
    <3>1. CASE Written(s)
      BY <3>1 DEF Written, WorkersInv, Types, ConsoleOn
    <3>2. CASE ConsoleEnds(s)
      BY <3>2 DEF ConsoleEnds, WorkersInv, Types, ConsoleOn
    <3>3. CASE Stop(s)
      BY <3>3 DEF Stop, WorkersInv, Types, ConsoleOn
    <3> QED BY <1>3, <3>1, <3>2, <3>3
  <2> QED BY <1>3, <1>a, <2>1 DEF Written, ConsoleEnds, Stop
<1>4. ASSUME NEW s \in States, Die(s) PROVE WorkersInv'
  BY <1>4, EndKeeps DEF Die
<1>5. ASSUME NEW w \in Work, PrintFails(w) PROVE WorkersInv'
  BY <1>5, EndKeeps DEF PrintFails
<1>6. CASE UNCHANGED vars
  <2>1. Types' /\ ConsoleOn'
    BY <1>6 DEF vars, WorkersInv, Types, ConsoleOn
  <2> QED BY <1>6, <1>a, <2>1 DEF vars
<1> QED BY <1>1, <1>2, <1>3, <1>4, <1>5, <1>6, BeginKeeps, StepKeeps DEF Next, Start

LEMMA WorkersHolds == Spec => []WorkersInv
BY WorkersInit, WorkersStep, PTL DEF Spec

(* A pool never runs more handlers than it has threads, and a console is    *)
(* open only where one was asked for and while the process listens.         *)
THEOREM WorkersTypeCorrect == Spec => []TypeOK
<1>1. WorkersInv => TypeOK
  <2>1. \A s \in States : {w \in Work : status[w] = "running" /\ StateOf[w] = s} = Busy(s)
    BY DEF Busy
  <2> QED BY <2>1 DEF WorkersInv, Types, PoolSize, ConsoleOn, TypeOK
<1> QED BY <1>1, WorkersHolds, PTL

(* A handler that holds a lock is about to unlock it, so it waits neither   *)
(* for another lock nor for a peer nor for the console: no order in which   *)
(* handlers lock can stop the threads of a state.                           *)
THEOREM NeverWaitsLocked == Spec => []LocksHeldBriefly
<1>1. WorkersInv => LocksHeldBriefly
  <2> SUFFICES ASSUME WorkersInv, NEW w \in Work, NEW op \in {"shared", "unique"},
                      NEW t \in Table, Holds(w, op, t)
               PROVE  MayStep(w)
    BY DEF LocksHeldBriefly, Table
  <2> DEFINE p == Program[kind[w]]
  <2>1. /\ Fine(p) /\ pc[w] \in Nat /\ Len(p) \in Nat /\ pc[w] < Len(p)
    BY ProgramFine, ProgramLength DEF WorkersInv, Types, AtWork, Holds
  <2>2. PICK i \in 1..pc[w] : /\ p[i] = [op |-> op, on |-> t]
                              /\ \A j \in (i + 1)..pc[w] : p[j] /= Unlock(t)
    BY DEF Holds
  <2> HIDE DEF p
  <2>3. p[i + 1] = Unlock(t)
    BY <2>1, <2>2 DEF Fine, Paired
  <2>4. i = pc[w]
    BY <2>1, <2>2, <2>3
  <2>5. p[pc[w] + 1].op = "unlock"
    BY <2>3, <2>4 DEF Unlock
  <2> QED BY <2>5 DEF MayStep, p
<1> QED BY <1>1, WorkersHolds, PTL
-----------------------------------------------------------------------------
(* Three threads are enough.                                               *)

\* Program p has no step o.
Without(p, o) == p \in Seq(Instruction) /\ \A i \in 1..Len(p) : p[i].op /= o

LEMMA WithoutPair ==
    ASSUME NEW o \in {"connect", "print"}
    PROVE  /\ \A t \in Table : Without(Reading(t), o) /\ Without(Writing(t), o)
           /\ Without(<<Return>>, o)
           /\ o = "print" => Without(<<ConnectTo>>, o)
           /\ o = "connect" => Without(<<Output>>, o)
<1>1. ASSUME NEW t \in Table PROVE Without(Reading(t), o) /\ Without(Writing(t), o)
  <2>1. /\ Shared(t) \in Instruction /\ Shared(t).op = "shared"
        /\ Unique(t) \in Instruction /\ Unique(t).op = "unique"
        /\ Unlock(t) \in Instruction /\ Unlock(t).op = "unlock"
    BY DEF Instruction, Shared, Unique, Unlock
  <2>2. ASSUME NEW x \in Instruction, x.op \in {"shared", "unique"}
        PROVE  Without(<<x, Unlock(t)>>, o)
    <3>1. /\ <<x, Unlock(t)>> \in Seq(Instruction) /\ Len(<<x, Unlock(t)>>) = 2
          /\ <<x, Unlock(t)>>[1] = x /\ <<x, Unlock(t)>>[2] = Unlock(t)
      BY <2>1
    <3> QED BY <2>1, <2>2, <3>1 DEF Without
  <2> QED BY <2>1, <2>2 DEF Reading, Writing
<1>2. ASSUME NEW x \in {ConnectTo, Output, Return}, x.op /= o PROVE Without(<<x>>, o)
  <2>1. <<x>> \in Seq(Instruction) /\ Len(<<x>>) = 1 /\ <<x>>[1] = x
    BY DEF Instruction
  <2> QED BY <1>2, <2>1 DEF Without
<1>3. ConnectTo.op = "connect" /\ Output.op = "print" /\ Return.op = "return"
  BY DEF ConnectTo, Output, Return
<1> QED BY <1>1, <1>2, <1>3

LEMMA WithoutConcat ==
    ASSUME NEW o, NEW p, NEW q, Without(p, o), Without(q, o)
    PROVE  Without(p \o q, o)
<1>1. /\ p \o q \in Seq(Instruction) /\ Len(p \o q) = Len(p) + Len(q)
      /\ Len(p) \in Nat /\ Len(q) \in Nat
      /\ \A i \in 1..Len(p \o q) : (p \o q)[i] = IF i <= Len(p) THEN p[i] ELSE q[i - Len(p)]
  BY DEF Without
<1>2. ASSUME NEW i \in 1..Len(p \o q) PROVE (p \o q)[i].op /= o
  <2>1. CASE i <= Len(p)
    BY <1>1, <2>1 DEF Without
  <2>2. CASE i > Len(p)
    <3>1. i - Len(p) \in 1..Len(q) /\ (p \o q)[i] = q[i - Len(p)]
      BY <1>1, <2>2
    <3> QED BY <3>1 DEF Without
  <2> QED BY <1>1, <2>1, <2>2
<1> QED BY <1>1, <1>2 DEF Without

\* Only introductions wait for a peer, only dumps for the console.
LEMMA WhoWaits ==
    ASSUME NEW k \in DOMAIN Program, NEW i \in 1..Len(Program[k])
    PROVE  /\ Program[k][i].op = "connect" => k = "session"
           /\ Program[k][i].op = "print" => k = "dump"
<1>1. ASSUME NEW o \in {"connect", "print"}
      PROVE  \A h \in DOMAIN Program \ {"session", "dump"} : Without(Program[h], o)
  <2> USE WithoutPair, WithoutConcat DEF Table
  <2>1. Without(ClientAccepted, o) /\ Without(ClientGone, o)
    BY DEF ClientAccepted, ClientGone
  <2>2. Without(SessionAccepted, o) /\ Without(SessionGone, o)
    BY DEF SessionAccepted, SessionGone
  <2>3. Without(RegisterAgain, o)
    BY DEF RegisterAgain
  <2>4. Without(Register, o)
    BY <2>3 DEF Register
  <2>5. Without(Subscription, o) /\ Without(Broadcast, o) /\ Without(Send, o) /\ Without(Publish, o)
    BY DEF Subscription, Broadcast, Send, Publish
  <2> QED BY <2>1, <2>2, <2>3, <2>4, <2>5 DEF Program
<1>2. Without(Program.session, "print")
  <2>1. Without(Reading("sessions") \o <<ConnectTo>>, "print")
    BY WithoutPair, WithoutConcat DEF Table
  <2>2. Without(Introduction, "print")
    BY <2>1, WithoutPair, WithoutConcat DEF Introduction, Table
  <2> QED BY <2>2 DEF Program
<1>3. Without(Program.dump, "connect")
  <2> USE WithoutPair, WithoutConcat DEF Table
  <2>1. Without(Reading("sessions") \o <<Output>>, "connect")
    OBVIOUS
  <2>2. Without(Reading("sessions") \o <<Output>> \o Reading("clients"), "connect")
    BY <2>1
  <2>3. Without(Reading("sessions") \o <<Output>> \o Reading("clients") \o <<Output>>, "connect")
    BY <2>2
  <2>4. Without(Reading("sessions") \o <<Output>> \o Reading("clients") \o <<Output>>
                \o Reading("subscriptions"), "connect")
    BY <2>3
  <2>5. Without(Dump, "connect")
    BY <2>4 DEF Dump
  <2> QED BY <2>5 DEF Program
<1>4. /\ k /= "session" => Without(Program[k], "connect")
      /\ k /= "dump" => Without(Program[k], "print")
  BY <1>1, <1>2, <1>3
<1> QED BY <1>4 DEF Without

\* Handlers of one strand, and lines of one console, are run one at a time.
OneByOne ==
    /\ \A w \in Work : kind[w] \in Kinds[w]
    /\ \A w \in Work : Running(w) /\ kind[w] \in Console => console[StateOf[w]] = "busy"
    /\ \A v, w \in Work : Running(v) /\ Running(w) /\ StateOf[v] = StateOf[w] /\ v /= w =>
          /\ Strand[v] /= Strand[w]
          /\ ~(kind[v] \in Console /\ kind[w] \in Console)

LEMMA OneByOneInit == Init => OneByOne
BY DEF Init, OneByOne, Running

\* Whoever is at work was so before, and his console has not changed.
LEMMA OneByOneStays ==
    ASSUME OneByOne, UNCHANGED kind, \A w \in Work : Running(w)' => Running(w),
           \A w \in Work : Running(w)' /\ kind[w] \in Console =>
               console'[StateOf[w]] = console[StateOf[w]]
    PROVE  OneByOne'
BY DEF OneByOne

LEMMA OneByOneStep == WorkersInv /\ OneByOne /\ [Next]_vars => OneByOne'
<1> SUFFICES ASSUME WorkersInv, OneByOne, [Next]_vars PROVE OneByOne'
  OBVIOUS
<1> USE WorkersAssumption
<1>1. ASSUME NEW s \in States, Listen(s) PROVE OneByOne'
  <2>1. \A w \in Work : Running(w) => StateOf[w] /= s
    BY <1>1 DEF Listen, WorkersInv, AtWork
  <2>2. \A r \in States : r /= s => console'[r] = console[r]
    BY <1>1 DEF Listen, WorkersInv, Types
  <2> QED BY <1>1, <2>1, <2>2, OneByOneStays DEF Listen, Running
<1>2. ASSUME NEW s \in States, RunThreads(s) \/ Restart(s) \/ Stop(s) PROVE OneByOne'
  <2>1. UNCHANGED <<kind, status, console>>
    BY <1>2 DEF RunThreads, Restart, Stop
  <2> QED BY <2>1, OneByOneStays DEF Running
<1>3. ASSUME NEW s \in States, Written(s) \/ ConsoleEnds(s) PROVE OneByOne'
  <2>1. UNCHANGED <<kind, status>> /\ console[s] /= "busy"
    BY <1>3 DEF Written, ConsoleEnds
  <2>2. \A r \in States : r /= s => console'[r] = console[r]
    BY <1>3 DEF Written, ConsoleEnds, WorkersInv, Types
  <2>3. \A w \in Work : Running(w) /\ kind[w] \in Console => StateOf[w] /= s
    BY <2>1 DEF OneByOne
  <2> QED BY <2>1, <2>2, <2>3, OneByOneStays DEF Running
<1>4. ASSUME NEW s \in States, End(s) PROVE OneByOne'
  <2>1. \A w \in Work : Running(w)' => Running(w) /\ StateOf[w] /= s
    BY <1>4 DEF End, Running
  <2>2. \A r \in States : r /= s => console'[r] = console[r]
    BY <1>4 DEF End, WorkersInv, Types
  <2> QED BY <1>4, <2>1, <2>2, OneByOneStays DEF End
<1>5. ASSUME NEW w \in Work, Begin(w) PROVE OneByOne'
  <2>1. /\ UNCHANGED kind /\ StateOf[w] \in States /\ ~Running(w)
        /\ kind[w] \in Console => console[StateOf[w]] = "reading"
        /\ \A v \in Colleagues(w) : Strand[v] /= Strand[w]
    BY <1>5 DEF Begin, Arrived, Free, Running
  <2>2. \A v \in Work : Running(v)' => Running(v) \/ v = w
    BY <1>5 DEF Begin, Running, WorkersInv, Types
  <2>3. /\ kind[w] \in Console => console'[StateOf[w]] = "busy"
        /\ kind[w] \notin Console => console' = console
        /\ \A r \in States : r /= StateOf[w] => console'[r] = console[r]
    BY <1>5, <2>1 DEF Begin, WorkersInv, Types
  <2>4. ASSUME NEW v \in Work, Running(v), StateOf[v] = StateOf[w], v /= w
        PROVE  /\ Strand[v] /= Strand[w] /\ Strand[w] /= Strand[v]
               /\ ~(kind[v] \in Console /\ kind[w] \in Console)
    <3>1. v \in Colleagues(w)
      BY <2>4 DEF Colleagues
    <3> QED BY <2>1, <2>4, <3>1 DEF OneByOne
  <2>5. ASSUME NEW v \in Work, Running(v)', kind[v] \in Console
        PROVE  console'[StateOf[v]] = "busy"
    <3>1. CASE StateOf[v] = StateOf[w]
      BY <2>1, <2>2, <2>3, <2>5, <3>1 DEF OneByOne
    <3>2. CASE StateOf[v] /= StateOf[w]
      BY <2>2, <2>3, <2>5, <3>2 DEF OneByOne
    <3> QED BY <3>1, <3>2
  <2>6. ASSUME NEW u \in Work, NEW v \in Work, Running(u)', Running(v)',
               StateOf[u] = StateOf[v], u /= v
        PROVE  Strand[u] /= Strand[v] /\ ~(kind[u] \in Console /\ kind[v] \in Console)
    <3>1. CASE u = w
      BY <2>2, <2>4, <2>6, <3>1
    <3>2. CASE v = w
      BY <2>2, <2>4, <2>6, <3>2
    <3>3. CASE u /= w /\ v /= w
      BY <2>2, <2>6, <3>3 DEF OneByOne
    <3> QED BY <3>1, <3>2, <3>3
  <2> QED BY <2>1, <2>5, <2>6 DEF OneByOne
<1>6. ASSUME NEW w \in Work, Step(w) PROVE OneByOne'
  <2>1. /\ UNCHANGED kind /\ Running(w)
        /\ \/ UNCHANGED <<status, console>>
           \/ /\ status' = [status EXCEPT ![w] = "done"]
              /\ console' = [console EXCEPT ![StateOf[w]] = After(w)]
    BY <1>6 DEF Step
  <2>2. CASE UNCHANGED <<status, console>>
    BY <2>1, <2>2, OneByOneStays DEF Running
  <2>3. CASE /\ status' = [status EXCEPT ![w] = "done"]
             /\ console' = [console EXCEPT ![StateOf[w]] = After(w)]
    <3>1. \A v \in Work : Running(v)' => Running(v) /\ v /= w
      BY <2>3 DEF Running, WorkersInv, Types
    <3>2. kind[w] \notin Console => After(w) = console[StateOf[w]]
      BY DEF After, Console
    <3>3. /\ \A r \in States : r /= StateOf[w] => console'[r] = console[r]
          /\ console'[StateOf[w]] = After(w)
      BY <2>3 DEF WorkersInv, Types
    <3>4. ASSUME NEW v \in Work, Running(v)', kind[v] \in Console
          PROVE  console'[StateOf[v]] = console[StateOf[v]]
      <4>1. CASE StateOf[v] = StateOf[w]
        <5>1. kind[w] \notin Console
          BY <2>1, <3>1, <3>4, <4>1 DEF OneByOne
        <5> QED BY <3>2, <3>3, <4>1, <5>1
      <4>2. CASE StateOf[v] /= StateOf[w]
        BY <3>3, <4>2
      <4> QED BY <4>1, <4>2
    <3> QED BY <2>1, <3>1, <3>4, OneByOneStays
  <2> QED BY <2>1, <2>2, <2>3
<1>7. CASE UNCHANGED vars
  BY <1>7, OneByOneStays DEF vars, Running
<1> QED BY <1>1, <1>2, <1>3, <1>4, <1>5, <1>6, <1>7 DEF Next, Start, Die, PrintFails

\* A pool of more than two threads that are all busy has one that goes on.
ThreadsSuffice ==
    \A s \in States : threads[s] > 2 /\ Cardinality(Busy(s)) = threads[s] =>
        \E w \in Busy(s) : MayStep(w)

\* A set no two of whose members differ.
LEMMA AtMostOne ==
    ASSUME NEW S \in SUBSET Work, \A v, w \in S : v = w
    PROVE  IsFiniteSet(S) /\ Cardinality(S) \in {0, 1}
<1>1. CASE S = {}
  BY <1>1, FS_EmptySet
<1>2. CASE S /= {}
  <2>1. PICK w \in S : S = {w}
    BY <1>2
  <2> QED BY <2>1, FS_Singleton
<1> QED BY <1>1, <1>2

(* Three threads are enough: of the handlers of one state at most one is an *)
(* introduction that waits for a peer, at most one a dump that waits for    *)
(* its console, and who waits for a lock waits for a handler that goes on.  *)
(* So a pool of three that is full never stands still, whatever the peers   *)
(* and the consoles do, while two threads may wait for ever.                *)
THEOREM ThreeThreadsGoOn == Spec => []ThreadsSuffice
<1>1. WorkersInv /\ OneByOne /\ LocksHeldBriefly => ThreadsSuffice
  <2> SUFFICES ASSUME WorkersInv, OneByOne, LocksHeldBriefly, NEW s \in States, threads[s] > 2,
                      Cardinality(Busy(s)) = threads[s], \A w \in Busy(s) : ~MayStep(w)
               PROVE  FALSE
    BY DEF ThreadsSuffice
  <2>1. ASSUME NEW w \in Busy(s) PROVE kind[w] \in {"session", "dump"}
    <3> DEFINE step == Program[kind[w]][pc[w] + 1]
    <3>1. w \in Work /\ Running(w) /\ StateOf[w] = s
      BY DEF Busy, Running
    <3>2. /\ kind[w] \in DOMAIN Program /\ pc[w] \in Nat
          /\ pc[w] < Len(Program[kind[w]]) /\ Len(Program[kind[w]]) \in Nat
          /\ Program[kind[w]] \in Seq(Instruction)
      BY <3>1, ProgramFine, ProgramLength DEF WorkersInv, Types, AtWork, Fine
    <3>3. pc[w] + 1 \in 1..Len(Program[kind[w]])
      BY <3>2
    <3>4. step \in Instruction
      BY <3>2, <3>3
    <3>5. /\ step.op = "connect" => kind[w] = "session"
          /\ step.op = "print" => kind[w] = "dump"
      BY <3>2, <3>3, WhoWaits
    <3>6. ~MayStep(w)
      OBVIOUS
    <3>7. step.op \notin {"shared", "unique"}
      <4> SUFFICES ASSUME step.op \in {"shared", "unique"} PROVE FALSE
        OBVIOUS
      <4>1. PICK v \in Colleagues(w), op \in {"shared", "unique"} : Holds(v, op, step.on)
        BY <3>6 DEF MayStep
      <4>2. step.on \in {"sessions", "clients", "subscriptions"}
        BY <3>4 DEF Instruction, Table, ConnectTo, Output, Return
      <4>3. v \in Busy(s) /\ v \in Work
        BY <3>1 DEF Colleagues, Busy, Running
      <4> HIDE DEF step
      <4>4. MayStep(v)
        BY <4>1, <4>2, <4>3 DEF LocksHeldBriefly
      <4> QED BY <4>3, <4>4
    <3>8. step.op \in {"connect", "print"}
      BY <3>6, <3>7 DEF MayStep
    <3> QED BY <3>5, <3>8
  <2> DEFINE intro == {w \in Busy(s) : kind[w] = "session"}
             dump == {w \in Busy(s) : kind[w] = "dump"}
  <2>2. Busy(s) = intro \cup dump
    BY <2>1
  <2>3. /\ \A w \in Busy(s) : w \in Work /\ Running(w) /\ StateOf[w] = s
        /\ intro \in SUBSET Work /\ dump \in SUBSET Work
    BY DEF Busy, Running
  <2>4. \A v, w \in intro : v = w
    <3> SUFFICES ASSUME NEW v \in intro, NEW w \in intro, v /= w PROVE FALSE
      OBVIOUS
    <3>1. "session" \in Kinds[v] \cap Kinds[w] /\ StateOf[v] = StateOf[w]
      BY <2>3 DEF OneByOne
    <3>2. Strand[v] = Strand[w]
      BY <2>3, <3>1, WorkersAssumption
    <3> QED BY <2>3, <3>2 DEF OneByOne
  <2>5. \A v, w \in dump : v = w
    BY <2>3 DEF OneByOne, Console
  <2> HIDE DEF intro, dump
  <2>6. /\ IsFiniteSet(intro) /\ Cardinality(intro) \in {0, 1}
        /\ IsFiniteSet(dump) /\ Cardinality(dump) \in {0, 1}
    BY <2>3, <2>4, <2>5, AtMostOne
  <2>7. Cardinality(intro \cup dump) <= Cardinality(intro) + Cardinality(dump)
    <3>1. Cardinality(intro \cup dump) =
              Cardinality(intro) + Cardinality(dump) - Cardinality(intro \cap dump)
      BY <2>6, FS_Union
    <3>2. Cardinality(intro \cap dump) \in Nat
      BY <2>3, PoolFacts
    <3> QED BY <2>6, <3>1, <3>2
  <2>8. Cardinality(Busy(s)) \in Nat
    BY <2>3, PoolFacts
  <2> QED BY <2>2, <2>6, <2>7, <2>8
<1>2. Spec => []OneByOne
  <2>1. Init => WorkersInv /\ OneByOne
    BY WorkersInit, OneByOneInit
  <2>2. (WorkersInv /\ OneByOne) /\ [Next]_vars => (WorkersInv /\ OneByOne)'
    BY WorkersStep, OneByOneStep
  <2> QED BY <2>1, <2>2, PTL DEF Spec
<1> QED BY <1>1, <1>2, WorkersHolds, NeverWaitsLocked, PTL
=============================================================================
