------------------------------ MODULE Directory ------------------------------
(***************************************************************************)
(* What the states of a cluster promise each other about clients: every    *)
(* state keeps a list of the clients it knows, each put down under the end *)
(* of a link through which it was learnt of (under the state's own id if   *)
(* it is connected here).  A state learns only of clients that have been   *)
(* connected, and only over a link that leads to their own state; an entry *)
(* never moves from one link to another; and nobody is dropped from a list *)
(* without a reason: the client has left, or the link is over.             *)
(* Replication, with its messages, copies and destructors, implements it.  *)
(***************************************************************************)
CONSTANTS
    States,
    Session,        \* the ends of the links between them
    owner,          \* owner[e]: the state that holds end e
    peer,           \* peer[e]: the other end of the link
    Clients,
    Home,           \* Home[c]: the state c connects to
    None

VARIABLES
    came,           \* the clients that have connected so far
    row,            \* row[s][c]: where s has the entry of c from, None if it has none
    over            \* the ends of links that are over

vars == <<came, row, over>>

TypeOK ==
    /\ came \subseteq Clients
    /\ row \in [States -> [Clients -> States \cup Session \cup {None}]]
    /\ over \subseteq Session

Init ==
    /\ came = {}
    /\ row = [s \in States |-> [c \in Clients |-> None]]
    /\ over = {}

Left(c) == c \in came /\ row[Home[c]][c] = None

Come(c) ==
    /\ c \notin came
    /\ came' = came \cup {c}
    /\ row' = [row EXCEPT ![Home[c]][c] = Home[c]]
    /\ UNCHANGED over

\* The state of a client removes its own entry first.
Go(c) ==
    /\ row[Home[c]][c] = Home[c]
    /\ row' = [row EXCEPT ![Home[c]][c] = None]
    /\ UNCHANGED <<came, over>>

Learn(e, c) ==
    /\ c \in came
    /\ owner[peer[e]] = Home[c]
    /\ e \notin over
    /\ row[owner[e]][c] = None
    /\ row' = [row EXCEPT ![owner[e]][c] = e]
    /\ UNCHANGED <<came, over>>

\* There is a reason for s to drop the entry of c.
Stale(s, c) == Left(c) \/ row[s][c] \in over

Forget(s, gone) ==
    /\ gone /= {}
    /\ \A c \in gone : s /= Home[c] /\ row[s][c] /= None /\ Stale(s, c)
    /\ row' = [row EXCEPT ![s] = [c \in Clients |-> IF c \in gone THEN None ELSE @[c]]]
    /\ UNCHANGED <<came, over>>

End(e) ==
    /\ e \notin over
    /\ over' = over \cup {e}
    /\ UNCHANGED <<came, row>>

Next ==
    \/ \E c \in Clients : Come(c) \/ Go(c)
    \/ \E e \in Session : End(e) \/ \E c \in Clients : Learn(e, c)
    \/ \E s \in States, gone \in SUBSET Clients : Forget(s, gone)

Spec == Init /\ [][Next]_vars
=============================================================================
