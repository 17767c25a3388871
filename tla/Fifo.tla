-------------------------------- MODULE Fifo --------------------------------
(***************************************************************************)
(* What a websocket of this program promises its users: a one-way channel  *)
(* that takes messages from any thread, hands them to the peer in the      *)
(* order in which it took them, each once, and keeps doing so until it     *)
(* goes down.  Once down it delivers nothing more and never comes back.    *)
(* Outbox, the send queue of session.cpp and client.cpp, implements it.    *)
(***************************************************************************)
EXTENDS Sequences

CONSTANT Msg            \* the messages that may be sent

VARIABLES pending,      \* taken and not yet handed to the peer, oldest first
          delivered,    \* handed to the peer, oldest first
          up            \* the connection has not failed or been closed

vars == <<pending, delivered, up>>

TypeOK ==
    /\ pending \in Seq(Msg)
    /\ delivered \in Seq(Msg)
    /\ up \in BOOLEAN

Init ==
    /\ pending = <<>>
    /\ delivered = <<>>
    /\ up = TRUE

\* A message may still be taken after the channel went down: it is lost.
Take(m) ==
    /\ pending' = Append(pending, m)
    /\ UNCHANGED <<delivered, up>>

Deliver ==
    /\ up
    /\ pending /= <<>>
    /\ delivered' = Append(delivered, Head(pending))
    /\ pending' = Tail(pending)
    /\ UNCHANGED up

GoDown ==
    /\ up
    /\ up' = FALSE
    /\ UNCHANGED <<pending, delivered>>

Next == (\E m \in Msg : Take(m)) \/ Deliver \/ GoDown

Spec == Init /\ [][Next]_vars

\* What is pending is delivered, unless the channel goes down first.
LiveSpec == Spec /\ WF_vars(Deliver)
=============================================================================
