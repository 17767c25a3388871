--------------------------- MODULE MCReplication ----------------------------
(***************************************************************************)
(* Instances of Replication.  State B was started as a node of A, so b is  *)
(* the end that opened the link and a the end that accepted it; b2 and a2  *)
(* are the ends of a second link of the same pair, which session_handler   *)
(* opens when both states get introduced to each other.                    *)
(***************************************************************************)
EXTENDS Replication, TLC

CONSTANTS A, B,             \* the states
          a, b, a2, b2,     \* the ends of the links
          x, y,             \* clients: x of A, y of B
          ch                \* a channel

MCStates == {A, B}

OneLink  == {a, b}
TwoLinks == {a, b, a2, b2}

\* The same functions serve both sets of links.
MCOwner1 == (a :> A) @@ (b :> B)
MCPeer1  == (a :> b) @@ (b :> a)
MCOwner2 == MCOwner1 @@ (a2 :> A) @@ (b2 :> B)
MCPeer2  == MCPeer1 @@ (a2 :> b2) @@ (b2 :> a2)

MCHome1 == (x :> A)
MCHomeB == (y :> B)
=============================================================================
