----------------------------- MODULE MCDelivery -----------------------------
(* Instances of Delivery: state B is a node of A, and C of both.  The last  *)
(* of the three has no client: it could only pass messages on.              *)
EXTENDS Delivery, TLC

CONSTANTS A, B, C, x, x2, y, ch

MCPair == {<<B, A>>}
MCMesh == {<<B, A>>, <<C, A>>, <<C, B>>}
MCHome == (x :> A) @@ (x2 :> A) @@ (y :> B)
MCHomePair == (x :> A) @@ (y :> B)
=============================================================================
