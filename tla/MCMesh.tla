------------------------------- MODULE MCMesh -------------------------------
(* Instances of Mesh: B and C are nodes of A (star), or C is a node of B    *)
(* and B of A (chain); or C is B started again after its death.             *)
EXTENDS Mesh, TLC

CONSTANTS A, B, C

MCStates == {A, B, C}
MCStar  == (A :> None) @@ (B :> A) @@ (C :> A)
MCChain == (A :> None) @@ (B :> A) @@ (C :> B)

MCNobody == [s \in MCStates |-> None]
MCAgain  == [s \in MCStates |-> IF s = C THEN B ELSE None]

MCNone   == {MCNobody}
MCEither == {MCNobody, MCAgain}
=============================================================================
