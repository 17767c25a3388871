----------------------------- MODULE MCWorkers ------------------------------
(***************************************************************************)
(* An instance of Workers: B and C are nodes of A and are introduced to    *)
(* each other.  C has one thread, B one or three, and a console.           *)
(***************************************************************************)
EXTENDS Workers, TLC

CONSTANTS A, B, C,
          toC, toB,         \* introductions, at B and at C
          line,             \* a line read by the console of B
          other             \* any other handler of B

MCStates == {A, B, C}
MCSeed == (A :> None) @@ (B :> A) @@ (C :> A)
MCThreads == (A :> {1}) @@ (B :> {1, 3}) @@ (C :> {1})

MCWork == {toC, toB, line, other}
MCStateOf == [w \in MCWork |-> IF w = toB THEN C ELSE B]
MCTo == [w \in MCWork |-> CASE w = toB -> B [] w = toC -> C [] OTHER -> None]
MCKinds ==
    [w \in MCWork |->
        CASE w \in {toC, toB} -> {"session"}
          [] w = line -> {"dump", "exit"}
          [] OTHER -> {"session_gone", "register"}]
MCStrand == [w \in MCWork |-> w]
=============================================================================
