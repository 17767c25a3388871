------------------------------ MODULE MCOutbox ------------------------------
(***************************************************************************)
(* Outbox with two threads that send: enough for one to overtake the other *)
(* between is_open() and post, for a message to be posted while a write is *)
(* outstanding, and, with two messages each, for a queue of several.       *)
(***************************************************************************)
EXTENDS Outbox

CONSTANTS t1, t2

MCThreads == {t1, t2}

=============================================================================
