------------------------------- MODULE Outbox -------------------------------
(***************************************************************************)
(* The send queue every websocket of the program has: session::send,       *)
(* on_send and on_write (session.cpp) and their twins in client.cpp.       *)
(*                                                                         *)
(* Any io thread may call send.  It looks at is_open() and, in a second    *)
(* step, posts on_send to the strand of the socket: the socket may close   *)
(* in between.  The strand runs on_send and on_write one at a time.        *)
(* async_write is an operation of the network: it is outstanding from the  *)
(* moment it is started until its completion handler on_write has run, and *)
(* while it is, the buffer it was given must stay alive (it is owned by    *)
(* the front of queue_) and no other async_write may be started.           *)
(***************************************************************************)
EXTENDS Naturals, Sequences

CONSTANTS Threads,      \* the threads that call send
          MaxSends,     \* bound: how many messages each of them sends
          Nothing       \* no message

\* The k-th message of thread t is <<t, k>>, so that every message is unique.
Msg == Threads \X (1..MaxSends)

ASSUME OutboxAssumption ==
    /\ MaxSends \in Nat
    /\ Nothing \notin Msg

VARIABLES
    sent,           \* sent[t]: how many times t has called send
    held,           \* held[t]: the message t saw is_open() for and has not posted
    strand,         \* the on_send handlers posted to the strand, oldest first
    queue,          \* queue_
    outstanding,    \* the async_writes started and not completed
    wire,           \* what the peer got, oldest first
    conn,           \* "handshake", "open" or "closed"; is_open() is "open"
    guarded         \* whose queue it is.  TRUE: client.cpp, which asks is_open()
                    \*   again before each async_write; FALSE: session.cpp

vars == <<sent, held, strand, queue, outstanding, wire, conn, guarded>>

Results == {"pending", "written", "failed"}
Write == [msg : Msg, result : Results]

TypeOK ==
    /\ sent \in [Threads -> 0..MaxSends]
    /\ held \in [Threads -> Msg \cup {Nothing}]
    /\ strand \in Seq(Msg)
    /\ queue \in Seq(Msg)
    /\ outstanding \in Seq(Write)
    /\ wire \in Seq(Msg)
    /\ conn \in {"handshake", "open", "closed"}
    /\ guarded \in BOOLEAN

Init ==
    /\ sent = [t \in Threads |-> 0]
    /\ held = [t \in Threads |-> Nothing]
    /\ strand = <<>>
    /\ queue = <<>>
    /\ outstanding = <<>>
    /\ wire = <<>>
    /\ conn = "handshake"
    /\ guarded \in BOOLEAN

-----------------------------------------------------------------------------
(* The callers of send.                                                    *)

\* send, up to and including is_open(): a message for a socket that is not
\* open is dropped without a word to the caller.
Check(t) ==
    /\ held[t] = Nothing
    /\ sent[t] < MaxSends
    /\ sent' = [sent EXCEPT ![t] = @ + 1]
    /\ held' = [held EXCEPT ![t] = IF conn = "open" THEN <<t, sent[t] + 1>>
                                                    ELSE Nothing]
    /\ UNCHANGED <<strand, queue, outstanding, wire, conn, guarded>>

\* The rest of send: post on_send.
Post(t) ==
    /\ held[t] /= Nothing
    /\ strand' = Append(strand, held[t])
    /\ held' = [held EXCEPT ![t] = Nothing]
    /\ UNCHANGED <<sent, queue, outstanding, wire, conn, guarded>>

-----------------------------------------------------------------------------
(* The handlers of the strand.                                             *)

\* queue_.front(): reading it from an empty queue is undefined.
Front(q) == IF q = <<>> THEN Nothing ELSE Head(q)

\* The outstanding writes once async_write(queue_.front()) has been called
\* with queue q, when the caller of async_write gets that far.
Started(writes, q) ==
    IF guarded /\ conn /= "open"
    THEN writes
    ELSE Append(writes, [msg |-> Front(q), result |-> "pending"])

\* Mutant of OnSend: every message starts a write of its own.
OnSendEager ==
    /\ strand /= <<>>
    /\ strand' = Tail(strand)
    /\ queue' = Append(queue, Head(strand))
    /\ outstanding' = Started(outstanding, queue')
    /\ UNCHANGED <<sent, held, wire, conn, guarded>>

\* on_send: only the message that finds the queue empty starts a write.
OnSend ==
    /\ strand /= <<>>
    /\ strand' = Tail(strand)
    /\ queue' = Append(queue, Head(strand))
    /\ outstanding' = IF Len(queue') > 1 THEN outstanding
                                         ELSE Started(outstanding, queue')
    /\ UNCHANGED <<sent, held, wire, conn, guarded>>

\* Mutants of OnWritten: no look at whether the queue is empty; no next write;
\* the newest message erased instead of the oldest.
OnWrittenUnchecked ==
    /\ outstanding /= <<>>
    /\ Head(outstanding).result = "written"
    /\ queue' = Tail(queue)
    /\ outstanding' = Started(Tail(outstanding), queue')
    /\ UNCHANGED <<sent, held, strand, wire, conn, guarded>>

OnWrittenOnce ==
    /\ outstanding /= <<>>
    /\ Head(outstanding).result = "written"
    /\ queue' = Tail(queue)
    /\ outstanding' = Tail(outstanding)
    /\ UNCHANGED <<sent, held, strand, wire, conn, guarded>>

OnWrittenBack ==
    /\ outstanding /= <<>>
    /\ Head(outstanding).result = "written"
    /\ queue' = SubSeq(queue, 1, Len(queue) - 1)
    /\ outstanding' = IF queue' = <<>> THEN Tail(outstanding)
                                       ELSE Started(Tail(outstanding), queue')
    /\ UNCHANGED <<sent, held, strand, wire, conn, guarded>>

\* on_write after a success: erase the message written and start the next one.
OnWritten ==
    /\ outstanding /= <<>>
    /\ Head(outstanding).result = "written"
    /\ queue' = Tail(queue)
    /\ outstanding' = IF queue' = <<>> THEN Tail(outstanding)
                                       ELSE Started(Tail(outstanding), queue')
    /\ UNCHANGED <<sent, held, strand, wire, conn, guarded>>

\* on_write after a failure returns at once: the queue stays as it is.
OnFailed ==
    /\ outstanding /= <<>>
    /\ Head(outstanding).result = "failed"
    /\ outstanding' = Tail(outstanding)
    /\ UNCHANGED <<sent, held, strand, queue, wire, conn, guarded>>

-----------------------------------------------------------------------------
(* The network and the websocket stream (Boost, outside src/).             *)

\* The handshake succeeds.
Open ==
    /\ conn = "handshake"
    /\ conn' = "open"
    /\ UNCHANGED <<sent, held, strand, queue, outstanding, wire, guarded>>

\* The handshake fails, the peer closes, a read fails.
Close ==
    /\ conn /= "closed"
    /\ conn' = "closed"
    /\ UNCHANGED <<sent, held, strand, queue, outstanding, wire, guarded>>

Ended(write, result) == [msg |-> write.msg, result |-> result]

\* The i-th outstanding write reaches the peer.
Transfer(i) ==
    /\ conn = "open"
    /\ outstanding[i].result = "pending"
    /\ outstanding' = [outstanding EXCEPT ![i] = Ended(@, "written")]
    /\ wire' = Append(wire, outstanding[i].msg)
    /\ UNCHANGED <<sent, held, strand, queue, conn, guarded>>

\* It fails instead: the stream is no longer open then.
Break(i) ==
    /\ outstanding[i].result = "pending"
    /\ outstanding' = [outstanding EXCEPT ![i] = Ended(@, "failed")]
    /\ conn' = "closed"
    /\ UNCHANGED <<sent, held, strand, queue, wire, guarded>>

Complete == \E i \in 1..Len(outstanding) : Transfer(i) \/ Break(i)

-----------------------------------------------------------------------------
Send(t) == Check(t) \/ Post(t)
OnWrite == OnWritten \/ OnFailed

Next ==
    \/ \E t \in Threads : Send(t)
    \/ OnSend
    \/ OnWrite
    \/ Open
    \/ Close
    \/ Complete

Spec == Init /\ [][Next]_vars

\* The io threads run what is posted; a write ends, well or not, because the
\* peer reads again after every message (session::on_read, line 191).
Fairness ==
    /\ \A t \in Threads : WF_vars(Post(t))
    /\ WF_vars(OnSend)
    /\ WF_vars(OnWrite)
    /\ WF_vars(Complete)

FairSpec == Spec /\ Fairness

-----------------------------------------------------------------------------
(* At most one async_write is outstanding, and the buffer it was given is  *)
(* the front of queue_, which keeps it alive: nothing erases or overtakes  *)
(* a message while the network still reads it.                             *)
WriteDiscipline ==
    outstanding /= <<>> =>
        /\ Len(outstanding) = 1
        /\ queue /= <<>>
        /\ Head(outstanding).msg = Head(queue)

(* A queue that holds messages on an open socket has a write outstanding:  *)
(* as only the message that finds queue_ empty starts one, a queue left    *)
(* without would stay so for ever, and every later message with it.        *)
NoStall == conn = "open" /\ queue /= <<>> => outstanding /= <<>>

\* Messages of the queue the peer does not have yet.
Unwritten ==
    IF outstanding /= <<>> /\ Head(outstanding).result = "written"
    THEN Tail(queue) ELSE queue

\* The channel this queue implements.
Channel == INSTANCE Fifo WITH pending   <- Unwritten \o strand,
                              delivered <- wire,
                              up        <- conn /= "closed"

(* send, on_send and on_write together are a Fifo: the peer gets what was  *)
(* posted, in the order of the posts, nothing twice and nothing skipped,   *)
(* until the connection goes down.                                         *)
IsFifo == Channel!Spec

(* ... and what was posted does reach the peer unless the connection goes  *)
(* down.                                                                   *)
IsLiveFifo == Channel!LiveSpec
=============================================================================
