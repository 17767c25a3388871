---------------------------- MODULE OutboxProofs ----------------------------
(***************************************************************************)
(* Theorems about the send queue of session.cpp and client.cpp, for any    *)
(* number of threads and messages.                                         *)
(***************************************************************************)
EXTENDS Outbox, SequenceTheorems, TLAPS

-----------------------------------------------------------------------------
(* Facts about sequences.                                                  *)

\* Appending behind a concatenation appends to its second half.
LEMMA AppendToConcat ==
    ASSUME NEW S, NEW s \in Seq(S), NEW t \in Seq(S), NEW e \in S
    PROVE  s \o Append(t, e) = Append(s \o t, e)
<1>1. <<e>> \in Seq(S) OBVIOUS
<1>2. s \o t \in Seq(S) BY ConcatProperties
<1>3. Append(t, e) = t \o <<e>> BY AppendIsConcat
<1>4. Append(s \o t, e) = (s \o t) \o <<e>> BY <1>2, AppendIsConcat
<1> QED BY <1>1, <1>3, <1>4, ConcatAssociative

\* A sequence is its front followed by the rest.
LEMMA ConsHeadTail ==
    ASSUME NEW S, NEW s \in Seq(S), s /= <<>>
    PROVE  s = <<Head(s)>> \o Tail(s)
<1>1. Len(s) \in Nat \ {0}
  BY EmptySeq
<1>2. /\ Tail(s) = SubSeq(s, 2, Len(s))
      /\ Head(s) = s[1]
      /\ SubSeq(s, 1, Len(s)) = s
  BY TailIsSubSeq, SubSeqFull
<1>3. SubSeq(s, 1, Len(s)) = <<s[1]>> \o SubSeq(s, 1 + 1, Len(s))
  BY <1>1, SubSeqRecursiveFirst
<1> QED BY <1>2, <1>3

\* The front of a concatenation is the front of its first half, if any.
LEMMA FrontOfConcat ==
    ASSUME NEW S, NEW s \in Seq(S), NEW t \in Seq(S), s /= <<>>
    PROVE  /\ s \o t /= <<>>
           /\ Head(s \o t) = Head(s)
           /\ Tail(s \o t) = Tail(s) \o t
<1>1. /\ s \o t \in Seq(S)
      /\ Len(s \o t) = Len(s) + Len(t)
      /\ \A i \in 1 .. Len(s) + Len(t) :
            (s \o t)[i] = IF i <= Len(s) THEN s[i] ELSE t[i - Len(s)]
  BY ConcatProperties
<1>2. Len(s) \in Nat \ {0} /\ Len(t) \in Nat
  BY EmptySeq, LenProperties
<1>3. s \o t /= <<>>
  BY <1>1, <1>2, EmptySeq
<1>4. Head(s \o t) = Head(s)
  BY <1>1, <1>2
<1>5. /\ Tail(s) \in Seq(S)
      /\ Len(Tail(s)) = Len(s) - 1
      /\ \A i \in 1 .. Len(Tail(s)) : Tail(s)[i] = s[i+1]
  BY HeadTailProperties
<1>6. /\ Tail(s) \o t \in Seq(S)
      /\ Len(Tail(s) \o t) = Len(Tail(s)) + Len(t)
      /\ \A i \in 1 .. Len(Tail(s)) + Len(t) :
            (Tail(s) \o t)[i] = IF i <= Len(Tail(s)) THEN Tail(s)[i]
                                ELSE t[i - Len(Tail(s))]
  BY <1>5, ConcatProperties
<1>7. /\ Tail(s \o t) \in Seq(S)
      /\ Len(Tail(s \o t)) = Len(s \o t) - 1
      /\ \A i \in 1 .. Len(Tail(s \o t)) : Tail(s \o t)[i] = (s \o t)[i+1]
  BY <1>1, <1>3, HeadTailProperties
<1>8. Len(Tail(s \o t)) = Len(Tail(s) \o t)
  BY <1>1, <1>2, <1>5, <1>6, <1>7
<1>9. ASSUME NEW i \in 1 .. Len(Tail(s \o t))
      PROVE  Tail(s \o t)[i] = (Tail(s) \o t)[i]
  <2>1. i \in Nat \ {0} /\ i + 1 \in 1 .. Len(s) + Len(t)
    BY <1>1, <1>2, <1>7
  <2>2. Tail(s \o t)[i] = IF i + 1 <= Len(s) THEN s[i+1] ELSE t[i + 1 - Len(s)]
    BY <1>1, <1>7, <2>1
  <2>3. i \in 1 .. Len(Tail(s)) + Len(t)
    BY <1>6, <1>8
  <2>4. CASE i + 1 <= Len(s)
    <3>1. i \in 1 .. Len(Tail(s))
      BY <1>2, <1>5, <2>1, <2>4
    <3> QED BY <1>2, <1>5, <1>6, <2>1, <2>2, <2>3, <2>4, <3>1
  <2>5. CASE ~ (i + 1 <= Len(s))
    <3>1. ~ (i <= Len(Tail(s))) /\ i - Len(Tail(s)) = i + 1 - Len(s)
      BY <1>2, <1>5, <2>1, <2>5
    <3> QED BY <1>6, <2>2, <2>3, <2>5, <3>1
  <2> QED BY <2>4, <2>5
<1>10. Tail(s \o t) = Tail(s) \o t
  BY <1>6, <1>7, <1>8, <1>9, SeqEqual
<1> QED BY <1>3, <1>4, <1>10

-----------------------------------------------------------------------------
(* The inductive invariant.                                                *)

\* A write only fails on a socket that is not open any more: without it the
\* queue that on_write leaves behind (its early return) could be on an open one.
FailedClosed ==
    outstanding /= <<>> /\ Head(outstanding).result = "failed" => conn = "closed"

\* send drops what comes before the handshake: otherwise a queue could be there
\* when the socket opens, with nobody to start writing it.
QuietHandshake ==
    conn = "handshake" =>
        /\ \A t \in Threads : held[t] = Nothing
        /\ strand = <<>>
        /\ queue = <<>>

OutboxInv ==
    /\ TypeOK
    /\ WriteDiscipline
    /\ NoStall
    /\ FailedClosed
    /\ QuietHandshake

LEMMA InitOutboxInv == Init => OutboxInv
<1> SUFFICES ASSUME Init PROVE OutboxInv
  OBVIOUS
<1>1. 0 \in 0..MaxSends
  BY OutboxAssumption
<1> QED
  BY <1>1 DEF Init, OutboxInv, TypeOK, WriteDiscipline, NoStall, FailedClosed,
              QuietHandshake

\* With the discipline, the only write there can be is the first one.
LEMMA OnlyWrite ==
    ASSUME TypeOK, WriteDiscipline, outstanding /= <<>>
    PROVE  /\ outstanding = <<Head(outstanding)>>
           /\ Head(outstanding) \in Write
           /\ Tail(outstanding) = <<>>
           /\ outstanding[1] = Head(outstanding)
           /\ DOMAIN outstanding = {1}
           /\ queue \in Seq(Msg) /\ queue /= <<>>
           /\ Head(outstanding).msg = Head(queue)
           /\ Head(queue) \in Msg /\ Tail(queue) \in Seq(Msg)
<1>1. outstanding \in Seq(Write) /\ Len(outstanding) = 1
  BY DEF TypeOK, WriteDiscipline
<1>2. Head(outstanding) \in Write /\ Head(outstanding) = outstanding[1]
  BY <1>1
<1>3. <<Head(outstanding)>> \in Seq(Write) /\ Len(<<Head(outstanding)>>) = 1
      /\ <<Head(outstanding)>>[1] = outstanding[1]
  BY <1>2
<1>4. outstanding = <<Head(outstanding)>>
  BY <1>1, <1>3, SeqEqual
<1>5. Tail(outstanding) = <<>>
  <2>1. Tail(outstanding) \in Seq(Write) /\ Len(Tail(outstanding)) = 0
    BY <1>1, HeadTailProperties
  <2> QED BY <2>1, EmptySeq
<1>6. DOMAIN outstanding = {1}
  BY <1>1, LenProperties
<1>7. queue \in Seq(Msg) /\ queue /= <<>> /\ Head(outstanding).msg = Head(queue)
  BY DEF TypeOK, WriteDiscipline
<1>8. Head(queue) \in Msg /\ Tail(queue) \in Seq(Msg)
  BY <1>7, HeadTailProperties
<1> QED BY <1>2, <1>4, <1>5, <1>6, <1>7, <1>8

LEMMA WriteIndex ==
    ASSUME OutboxInv, NEW i \in 1..Len(outstanding)
    PROVE  i = 1 /\ outstanding /= <<>>
<1>1. outstanding \in Seq(Write)
  BY DEF OutboxInv, TypeOK
<1>2. Len(outstanding) \in Nat /\ Len(outstanding) /= 0
  BY <1>1, LenProperties
<1>3. outstanding /= <<>>
  BY <1>2
<1>4. Len(outstanding) = 1
  BY <1>3 DEF OutboxInv, WriteDiscipline
<1> QED BY <1>3, <1>4

\* A write that is started concerns the front of a queue that is not empty.
LEMMA StartedIsWrite ==
    ASSUME NEW q \in Seq(Msg), q /= <<>>
    PROVE  /\ Started(<<>>, q) \in Seq(Write)
           /\ Started(<<>>, q) /= <<>> =>
                 /\ Len(Started(<<>>, q)) = 1
                 /\ Head(Started(<<>>, q)).msg = Head(q)
                 /\ Head(Started(<<>>, q)).result = "pending"
           /\ conn = "open" => Started(<<>>, q) /= <<>>
<1> DEFINE w == [msg |-> Head(q), result |-> "pending"]
<1>1. Head(q) \in Msg
  BY HeadTailProperties
<1>2. w \in Write
  BY <1>1 DEF Write, Results
<1>3. Append(<<>>, w) = <<w>> /\ <<w>> \in Seq(Write) /\ <<>> \in Seq(Write)
  BY <1>2
<1> QED
  BY <1>3 DEF Started, Front

LEMMA NextOutboxInv == OutboxInv /\ [Next]_vars => OutboxInv'
<1> SUFFICES ASSUME OutboxInv, [Next]_vars PROVE OutboxInv'
  OBVIOUS
<1> USE DEF OutboxInv
<1>1. ASSUME NEW t \in Threads, Check(t) PROVE OutboxInv'
  <2>1. sent[t] \in 0..MaxSends /\ sent[t] < MaxSends /\ MaxSends \in Nat
    BY <1>1, OutboxAssumption DEF TypeOK, Check
  <2>2. sent[t] + 1 \in 0..MaxSends /\ sent[t] + 1 \in 1..MaxSends
    BY <2>1
  <2>3. <<t, sent[t] + 1>> \in Msg
    BY <2>2 DEF Msg
  <2>4. TypeOK'
    BY <1>1, <2>2, <2>3 DEF TypeOK, Check
  <2> QED
    BY <1>1, <2>4 DEF Check, WriteDiscipline, NoStall, FailedClosed, QuietHandshake
<1>2. ASSUME NEW t \in Threads, Post(t) PROVE OutboxInv'
  <2>1. held[t] \in Msg
    BY <1>2 DEF TypeOK, Post
  <2>2. strand' \in Seq(Msg)
    BY <1>2, <2>1, AppendProperties DEF TypeOK, Post
  <2>3. TypeOK'
    BY <1>2, <2>2 DEF TypeOK, Post
  <2> QED
    BY <1>2, <2>3 DEF Post, WriteDiscipline, NoStall, FailedClosed, QuietHandshake
<1>3. CASE OnSend
  <2>1. /\ strand \in Seq(Msg) /\ strand /= <<>>
        /\ Head(strand) \in Msg /\ strand' \in Seq(Msg)
    BY <1>3, HeadTailProperties DEF OnSend, TypeOK
  <2>2. /\ queue \in Seq(Msg) /\ queue' \in Seq(Msg) /\ queue' /= <<>>
        /\ Len(queue') = Len(queue) + 1
        /\ queue /= <<>> => Head(queue') = Head(queue)
    BY <1>3, <2>1, AppendProperties, HeadTailAppend DEF OnSend, TypeOK
  <2>3. CASE queue = <<>>
    <3>1. outstanding = <<>>
      BY <2>3 DEF WriteDiscipline
    <3>2. Len(queue') = 1
      BY <2>2, <2>3
    <3>3. outstanding' = Started(<<>>, queue')
      BY <1>3, <3>1, <3>2 DEF OnSend
    <3>4. TypeOK'
      BY <1>3, <2>1, <2>2, <3>3, StartedIsWrite DEF OnSend, TypeOK
    <3> QED
      BY <1>3, <2>2, <3>3, <3>4, StartedIsWrite
      DEF OnSend, WriteDiscipline, NoStall, FailedClosed, QuietHandshake
  <2>4. CASE queue /= <<>>
    <3>1. Len(queue') > 1
      BY <2>2, <2>4, EmptySeq
    <3>2. outstanding' = outstanding
      BY <1>3, <3>1 DEF OnSend
    <3>3. TypeOK'
      BY <1>3, <2>1, <2>2, <3>2 DEF OnSend, TypeOK
    <3> QED
      BY <1>3, <2>2, <2>4, <3>2, <3>3
      DEF OnSend, WriteDiscipline, NoStall, FailedClosed, QuietHandshake
  <2> QED BY <2>3, <2>4
<1>4. CASE OnWritten
  <2>1. /\ Tail(outstanding) = <<>>
        /\ queue' = Tail(queue) /\ queue' \in Seq(Msg)
    BY <1>4, OnlyWrite DEF OnWritten
  <2>2. outstanding' = IF queue' = <<>> THEN <<>> ELSE Started(<<>>, queue')
    BY <1>4, <2>1 DEF OnWritten
  <2>3. <<>> \in Seq(Write)
    OBVIOUS
  <2>4. TypeOK'
    BY <1>4, <2>1, <2>2, <2>3, StartedIsWrite DEF OnWritten, TypeOK
  <2> QED
    BY <1>4, <2>1, <2>2, <2>4, StartedIsWrite
    DEF OnWritten, WriteDiscipline, NoStall, FailedClosed, QuietHandshake
<1>5. CASE OnFailed
  <2>1. outstanding' = <<>> /\ conn = "closed" /\ conn' = conn
    BY <1>5, OnlyWrite DEF OnFailed, FailedClosed
  <2>2. <<>> \in Seq(Write)
    OBVIOUS
  <2>3. TypeOK'
    BY <1>5, <2>1, <2>2 DEF OnFailed, TypeOK
  <2> QED
    BY <2>1, <2>3 DEF WriteDiscipline, NoStall, FailedClosed, QuietHandshake
<1>6. CASE Open
  BY <1>6 DEF Open, TypeOK, WriteDiscipline, NoStall, FailedClosed, QuietHandshake
<1>7. CASE Close
  BY <1>7 DEF Close, TypeOK, WriteDiscipline, NoStall, FailedClosed, QuietHandshake
<1>8. ASSUME NEW i \in 1..Len(outstanding), Transfer(i) PROVE OutboxInv'
  <2>1. i = 1 /\ outstanding /= <<>>
    BY <1>8, WriteIndex
  <2> DEFINE w == Ended(Head(outstanding), "written")
  <2>2. w \in Write /\ w.msg = Head(outstanding).msg /\ w.result = "written"
    BY <2>1, OnlyWrite DEF Ended, Write, Results
  <2>3. outstanding' = <<w>>
    BY <1>8, <2>1, OnlyWrite DEF Transfer
  <2>4. wire' \in Seq(Msg)
    BY <1>8, <2>1, OnlyWrite, AppendProperties DEF Transfer, TypeOK
  <2>5. <<w>> \in Seq(Write) /\ <<w>> /= <<>> /\ Len(<<w>>) = 1 /\ Head(<<w>>) = w
    BY <2>2
  <2>6. TypeOK'
    BY <1>8, <2>3, <2>4, <2>5 DEF Transfer, TypeOK
  <2> QED
    BY <1>8, <2>1, <2>2, <2>3, <2>5, <2>6, OnlyWrite
    DEF Transfer, WriteDiscipline, NoStall, FailedClosed, QuietHandshake
<1>9. ASSUME NEW i \in 1..Len(outstanding), Break(i) PROVE OutboxInv'
  <2>1. i = 1 /\ outstanding /= <<>>
    BY <1>9, WriteIndex
  <2> DEFINE w == Ended(Head(outstanding), "failed")
  <2>2. w \in Write /\ w.msg = Head(outstanding).msg /\ w.result = "failed"
    BY <2>1, OnlyWrite DEF Ended, Write, Results
  <2>3. outstanding' = <<w>>
    BY <1>9, <2>1, OnlyWrite DEF Break
  <2>4. <<w>> \in Seq(Write) /\ <<w>> /= <<>> /\ Len(<<w>>) = 1 /\ Head(<<w>>) = w
    BY <2>2
  <2>5. TypeOK'
    BY <1>9, <2>3, <2>4 DEF Break, TypeOK
  <2> QED
    BY <1>9, <2>1, <2>2, <2>3, <2>4, <2>5, OnlyWrite
    DEF Break, WriteDiscipline, NoStall, FailedClosed, QuietHandshake
<1>10. CASE UNCHANGED vars
  BY <1>10 DEF vars, TypeOK, WriteDiscipline, NoStall, FailedClosed, QuietHandshake
<1> QED
  BY <1>1, <1>2, <1>3, <1>4, <1>5, <1>6, <1>7, <1>8, <1>9, <1>10
  DEF Next, Send, OnWrite, Complete

(* The types of Outbox: the queue never yields a message to write when it  *)
(* is empty (on_write starts a write only for a queue that is not empty).  *)
THEOREM TypeCorrect == Spec => []TypeOK
<1>1. OutboxInv => TypeOK
  BY DEF OutboxInv
<1> QED
  BY <1>1, InitOutboxInv, NextOutboxInv, PTL DEF Spec

(* At most one async_write at a time, always for the live front of queue_  *)
(* (session.cpp, on_send and on_write).                                    *)
THEOREM Discipline == Spec => []WriteDiscipline
<1>1. OutboxInv => WriteDiscipline
  BY DEF OutboxInv
<1> QED
  BY <1>1, InitOutboxInv, NextOutboxInv, PTL DEF Spec

(* Messages queued on an open socket are being written: nobody waits for a *)
(* write that no handler will start.                                       *)
THEOREM NeverStalls == Spec => []NoStall
<1>1. OutboxInv => NoStall
  BY DEF OutboxInv
<1> QED
  BY <1>1, InitOutboxInv, NextOutboxInv, PTL DEF Spec

-----------------------------------------------------------------------------
(* The refinement.                                                         *)

LEMMA InitChannel == Init => Channel!Init
<1> SUFFICES ASSUME Init PROVE Channel!Init
  OBVIOUS
<1>1. <<>> \o <<>> = <<>>
  BY ConcatEmptySeq
<1> QED
  BY <1>1 DEF Init, Channel!Init, Unwritten

\* A step that leaves Unwritten \o strand, wire and the connection alone.
LEMMA Stutters ==
    ASSUME (Unwritten \o strand)' = Unwritten \o strand,
           wire' = wire, (conn /= "closed")' = (conn /= "closed")
    PROVE  [Channel!Next]_(Channel!vars)
BY DEF Channel!vars

LEMMA NextChannel ==
    OutboxInv /\ OutboxInv' /\ [Next]_vars => [Channel!Next]_(Channel!vars)
<1> SUFFICES ASSUME OutboxInv, OutboxInv', [Next]_vars
             PROVE  [Channel!Next]_(Channel!vars)
  OBVIOUS
<1>0. Unwritten \in Seq(Msg) /\ strand \in Seq(Msg) /\ queue \in Seq(Msg)
  BY OnlyWrite DEF OutboxInv, TypeOK, Unwritten
<1>1. ASSUME NEW t \in Threads, Check(t) PROVE [Channel!Next]_(Channel!vars)
  BY <1>1, Stutters DEF Check, Unwritten
<1>2. ASSUME NEW t \in Threads, Post(t) PROVE [Channel!Next]_(Channel!vars)
  <2>1. held[t] \in Msg
    BY <1>2 DEF Post, OutboxInv, TypeOK
  <2>2. Unwritten' = Unwritten /\ strand' = Append(strand, held[t])
    BY <1>2 DEF Post, Unwritten
  <2>3. (Unwritten \o strand)' = Append(Unwritten \o strand, held[t])
    BY <1>0, <2>1, <2>2, AppendToConcat
  <2>4. Channel!Take(held[t])
    BY <1>2, <2>3 DEF Post, Channel!Take
  <2> QED BY <2>1, <2>4 DEF Channel!Next
<1>3. CASE OnSend
  <2>1. /\ Head(strand) \in Msg /\ Tail(strand) \in Seq(Msg)
        /\ strand' = Tail(strand) /\ queue' = Append(queue, Head(strand))
    BY <1>0, <1>3, HeadTailProperties DEF OnSend
  <2>2. Unwritten' = Append(Unwritten, Head(strand))
    <3>1. CASE queue = <<>>
      <4>1. outstanding = <<>> /\ Len(queue') = 1 /\ queue' \in Seq(Msg) /\ queue' /= <<>>
        BY <1>0, <2>1, <3>1, AppendProperties DEF OutboxInv, WriteDiscipline
      <4>2. outstanding' = Started(<<>>, queue')
        BY <1>3, <4>1 DEF OnSend
      <4> QED BY <2>1, <3>1, <4>1, <4>2, StartedIsWrite DEF Unwritten
    <3>2. CASE queue /= <<>>
      <4>1. Len(queue') > 1
        BY <1>0, <2>1, <3>2, AppendProperties, EmptySeq
      <4>2. outstanding' = outstanding
        BY <1>3, <4>1 DEF OnSend
      <4>3. Tail(queue') = Append(Tail(queue), Head(strand))
        BY <1>0, <2>1, <3>2, HeadTailAppend
      <4> QED BY <2>1, <4>2, <4>3 DEF Unwritten
    <3> QED BY <3>1, <3>2
  <2>3. Append(Unwritten, Head(strand)) \o Tail(strand) = Unwritten \o strand
    <3>1. <<Head(strand)>> \in Seq(Msg) /\ strand /= <<>>
      BY <1>3, <2>1 DEF OnSend
    <3>2. Append(Unwritten, Head(strand)) = Unwritten \o <<Head(strand)>>
      BY <1>0, <2>1, AppendIsConcat
    <3>3. strand = <<Head(strand)>> \o Tail(strand)
      BY <1>0, <3>1, ConsHeadTail
    <3>4. (Unwritten \o <<Head(strand)>>) \o Tail(strand)
             = Unwritten \o (<<Head(strand)>> \o Tail(strand))
      BY <1>0, <2>1, <3>1, ConcatAssociative
    <3> QED BY <3>2, <3>3, <3>4
  <2> QED BY <1>3, <2>1, <2>2, <2>3, Stutters DEF OnSend
<1>4. CASE OnWritten
  <2>1. /\ Tail(outstanding) = <<>> /\ queue' = Tail(queue)
        /\ queue' \in Seq(Msg) /\ Unwritten = Tail(queue)
    BY <1>4, OnlyWrite DEF OnWritten, Unwritten, OutboxInv
  <2>2. outstanding' = IF queue' = <<>> THEN <<>> ELSE Started(<<>>, queue')
    BY <1>4, <2>1 DEF OnWritten
  <2>3. Unwritten' = queue'
    BY <2>1, <2>2, StartedIsWrite DEF Unwritten
  <2> QED BY <1>4, <2>1, <2>3, Stutters DEF OnWritten
<1>5. CASE OnFailed
  <2>1. outstanding' = <<>> /\ Unwritten = queue /\ Unwritten' = queue
    BY <1>5, OnlyWrite DEF OnFailed, Unwritten, OutboxInv
  <2> QED BY <1>5, <2>1, Stutters DEF OnFailed
<1>6. CASE Open
  BY <1>6, Stutters DEF Open, Unwritten
<1>7. CASE Close
  <2>1. Channel!GoDown
    BY <1>7 DEF Close, Channel!GoDown, Unwritten
  <2> QED BY <2>1 DEF Channel!Next
<1>8. ASSUME NEW i \in 1..Len(outstanding), Transfer(i)
      PROVE  [Channel!Next]_(Channel!vars)
  <2>1. i = 1 /\ outstanding /= <<>>
    BY <1>8, WriteIndex
  <2>2. /\ queue /= <<>> /\ Head(outstanding).msg = Head(queue)
        /\ outstanding' = <<Ended(Head(outstanding), "written")>>
        /\ wire' = Append(wire, Head(queue)) /\ queue' = queue /\ strand' = strand
        /\ Unwritten = queue
    BY <1>8, <2>1, OnlyWrite DEF Transfer, Unwritten, OutboxInv
  <2>3. Unwritten' = Tail(queue)
    BY <2>2 DEF Unwritten, Ended
  <2>4. /\ queue \o strand /= <<>> /\ Head(queue \o strand) = Head(queue)
        /\ Tail(queue \o strand) = Tail(queue) \o strand
    BY <1>0, <2>2, FrontOfConcat
  <2>5. Channel!Deliver
    BY <1>8, <2>2, <2>3, <2>4 DEF Transfer, Channel!Deliver
  <2> QED BY <2>5 DEF Channel!Next
<1>9. ASSUME NEW i \in 1..Len(outstanding), Break(i)
      PROVE  [Channel!Next]_(Channel!vars)
  <2>1. i = 1 /\ outstanding /= <<>>
    BY <1>9, WriteIndex
  <2>2. /\ outstanding' = <<Ended(Head(outstanding), "failed")>>
        /\ queue' = queue /\ strand' = strand /\ wire' = wire /\ Unwritten = queue
    BY <1>9, <2>1, OnlyWrite DEF Break, Unwritten, OutboxInv
  <2>3. Unwritten' = Unwritten
    <3>1. Head(outstanding').result = "failed"
      BY <2>2 DEF Ended
    <3> QED BY <2>2, <3>1 DEF Unwritten
  <2>4. CASE conn = "closed"
    BY <1>9, <2>2, <2>3, <2>4, Stutters DEF Break
  <2>5. CASE conn /= "closed"
    <3>1. Channel!GoDown
      BY <1>9, <2>2, <2>3, <2>5 DEF Break, Channel!GoDown
    <3> QED BY <3>1 DEF Channel!Next
  <2> QED BY <2>4, <2>5
<1>10. CASE UNCHANGED vars
  BY <1>10, Stutters DEF vars, Unwritten
<1> QED
  BY <1>1, <1>2, <1>3, <1>4, <1>5, <1>6, <1>7, <1>8, <1>9, <1>10
  DEF Next, Send, OnWrite, Complete

(* The send queue is a Fifo: what the peer gets is what was posted, in the *)
(* order of the posts, nothing twice and nothing left out.                 *)
THEOREM ImplementsFifo == Spec => IsFifo
<1>1. Spec => []OutboxInv
  BY InitOutboxInv, NextOutboxInv, PTL DEF Spec
<1> QED
  BY <1>1, InitChannel, NextChannel, PTL DEF Spec, IsFifo, Channel!Spec
=============================================================================
