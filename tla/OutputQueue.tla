----------------------------- MODULE OutputQueue -----------------------------
(***************************************************************************)
(* net::OutputQueue (src/src/net/OutputQueue.cpp): a PBufQueue that is     *)
(* drained into a socket or into a lwIP TCP control block, together with   *)
(* the code that fills it.  The program has two kinds of them:             *)
(*                                                                         *)
(*   "forward"  _forward_queue of a PortForwarder: filled by               *)
(*              PortForwarder::recv, drained into a tcp_pcb;               *)
(*   "reply"    _reply_queue of a PortForwarder: filled by tcp_recv_cb     *)
(*              with the pbufs lwIP hands over, drained into a socket.     *)
(*                                                                         *)
(* The two write functions are loops: one iteration is one action, and pc  *)
(* says which loop is running.  The queue belongs to one thread, so it is  *)
(* only filled between two calls.                                          *)
(***************************************************************************)
EXTENDS PBufQueue

CONSTANTS
    MaxRead,      \* size of the buffer PortForwarder::recv reads into
    MaxPbuf,      \* bound: longest pbuf lwIP hands over
    MaxStream,    \* bound: number of bytes put in the queue in a behaviour
    SndBuf        \* TCP_SND_BUF, the send buffer of the TCP control block

ASSUME OutputQueueAssumption ==
    /\ MaxRead \in Nat \ {0}
    /\ MaxPbuf \in Nat \ {0}
    /\ MaxStream \in Nat
    /\ SndBuf \in Nat \ {0}

VARIABLES
    kind,     \* "forward" or "reply"
    q,        \* the queue
    next,     \* position in the stream of the next byte to be queued
    sent,     \* position in the stream of the last byte that left the queue
    refused,  \* the buffer lwIP keeps after ERR_MEM (refused_data), or <<>>
    pc,       \* "idle", "socket", "tcp" or "failed"
    retry,    \* the block a socket answered NETCTX_SND_RETRY to, or NoBlock
    sndbuf,   \* tcp_sndbuf(socket): free space of the TCP send buffer
    written   \* the out parameter of the call in progress

vars == <<kind, q, next, sent, refused, pc, retry, sndbuf, written>>

NoBlock == [first |-> 0, len |-> 0]

Init ==
    /\ kind \in {"forward", "reply"}
    /\ q = EmptyQueue
    /\ next = 1
    /\ sent = 0
    /\ refused = <<>>
    /\ pc = "idle"
    /\ retry = NoBlock
    /\ sndbuf = SndBuf
    /\ written = 0

-----------------------------------------------------------------------------
(***************************************************************************)
(* Filling the queue                                                       *)
(***************************************************************************)
Bounded(len) == next + len <= MaxStream + 1

\* PortForwarder::recv reads len bytes, at most what the queue has room for,
\* and sets the PUSH flag on a short read.
available_space_NoLimit == MaxRead               \* mutant: ignores the queue

available_space == IF MaxRead < remaining_space(q) THEN MaxRead
                                                   ELSE remaining_space(q)

ReadBuffer(len) ==
    <<[first |-> next, len |-> len, tot |-> len, push |-> len # available_space]>>

Recv(len) ==
    /\ kind = "forward"
    /\ pc = "idle"
    /\ len <= available_space
    /\ Bounded(len)
    /\ IF can_push(q, ReadBuffer(len))
       THEN q' = push(q, ReadBuffer(len)) /\ pc' = pc
       ELSE pc' = "failed" /\ q' = q
    /\ next' = next + len
    /\ UNCHANGED <<kind, sent, refused, retry, sndbuf, written>>

\* recv returns false: the client has left, its socket fails, or there is no
\* memory for the pbuf and what was read is lost.  The queue is left alone.
RecvFails ==
    /\ kind = "forward"
    /\ pc = "idle"
    /\ available_space > 0
    /\ pc' = "failed"
    /\ UNCHANGED <<kind, q, next, sent, refused, retry, sndbuf, written>>

\* What lwIP hands to tcp_recv_cb: one pbuf, or a chain when a hole in the
\* sequence space has been filled.
Buffers ==
    LET L == 1..MaxPbuf
    IN  {<<[first |-> next, len |-> a, tot |-> a, push |-> FALSE]>> : a \in L}
        \cup
        {<<[first |-> next, len |-> a, tot |-> a + b, push |-> FALSE],
           [first |-> next + a, len |-> b, tot |-> b, push |-> FALSE]>> :
            a \in L, b \in L}

Accept(buffer) ==
    /\ q' = push(q, buffer)
    /\ next' = next + buffer[1].tot
    /\ refused' = <<>>

\* tcp_recv_cb with new data; lwIP delivers none while it keeps refused data.
Deliver(buffer) ==
    /\ kind = "reply"
    /\ pc = "idle"
    /\ refused = <<>>
    /\ Bounded(buffer[1].tot)
    /\ IF can_push(q, buffer)
       THEN Accept(buffer)
       ELSE refused' = buffer /\ UNCHANGED <<q, next>>
    /\ UNCHANGED <<kind, sent, pc, retry, sndbuf, written>>

\* tcp_recv_cb called again by lwIP with the data it was refused.
Redeliver ==
    /\ pc = "idle"
    /\ refused # <<>>
    /\ can_push(q, refused)
    /\ Accept(refused)
    /\ UNCHANGED <<kind, sent, pc, retry, sndbuf, written>>

\* The owner gives the content up: disconnect(), abort(), the end of a flush.
Clear ==
    /\ pc \in {"idle", "failed"}
    /\ q' = clear(q)
    /\ sent' = next - 1
    /\ pc' = "idle"
    /\ retry' = NoBlock
    /\ UNCHANGED <<kind, next, refused, sndbuf, written>>

-----------------------------------------------------------------------------
(***************************************************************************)
(* Draining the queue into a socket                                        *)
(***************************************************************************)
HeadBlock == get_cblock(q, available(q))

WriteSocket ==
    /\ kind = "reply"
    /\ pc = "idle"
    /\ ~is_empty(q)
    /\ written' = 0
    /\ pc' = "socket"
    /\ UNCHANGED <<kind, q, next, sent, refused, retry, sndbuf>>

\* send_data accepts n bytes of the block and the queue moves past them.
SocketSendOk(n) ==
    /\ pc = "socket"
    /\ ~is_empty(q)
    /\ n <= HeadBlock.len
    /\ IF can_move(q, n)
       THEN /\ q' = move(q, n)
            /\ sent' = HeadBlock.first + n - 1
            /\ written' = written + n
            /\ pc' = "socket"
       ELSE pc' = "failed" /\ UNCHANGED <<q, sent, written>>
    /\ retry' = NoBlock
    /\ UNCHANGED <<kind, next, refused, sndbuf>>

\* The socket's buffer is full: the call returns 0 and is made again later.
SocketSendRetry ==
    /\ pc = "socket"
    /\ ~is_empty(q)
    /\ retry' = [first |-> HeadBlock.first, len |-> HeadBlock.len]
    /\ pc' = "idle"
    /\ UNCHANGED <<kind, q, next, sent, refused, sndbuf, written>>

SocketSendError ==
    /\ pc = "socket"
    /\ ~is_empty(q)
    /\ pc' = "failed"
    /\ UNCHANGED <<kind, q, next, sent, refused, retry, sndbuf, written>>

SocketWriteReturns ==
    /\ pc = "socket"
    /\ is_empty(q)
    /\ pc' = "idle"
    /\ UNCHANGED <<kind, q, next, sent, refused, retry, sndbuf, written>>

-----------------------------------------------------------------------------
(***************************************************************************)
(* Draining the queue into a TCP control block                             *)
(***************************************************************************)
\* The flush that follows a failure writes what the queue still holds.
WriteTcp ==
    /\ kind = "forward"
    /\ pc \in {"idle", "failed"}
    /\ written' = 0
    /\ pc' = "tcp"
    /\ UNCHANGED <<kind, q, next, sent, refused, retry, sndbuf>>

\* tcp_write copies a block no longer than the free send buffer.
TcpWriteOk ==
    LET block == get_cblock(q, sndbuf)
    IN  /\ pc = "tcp"
        /\ ~is_empty(q)
        /\ sndbuf > 0
        /\ sndbuf' = sndbuf - block.len
        /\ IF can_move(q, block.len)
           THEN /\ q' = move(q, block.len)
                /\ sent' = block.first + block.len - 1
                /\ written' = written + block.len
                /\ pc' = "tcp"
           ELSE pc' = "failed" /\ UNCHANGED <<q, sent, written>>
        /\ UNCHANGED <<kind, next, refused, retry>>

\* tcp_write fails (ERR_MEM: no segment left), an error for the caller.
TcpWriteError ==
    /\ pc = "tcp"
    /\ ~is_empty(q)
    /\ sndbuf > 0
    /\ pc' = "failed"
    /\ UNCHANGED <<kind, q, next, sent, refused, retry, sndbuf, written>>

\* The loop is over; tcp_output succeeds, is told ERR_IF (which counts as a
\* success), or fails.
TcpWriteReturns ==
    /\ pc = "tcp"
    /\ is_empty(q) \/ sndbuf = 0
    /\ pc' \in {"idle", "failed"}
    /\ UNCHANGED <<kind, q, next, sent, refused, retry, sndbuf, written>>

\* The remote host acknowledges n bytes: lwIP gives their space back.
TcpAcked(n) ==
    /\ pc = "idle"
    /\ sndbuf + n <= SndBuf
    /\ sndbuf' = sndbuf + n
    /\ UNCHANGED <<kind, q, next, sent, refused, pc, retry, written>>

-----------------------------------------------------------------------------
Next ==
    \/ \E n \in 1..MaxRead : Recv(n)
    \/ RecvFails
    \/ \E b \in Buffers : Deliver(b)
    \/ Redeliver
    \/ Clear
    \/ WriteSocket
    \/ \E n \in 1..MaxPbuf : SocketSendOk(n)
    \/ SocketSendRetry
    \/ SocketSendError
    \/ SocketWriteReturns
    \/ WriteTcp
    \/ TcpWriteOk
    \/ TcpWriteError
    \/ TcpWriteReturns
    \/ \E n \in 1..SndBuf : TcpAcked(n)

(***************************************************************************)
(* A write call is run to its end by its thread; the tunneler calls write  *)
(* as long as there is data (select reports the socket writable); the      *)
(* peer of the socket does not stop reading for ever; lwIP redelivers      *)
(* refused data from its fast timer; a failed queue is cleared.            *)
(***************************************************************************)
Fairness ==
    /\ WF_vars(WriteSocket)
    /\ SF_vars(\E n \in 1..MaxPbuf : SocketSendOk(n))
    /\ WF_vars(SocketWriteReturns)
    /\ SF_vars(Redeliver)
    /\ WF_vars(pc = "failed" /\ Clear)

Spec == Init /\ [][Next]_vars

FairSpec == Spec /\ Fairness

-----------------------------------------------------------------------------
(***************************************************************************)
(* Properties                                                              *)
(***************************************************************************)

\* Every variable keeps its type; a queue is a record of a chain and an offset.
TypeOK ==
    /\ kind \in {"forward", "reply"}
    /\ q \in Queue
    /\ next \in Nat \ {0}
    /\ sent \in Nat
    /\ refused \in Seq(Pbuf)
    /\ pc \in {"idle", "socket", "tcp", "failed"}
    /\ retry \in [first : Nat, len : Nat]
    /\ sndbuf \in 0..SndBuf
    /\ written \in Nat

\* Bytes leave the queue in the order they entered it, none is lost or sent
\* twice: the read position of PBufQueue is always just behind the last byte
\* that left, the pbufs of the chain follow one another, and an empty queue
\* owes nothing (get_cblock, move, pop and pbuf_chain together).
BytesInOrder ==
    IF is_empty(q) THEN sent = next - 1
    ELSE LET n == Len(q.chain)
         IN  /\ q.chain[1].first + q.offset = sent + 1
             /\ q.chain[n].first + q.chain[n].len = next
             /\ \A i \in 1..n-1 :
                   q.chain[i+1].first = q.chain[i].first + q.chain[i].len

\* size() is right at every pbuf: tot_len of each pbuf of the chain is its own
\* length plus what follows, so that the capacity test of push() compares what
\* is really queued, and the offset stays inside the first pbuf.
TotLenExact ==
    LET n == Len(q.chain)
    IN  /\ \A i \in 1..n :
              /\ q.chain[i].len > 0
              /\ q.chain[i].tot = q.chain[i].len +
                    (IF i = n THEN 0 ELSE q.chain[i+1].tot)
        /\ q.offset < (IF n = 0 THEN 1 ELSE q.chain[1].len)

\* PortForwarder::recv reads at most remaining_space() bytes, so its push is
\* never refused and "INTERNAL ERROR: forward queue data full" is never logged.
RecvAlwaysFits ==
    kind = "forward" =>
        \A n \in 1..MaxRead :
            n <= available_space => can_push(q, ReadBuffer(n))

\* Only the buffer that entered the empty queue takes it beyond its capacity.
\* Nothing is chained behind such a buffer, although remaining_space() has
\* wrapped round and is_full() then says that there is room: what lwIP goes on
\* delivering cannot pile up.
LongestBuffer == 2 * MaxPbuf

OverrunBounded ==
    size(q) <= IF Capacity < LongestBuffer THEN LongestBuffer ELSE Capacity

\* After NETCTX_SND_RETRY the next call of send_data presents the very same
\* block, whatever has been pushed in between: mbedtls_ssl_write requires it
\* of a write it could not finish.
RetrySameBlock ==
    retry # NoBlock =>
        /\ ~is_empty(q)
        /\ HeadBlock.first = retry.first
        /\ HeadBlock.len = retry.len

\* Data lwIP was refused (ERR_MEM) enters the queue in the end, even a buffer
\* longer than the capacity: the empty queue accepts any.
RefusedEventuallyQueued == refused # <<>> ~> refused = <<>>

\* PBufQueue.h says that push() fails when "appending it would exceed the
\* queue's capacity".
WithinCapacity == size(q) <= Capacity
=============================================================================
