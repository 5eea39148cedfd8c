----------------------------- MODULE HttpsClient -----------------------------
(***************************************************************************)
(* http::HttpsClient (src/src/http/HttpsClient.cpp) with the TLS socket    *)
(* below it and the reading of an answer (src/src/http/Answer.cpp): one    *)
(* request and its answer on a connection that is kept alive.              *)
(*                                                                         *)
(* What the server sends is a sequence of units: the status line with the  *)
(* headers, a block of the body, the line with the size of a chunk, the    *)
(* end of a line.  A unit remembers whether it answers the request sent    *)
(* last or an earlier one, and which block of the body it is; the client   *)
(* does not see this, the properties do.  ex is the step the exchange is   *)
(* in; FirewallClient starts exchanges and takes their results.            *)
(***************************************************************************)
EXTENDS Integers, Sequences

CONSTANTS
    Crts,        \* certificates a server may present
    NoCrt,       \* no certificate: the digest of 32 null bytes
    Timeouts,    \* values of Keep-Alive: timeout, in ticks
    Maxes,       \* values of Keep-Alive: max
    DefaultTimeout, DefaultMax,
    MaxBody,     \* MAX_BODY_SIZE, in blocks
    MaxBlocks    \* bound: blocks in the body of an answer

ASSUME HttpsClientAssumption ==
    /\ NoCrt \notin Crts
    /\ Timeouts \subseteq Nat /\ DefaultTimeout \in Timeouts
    /\ Maxes \subseteq Nat /\ DefaultMax \in Maxes
    /\ MaxBody \in Nat \ {0} /\ MaxBlocks \in Nat

VARIABLES
    \* the connection
    fd,       \* is_connected(): the socket has a descriptor
    peer,     \* certificate of the handshake, NoCrt before it has succeeded
    owed,     \* requests the server has not answered yet
    stream,   \* units that wait on the connection
    eof,      \* the server has closed its side
    \* HttpsClient
    count,    \* _request_count
    max,      \* _max_requests
    timeout,  \* _keepalive_timeout
    ka,       \* ticks left of _keepalive_timer, -1 when it is elapsed
    idle,     \* ticks the connection has waited since it was last used
    \* the exchange in progress
    ex,       \* its step
    rd        \* the answer being read

conn == <<fd, peer, owed, stream, eof>>
client == <<count, max, timeout, ka, idle>>
httpsVars == <<conn, client, ex, rd>>

\* An answer: blocks still to be read, blocks read, and the size of the body
\* and the owner of the message it comes from.
NoAnswer == [left |-> 0, body |-> <<>>, size |-> 0, of |-> "none"]

HttpsInit ==
    /\ fd = FALSE /\ peer = NoCrt /\ owed = <<>> /\ stream = <<>> /\ eof = FALSE
    /\ count = 0 /\ max = DefaultMax /\ timeout = DefaultTimeout
    /\ ka = DefaultTimeout /\ idle = 0
    /\ ex = "none" /\ rd = NoAnswer

-----------------------------------------------------------------------------
(***************************************************************************)
(* Connection                                                              *)
(***************************************************************************)
is_elapsed == ka < 0

is_reconnection_required == ~fd \/ is_elapsed \/ count >= max

\* TlsSocket::shutdown: close notify, close the descriptor, clear the context.
disconnect ==
    /\ fd' = FALSE /\ peer' = NoCrt
    /\ owed' = <<>> /\ stream' = <<>> /\ eof' = FALSE

StartTimer == ka' = timeout /\ idle' = 0

\* connect(): the handshake succeeds.  A socket that still has a descriptor
\* refuses (MBEDTLS_ERR_NET_INVALID_CONTEXT).
Connect(crt) ==
    /\ ex = "connect"
    /\ count' = 0
    /\ StartTimer
    /\ IF fd THEN ex' = "error" /\ UNCHANGED conn
       ELSE /\ fd' = TRUE /\ peer' = crt /\ ex' = "connected"
            /\ UNCHANGED <<owed, stream, eof>>
    /\ UNCHANGED <<max, timeout, rd>>

\* connect() throws: no connection, or a connection without a handshake, whose
\* descriptor stays open.
ConnectFails ==
    /\ ex = "connect"
    /\ count' = 0
    /\ StartTimer
    /\ fd' \in {fd, TRUE}
    /\ ex' = "error"
    /\ UNCHANGED <<peer, owed, stream, eof, max, timeout, rd>>

-----------------------------------------------------------------------------
(***************************************************************************)
(* Request and answer                                                      *)
(***************************************************************************)
\* From now on everything that waits answers an earlier request.
Age(units) == [i \in 1..Len(units) |-> [units[i] EXCEPT !.of = "old"]]

SendRequest ==
    /\ ex = "send"
    /\ count' = count + 1
    /\ StartTimer
    /\ owed' = Append([i \in 1..Len(owed) |-> "old"], "new")
    /\ stream' = Age(stream)
    /\ rd' = NoAnswer                       \* answer.clear()
    /\ ex' = "head"
    /\ UNCHANGED <<fd, peer, eof, max, timeout>>

SendFails ==
    /\ ex = "send"
    /\ ex' = "error"
    /\ UNCHANGED <<conn, client, rd>>

NextUnit == stream[1]
Reading == ex \in {"head", "body", "size", "chunk", "eol", "last"}

\* A status line and headers, where one is expected; the framing decides how
\* the body is read.  A message without any length has its body left unread.
AfterHead(h) ==
    CASE h.framing = "chunked" -> "size"
      [] h.framing = "length"  -> IF h.size = 0 THEN "complete"
                                  ELSE IF h.size <= MaxBody THEN "body" ELSE "error"
      [] h.framing = "none"    -> "complete"
      [] OTHER                 -> "error"

ReadHead ==
    /\ ex = "head" /\ stream # <<>>
    /\ NextUnit.part = "head"
    /\ rd' = [left |-> IF NextUnit.framing = "length" THEN NextUnit.size ELSE 0,
              body |-> <<>>, of |-> NextUnit.of,
              size |-> IF NextUnit.framing = "none" THEN 0 ELSE NextUnit.size]
    /\ ex' = AfterHead(NextUnit)
    /\ stream' = Tail(stream)
    /\ UNCHANGED <<fd, peer, owed, eof, client>>

\* read_body appends what the body has room for.
AppendBlock(body, u) == IF Len(body) < MaxBody THEN Append(body, u) ELSE body

ReadBlock ==
    /\ ex = "body" /\ stream # <<>>
    /\ NextUnit.part = "body"
    /\ rd' = [rd EXCEPT !.left = @ - 1, !.body = AppendBlock(@, NextUnit)]
    /\ ex' = IF rd.left = 1 THEN "complete" ELSE "body"
    /\ stream' = Tail(stream)
    /\ UNCHANGED <<fd, peer, owed, eof, client>>

\* A chunk: its size, its data, the end of its line; the last has size 0.
ReadSize ==
    /\ ex = "size" /\ stream # <<>>
    /\ NextUnit.part = "size"
    /\ ex' = IF NextUnit.size = 0 THEN "last" ELSE "chunk"
    /\ stream' = Tail(stream)
    /\ UNCHANGED <<fd, peer, owed, eof, client, rd>>

ReadChunk ==
    /\ ex = "chunk" /\ stream # <<>>
    /\ NextUnit.part = "body"
    /\ rd' = [rd EXCEPT !.body = AppendBlock(@, NextUnit)]
    /\ ex' = "eol"
    /\ stream' = Tail(stream)
    /\ UNCHANGED <<fd, peer, owed, eof, client>>

ReadEol ==
    /\ ex \in {"eol", "last"} /\ stream # <<>>
    /\ NextUnit.part = "eol"
    /\ ex' = IF ex = "last" THEN "complete" ELSE "size"
    /\ stream' = Tail(stream)
    /\ UNCHANGED <<fd, peer, owed, eof, client, rd>>

\* What is read is not what is expected: an invalid version, field, size or
\* line; or a body, as it should be, that cannot be inflated.
Expected == CASE ex = "head" -> {"head"}
              [] ex = "body" -> {"body"}
              [] ex = "chunk" -> {"body"}
              [] ex = "size" -> {"size"}
              [] OTHER -> {"eol"}

ReadMalformed ==
    /\ Reading /\ stream # <<>>
    /\ NextUnit.part \notin Expected \/ ex = "body"
    /\ ex' = "error"
    /\ stream' = Tail(stream)
    /\ UNCHANGED <<fd, peer, owed, eof, client, rd>>

\* The server has closed the connection before the answer was complete, or
\* the socket fails.
ReadEof ==
    /\ Reading
    /\ stream = <<>> /\ eof
    /\ ex' = "error"
    /\ UNCHANGED <<conn, client, rd>>

\* The answer does not come within _receive_timeout; it may come later.
ReadTimeout ==
    /\ Reading
    /\ ex' = "error"
    /\ UNCHANGED <<conn, client, rd>>

\* The end of recv_answer: the Keep-Alive parameters, or their defaults.  The
\* timer goes on with the value it was started with.
RecvAnswer(t, m) ==
    /\ ex = "complete"
    /\ timeout' = t
    /\ max' = m
    /\ idle' = 0
    /\ ex' = "answered"
    /\ UNCHANGED <<conn, count, ka, rd>>

Read ==
    \/ ReadHead \/ ReadBlock \/ ReadSize \/ ReadChunk \/ ReadEol
    \/ ReadMalformed \/ ReadEof \/ ReadTimeout
    \/ \E t \in Timeouts, m \in Maxes : RecvAnswer(t, m)

-----------------------------------------------------------------------------
(***************************************************************************)
(* The server                                                              *)
(***************************************************************************)
Framings == {"length", "chunked", "none", "bad"}

HeadUnit(o, f, n) == [part |-> "head", of |-> o, framing |-> f, size |-> n]
Unit(o, p, n) == [part |-> p, of |-> o, framing |-> "none", size |-> n]

\* A chunk is one block: its size line, the block, the end of the line.
Chunks(o, n) ==
    [i \in 1..3 * n |-> Unit(o, <<"size", "body", "eol">>[1 + ((i - 1) % 3)],
                             1 + ((i - 1) \div 3))]

Message(o, f, n) ==
    <<HeadUnit(o, f, n)>> \o
    (IF f = "chunked"
     THEN Chunks(o, n) \o <<Unit(o, "size", 0), Unit(o, "eol", 0)>>
     ELSE [i \in 1..n |-> Unit(o, "body", i)])

\* The server answers the oldest request; it may break off after k units.
ServerAnswers(f, n, k) ==
    /\ fd /\ ~eof /\ owed # <<>>
    /\ stream' = stream \o SubSeq(Message(Head(owed), f, n), 1, k)
    /\ eof' = (k < Len(Message(Head(owed), f, n)))
    /\ owed' = Tail(owed)
    /\ UNCHANGED <<fd, peer, client, ex, rd>>

ServerCloses ==
    /\ fd /\ ~eof
    /\ eof' = TRUE
    /\ UNCHANGED <<fd, peer, owed, stream, client, ex, rd>>

Server ==
    \/ \E f \in Framings, n \in 0..MaxBlocks :
          \E k \in 0..Len(Message("new", f, n)) : ServerAnswers(f, n, k)
    \/ ServerCloses

\* Time passes, during an exchange or between two of them.
Tick ==
    /\ ka' = IF ka < 0 THEN ka ELSE ka - 1
    /\ idle' = IF ex \notin {"none", "start"} \/ idle > DefaultTimeout THEN idle ELSE idle + 1
    /\ UNCHANGED <<conn, count, max, timeout, ex, rd>>
=============================================================================
