----------------------------- MODULE PPInterface -----------------------------
(***************************************************************************)
(* net::PPInterface (src/src/net/PPInterface.cpp) and the PPP over TLS     *)
(* framing below it (src/src/net/pppossl.c), as the tunneler thread drives *)
(* them.                                                                   *)
(*                                                                         *)
(* The stream of the peer is abstracted to positions: byte n is the number *)
(* n, a frame is the position of its first byte, the size of its payload   *)
(* and whether its header is consistent.  The peer cuts the stream in TLS  *)
(* records as it likes.  select() looks at the socket, hence at the        *)
(* records mbedtls has not fetched; a fetched record may be longer than    *)
(* the buffer of PPInterface::recv, and its rest waits inside mbedtls.     *)
(*                                                                         *)
(* pppossl_input is a loop over the bytes of one read: one iteration is    *)
(* one action, and the loop is running while l > 0.                        *)
(***************************************************************************)
EXTENDS PBufQueue

CONSTANTS
    HeaderSize,   \* sizeof(ppp_header), 6 in the code
    MaxFrame,     \* longest payload accepted, 16 * 1024 in the code
    RecvBuf,      \* size of the buffer of PPInterface::recv, 4096 in the code
    MaxRecord,    \* longest TLS record, 16384 in the code
    Mtu,          \* longest payload written
    MaxFrames,    \* bound: number of frames the peer sends in a behaviour
    MaxStream,    \* bound: number of bytes the peer sends in a behaviour
    Null          \* the null pointer

ASSUME PPInterfaceAssumption ==
    /\ HeaderSize \in Nat \ {0}
    /\ MaxFrame \in Nat \ {0}
    /\ RecvBuf \in Nat \ {0}
    /\ MaxRecord \in Nat \ {0}
    /\ Mtu \in Nat \ {0}
    /\ MaxFrames \in Nat /\ MaxStream \in Nat
    /\ Null \notin Seq(Nat)

VARIABLES
    \* the peer and the TLS layer
    frames,     \* the frames the peer has put in its stream
    records,    \* ends of the TLS records that wait in the socket
    wire,       \* position of the last byte the peer has put in a record
    fetched,    \* position of the last byte mbedtls has fetched
    eof,        \* the peer has closed its side
    connected,  \* _tunnel.is_connected()
    \* pppossl_input
    s, l,       \* next byte of the buffer, number of bytes left in it
    in,         \* the parser: state, counter, header, data
    delivered,  \* the payloads given to ppp_input
    pbufs,      \* payload pbufs allocated and neither freed nor given away
    \* PPP and the sending side
    phase,      \* _pcb and its phase
    q,          \* _output_queue
    idle,       \* last_xmit is 0 or more than PPP_MAXIDLE ago
    term, disc  \* ticks since LCP terminates; since disconnect_timeout is armed

input == <<s, l, in, delivered, pbufs>>
net == <<frames, records, wire, fetched, eof>>
timers == <<term, disc>>
vars == <<net, connected, input, phase, q, idle, timers>>

S == INSTANCE PppStream WITH received <- delivered, up <- connected

\* memset(&pppossl->in, 0, ...)
InReset == [state |-> "PP_HEADER", counter |-> 0,
            header |-> [i \in 1..HeaderSize |-> 0], data |-> Null]

Init ==
    /\ frames = <<>> /\ records = <<>>
    /\ wire = 0 /\ fetched = 0 /\ eof = FALSE /\ connected = TRUE
    /\ s = 1 /\ l = 0 /\ in = InReset /\ delivered = <<>> /\ pbufs = 0
    /\ phase = "closed" /\ q = EmptyQueue /\ idle = TRUE
    /\ term = 0 /\ disc = -1

-----------------------------------------------------------------------------
(***************************************************************************)
(* The peer                                                                *)
(***************************************************************************)
\* _pcb is not null
HasPcb == phase \notin {"closed", "released", "leaked"}

NextFirst ==
    IF frames = <<>> THEN 1
    ELSE LET f == frames[Len(frames)] IN f.first + HeaderSize + f.size

\* The content of the stream does not depend on the program: its frames are
\* laid out before any of them is sent.
PeerFrame(len, sound) ==
    /\ Len(frames) < MaxFrames /\ NextFirst + HeaderSize + len <= MaxStream + 1
    /\ sound \/ len = 1              \* nothing depends on the size of the others
    /\ phase = "closed" /\ wire = 0 /\ ~eof
    /\ frames' = Append(frames, [first |-> NextFirst, size |-> len, sound |-> sound])
    /\ UNCHANGED <<records, wire, fetched, eof, connected, input, phase, q, idle, timers>>

PeerRecord(n) ==
    /\ connected /\ HasPcb /\ ~eof
    /\ wire + n < NextFirst
    /\ wire' = wire + n
    /\ records' = Append(records, wire + n)
    /\ UNCHANGED <<frames, fetched, eof, connected, input, phase, q, idle, timers>>

PeerCloses ==
    /\ connected /\ HasPcb
    /\ eof' = TRUE
    /\ UNCHANGED <<frames, records, wire, fetched, connected, input, phase, q, idle, timers>>

-----------------------------------------------------------------------------
(***************************************************************************)
(* Life cycle                                                              *)
(***************************************************************************)
\* open(): pppossl_create and ppp_connect, whose pppossl_connect resets the
\* parser and starts LCP.
Open ==
    /\ phase = "closed"
    /\ connected
    /\ phase' = "establish"
    /\ in' = InReset
    /\ idle' = TRUE
    /\ UNCHANGED <<net, connected, s, l, delivered, pbufs, q, timers>>

\* No memory for a control block, or ppp_connect fails: the thread ends.
OpenFails ==
    /\ phase = "closed"
    /\ phase' = "released"
    /\ UNCHANGED <<net, connected, input, q, idle, timers>>

\* What a frame may do to PPP: negotiation succeeds or fails, the peer starts
\* it again, the peer terminates the link.
PppPhases ==
    CASE phase = "establish" -> {"establish", "running", "terminate", "dead"}
      [] phase = "running"   -> {"running", "establish", "terminate", "dead"}
      [] phase = "terminate" -> {"terminate", "dead"}
      [] OTHER               -> {phase}

\* LCP gives the negotiation up: its requests are not answered.
LcpTimeout ==
    /\ l = 0
    /\ phase = "establish"
    /\ phase' = "dead"
    /\ UNCHANGED <<net, connected, input, q, idle, timers>>

\* The tunneler enters DISCONNECTING: close(!connected), and disconnect_timeout
\* is armed.  Without a carrier a running link dies at once, otherwise LCP
\* sends its Terminate-Request; a link already terminating is left alone.
Close ==
    /\ l = 0
    /\ HasPcb
    /\ disc = -1
    /\ disc' = 0
    /\ phase' = IF phase = "dead" \/ (phase = "running" /\ ~connected)
                THEN "dead" ELSE "terminate"
    /\ UNCHANGED <<net, connected, input, q, idle, term>>

\* A tick is 25 s.  disconnect_timeout is two of them; within one, LCP transmits
\* its FSM_DEFMAXTERMREQS (2) requests, FSM_DEFTIMEOUT (6 s) apart, and then
\* takes the link for closed.
TermTicks == 1
DisconnectTicks_Short == 0                      \* mutant: less than 12 s
DisconnectTicks == 2

Tick ==
    /\ l = 0
    /\ phase = "terminate" \/ disc >= 0
    /\ HasPcb
    /\ disc < DisconnectTicks
    /\ ~(phase = "dead" /\ disc >= 0)            \* the thread is about to end
    /\ term' = IF phase = "terminate" THEN term + 1 ELSE term
    /\ phase' = IF phase = "terminate" /\ term + 1 = TermTicks THEN "dead" ELSE phase
    /\ disc' = IF disc >= 0 THEN disc + 1 ELSE disc
    /\ UNCHANGED <<net, connected, input, q, idle>>

\* The end of the thread: release() frees the control block of a dead link,
\* with the payload in progress (pppossl_destroy), and the tunnel is shut
\* down.  ppp_free refuses a link that is not dead, which leaks it.
Free_Always(data) == 1                           \* mutant: no test for null

pppossl_input_free_current_packet(data) == IF data = Null THEN 0 ELSE 1

Release ==
    /\ l = 0
    /\ disc >= 0
    /\ HasPcb
    /\ phase = "dead" \/ disc >= DisconnectTicks
    /\ phase' = IF phase = "dead" THEN "released" ELSE "leaked"
    /\ IF phase = "dead"
       THEN pbufs' = pbufs - pppossl_input_free_current_packet(in.data) /\ in' = InReset
       ELSE UNCHANGED <<pbufs, in>>
    /\ connected' = FALSE
    /\ UNCHANGED <<net, s, l, delivered, q, idle, timers>>

-----------------------------------------------------------------------------
(***************************************************************************)
(* Sending                                                                 *)
(***************************************************************************)
OutFrame(n) == <<[first |-> 0, len |-> HeaderSize + n, tot |-> HeaderSize + n,
                  push |-> FALSE]>>

\* pppossl_write: there is no memory for the frame, or it enters the queue as a
\* whole, or it is dropped as a whole and last_xmit becomes 0.
pppossl_write(n) ==
    \/ UNCHANGED <<q, idle>>
    \/ IF can_push(q, OutFrame(n))
       THEN q' = push(q, OutFrame(n)) /\ idle' = FALSE
       ELSE q' = q /\ idle' = TRUE

\* PPP or IP sends a packet of n bytes, from a timer, for a forwarder, or as
\* an answer within ppp_input (the parser is reset just after it returns).
Write(n) ==
    /\ phase \in {"establish", "running", "terminate"}
    /\ l = 0 \/ in = InReset
    /\ pppossl_write(n)
    /\ UNCHANGED <<net, connected, input, phase, timers>>

\* send_keep_alive(), called at every turn of the loop while RUNNING.
send_keep_alive_Busy ==                          \* mutant: the test inverted
    /\ l = 0 /\ phase = "running" /\ disc = -1 /\ ~idle
    /\ pppossl_write(1)
    /\ UNCHANGED <<net, connected, input, phase, timers>>

send_keep_alive ==
    /\ l = 0
    /\ phase = "running"
    /\ disc = -1
    /\ idle
    /\ pppossl_write(1)
    /\ UNCHANGED <<net, connected, input, phase, timers>>

MaxIdlePasses ==
    /\ ~idle
    /\ idle' = TRUE
    /\ UNCHANGED <<net, connected, input, phase, q, timers>>

\* send(): the tunnel takes n bytes of the first pbuf.
Send(n) ==
    /\ l = 0 /\ connected /\ HasPcb
    /\ ~is_empty(q)
    /\ can_move(q, n)
    /\ q' = move(q, n)
    /\ UNCHANGED <<net, connected, input, phase, idle, timers>>

\* send() fails, or recv() meets an error: the tunneler shuts the tunnel down.
TunnelFails ==
    /\ l = 0 /\ connected /\ HasPcb
    /\ connected' = FALSE
    /\ UNCHANGED <<net, input, phase, q, idle, timers>>

-----------------------------------------------------------------------------
(***************************************************************************)
(* Receiving                                                               *)
(***************************************************************************)
Pending == s <= fetched                \* mbedtls holds bytes not handed out

Readable_CloseOnly == eof              \* mutant: only watches for the end

Readable == records # <<>> \/ eof      \* what select() can see

MinOf(a, b) == IF a < b THEN a ELSE b

\* recv(): mbedtls_ssl_read hands out what is left of the current record, or
\* fetches the next one.
Recv ==
    /\ l = 0 /\ connected /\ HasPcb
    /\ Readable
    /\ Pending \/ records # <<>>
    /\ fetched' = IF Pending THEN fetched ELSE Head(records)
    /\ records' = IF Pending THEN records ELSE Tail(records)
    /\ l' = MinOf(RecvBuf, fetched' - s + 1)
    /\ UNCHANGED <<frames, wire, eof, connected, s, in, delivered, pbufs, phase, q, idle, timers>>

RecvEof ==
    /\ l = 0 /\ connected /\ HasPcb
    /\ eof /\ ~Pending /\ records = <<>>
    /\ connected' = FALSE
    /\ UNCHANGED <<net, input, phase, q, idle, timers>>

Advance(n) == s' = s + n /\ l' = l - n

\* The frame whose header these bytes are; bytes that are not one of the
\* headers of the stream are taken for an inconsistent header.
FrameOf(header) ==
    {k \in 1..Len(frames) : \A i \in 1..HeaderSize : header[i] = frames[k].first + i - 1}

\* header[2], the payload size of a header that is one
frame_size(header) == frames[CHOOSE k \in FrameOf(header) : TRUE].size

HeaderOk(header) ==
    \E k \in FrameOf(header) : frames[k].sound /\ frames[k].size <= MaxFrame

pbuf_alloc(len) == [i \in 1..len |-> 0]

\* drop: the payload is freed, the parser reset, the rest of the buffer
\* abandoned; recv() returns false and the tunneler shuts the tunnel down.
drop_KeepData(data) == 0                          \* mutant: no pbuf_free

drop_free(data) == IF data = Null THEN 0 ELSE 1

Drop ==
    /\ pbufs' = pbufs - drop_free(in.data)
    /\ in' = InReset
    /\ Advance(l)
    /\ connected' = FALSE
    /\ UNCHANGED <<net, delivered, phase, q, idle, timers>>

\* The byte at s is stored in the header.
NewHeader == [in.header EXCEPT ![in.counter + 1] = s]

InputHeaderByte ==
    /\ l > 0 /\ in.state = "PP_HEADER"
    /\ in.counter + 1 < HeaderSize
    /\ in' = [in EXCEPT !.header = NewHeader, !.counter = @ + 1]
    /\ Advance(1)
    /\ UNCHANGED <<net, connected, delivered, pbufs, phase, q, idle, timers>>

\* The header is complete; its payload is allocated.
StartData_KeepCounter(header) ==                  \* mutant: counter not reset
    [in EXCEPT !.state = "PP_DATA", !.header = header, !.data = pbuf_alloc(frame_size(header))]

StartData(header) ==
    [state |-> "PP_DATA", counter |-> 0, header |-> header,
     data |-> pbuf_alloc(frame_size(header))]

InputHeaderDone ==
    /\ l > 0 /\ in.state = "PP_HEADER"
    /\ in.counter + 1 = HeaderSize
    /\ HeaderOk(NewHeader)
    /\ in' = StartData(NewHeader)
    /\ pbufs' = pbufs + 1
    /\ Advance(1)
    /\ UNCHANGED <<net, connected, delivered, phase, q, idle, timers>>

\* The header cannot be accepted, or there is no memory for the payload.
InputHeaderDrop ==
    /\ l > 0 /\ in.state = "PP_HEADER"
    /\ in.counter + 1 = HeaderSize
    /\ Drop

data_len_All == l                                 \* mutant: no min()
data_len == MinOf(frame_size(in.header) - in.counter, l)

\* pbuf_take_at: refused beyond the end, and at the end of an empty pbuf.
can_take(len) ==
    in.counter < Len(in.data) /\ in.counter + len <= Len(in.data)

pbuf_take_at_Start(len) ==                        \* mutant: ignores the offset
    [i \in 1..Len(in.data) |-> IF i <= len THEN s + i - 1 ELSE in.data[i]]

pbuf_take_at(len) ==
    [i \in 1..Len(in.data) |->
        IF i \in in.counter + 1 .. in.counter + len
        THEN s + i - in.counter - 1 ELSE in.data[i]]

InputDataPart ==
    /\ l > 0 /\ in.state = "PP_DATA"
    /\ can_take(data_len)
    /\ in.counter + data_len # frame_size(in.header)
    /\ in' = [in EXCEPT !.data = pbuf_take_at(data_len), !.counter = @ + data_len]
    /\ Advance(data_len)
    /\ UNCHANGED <<net, connected, delivered, pbufs, phase, q, idle, timers>>

\* The payload is complete: it is given to ppp_input and the parser is reset.
InputDataFrame ==
    /\ l > 0 /\ in.state = "PP_DATA"
    /\ can_take(data_len)
    /\ in.counter + data_len = frame_size(in.header)
    /\ delivered' = Append(delivered, pbuf_take_at(data_len))
    /\ pbufs' = pbufs - 1
    /\ in' = InReset
    /\ Advance(data_len)
    /\ phase' \in PppPhases
    /\ UNCHANGED <<net, connected, q, idle, timers>>

InputDataDrop ==
    /\ l > 0 /\ in.state = "PP_DATA"
    /\ ~can_take(data_len)
    /\ Drop

Input ==
    \/ InputHeaderByte \/ InputHeaderDone \/ InputHeaderDrop
    \/ InputDataPart \/ InputDataFrame \/ InputDataDrop

-----------------------------------------------------------------------------
Next ==
    \/ \E len \in 0..MaxFrame + 1, sound \in BOOLEAN : PeerFrame(len, sound)
    \/ \E n \in 1..MaxRecord : PeerRecord(n)
    \/ PeerCloses
    \/ Open \/ OpenFails \/ LcpTimeout \/ Close \/ Tick \/ Release
    \/ \E n \in 1..Mtu : Write(n)
    \/ send_keep_alive
    \/ MaxIdlePasses
    \/ \E n \in 1..HeaderSize + Mtu : Send(n)
    \/ TunnelFails
    \/ Recv
    \/ RecvEof
    \/ Input

Spec == Init /\ [][Next]_vars

(***************************************************************************)
(* The tunneler opens the interface, runs pppossl_input to its end, reads  *)
(* when select reports the tunnel readable, writes when it is writable     *)
(* (the gateway does not stop reading for ever), and calls                 *)
(* send_keep_alive at every turn, which finds memory some day; timers      *)
(* expire and a dead link is freed.                                        *)
(***************************************************************************)
Fairness ==
    /\ WF_vars(Open \/ OpenFails)
    /\ WF_vars(Input)
    /\ WF_vars(Recv)
    /\ WF_vars(\E n \in 1..HeaderSize + Mtu : Send(n))
    /\ WF_vars(send_keep_alive /\ idle' = FALSE)
    /\ WF_vars(Tick)
    /\ WF_vars(Release)

FairSpec == Spec /\ Fairness

-----------------------------------------------------------------------------
(***************************************************************************)
(* Properties                                                              *)
(***************************************************************************)
Phases == {"closed", "establish", "running", "terminate", "dead", "released", "leaked"}

\* Every variable keeps its type.
TypeOK ==
    /\ frames \in Seq(S!Frame)
    /\ records \in Seq(Nat)
    /\ wire \in Nat /\ fetched \in Nat /\ eof \in BOOLEAN /\ connected \in BOOLEAN
    /\ s \in Nat \ {0} /\ l \in Nat
    /\ in \in [state : {"PP_HEADER", "PP_DATA"}, counter : Nat,
               header : [1..HeaderSize -> Nat], data : Seq(Nat) \cup {Null}]
    /\ delivered \in Seq(Seq(Nat)) /\ pbufs \in Nat
    /\ phase \in Phases /\ q \in Queue /\ idle \in BOOLEAN
    /\ term \in Nat /\ disc \in Int

\* What pppossl_input hands to ppp_input is a prefix of the frames of the peer,
\* each with exactly its own payload, however the stream was cut in records and
\* reads; no frame follows one that had to be dropped.
FramesWhole ==
    /\ Len(delivered) <= Len(frames)
    /\ \A i \in 1..Len(delivered) :
          S!Acceptable(frames[i]) /\ delivered[i] = S!Payload(frames[i])

\* pppossl_input implements the abstract stream of frames.
FrameStream == S!Spec

\* Every payload pbuf is freed or given to PPP exactly once: the only one alive
\* is the one the parser holds, through drop, ppp_input and pppossl_destroy.
PayloadOwnedOnce == pbufs = (IF in.data = Null THEN 0 ELSE 1)

\* The parser of a tunnel that is up stands exactly where the next frame of the
\* stream has been read to: it never loses its step, so that the check of the
\* header is only ever made on a header.
ParserInStep ==
    connected =>
        LET k == Len(delivered) + 1
            base == IF k <= Len(frames) THEN frames[k].first ELSE NextFirst
        IN  /\ in.state = "PP_HEADER" =>
                  s = base + in.counter /\ in.counter < HeaderSize
            /\ in.state = "PP_DATA" =>
                  s = base + HeaderSize + in.counter

\* release() never meets a link that is not dead: LCP gives up long before
\* disconnect_timeout, so that no PPP descriptor is leaked ("If the interface
\* remains active, a PPP memory descriptor could be leaked", Tunneler.cpp).
NeverLeaked == phase # "leaked"

\* Frame k and those before it have entirely reached the socket and can be
\* accepted.
Arrived(k) ==
    /\ k <= Len(frames)
    /\ frames[k].first + HeaderSize + frames[k].size <= wire + 1
    /\ \A i \in 1..k : S!Acceptable(frames[i])

Handled(k) == Len(delivered) >= k \/ ~connected \/ ~HasPcb

\* A frame that has entirely reached the socket is given to PPP, unless the
\* tunnel goes down: the tunneler never sleeps on data it has been sent.
FramesArrive == \A k \in 1..MaxFrames : Arrived(k) ~> Handled(k)

\* The same, but for the rest of a record that mbedtls holds when nothing more
\* waits in the socket: this is the only place where data can be forgotten, and
\* whatever the gateway sends next brings it out.
FramesRead ==
    \A k \in 1..MaxFrames : Arrived(k) ~> (Handled(k) \/ (Pending /\ records = <<>>))

\* A running link that has been silent for PPP_MAXIDLE sends something, even
\* when its queue was full at the time: the gateway does not drop the session.
SilenceEnds ==
    (phase = "running" /\ idle) ~> (~idle \/ phase # "running" \/ disc >= 0 \/ ~connected)
=============================================================================
