---------------------------- MODULE PortForwarder ----------------------------
(***************************************************************************)
(* net::PortForwarder (src/src/net/PortForwarder.{h,cpp}): one TCP         *)
(* connection of a local client, accepted on _local_server, relayed to the *)
(* remote endpoint through a lwIP TCP control block, _local_client.        *)
(*                                                                         *)
(* The module keeps all the forwarder objects of the tunneler (pf), the    *)
(* pool of lwIP control blocks (pcb) and the pending DNS requests (dns),   *)
(* and gives one action per method and per lwIP callback.  An action here  *)
(* constrains pf, pcb and dns; the module Tunneler says when its loop      *)
(* calls it.                                                               *)
(*                                                                         *)
(* Queues are counted in chunks: their bytes and order are the subject of  *)
(* the module OutputQueue.                                                 *)
(***************************************************************************)
EXTENDS Integers, FiniteSets

CONSTANTS
    Slot,     \* places for forwarder objects in active_port_forwarders
    Pcb,      \* lwIP's pool of TCP control blocks (MEMP_NUM_TCP_PCB)
    QCap,     \* capacity of the forward and of the reply queue
    SndBuf,   \* capacity of the TCP send buffer (TCP_SND_BUF)
    Faults,   \* the faults of the environment that may occur
    NoPcb,    \* nullptr
    NoOne,    \* the callback argument of a control block before tcp_arg
    Gone      \* a callback argument that points to a deleted forwarder

FaultNames == {"dns", "tcp_new", "tcp_connect", "socket", "tcp_write", "rst",
               "tunnel", "select", "ppp", "start"}

ASSUME ForwarderAssumption ==
    /\ QCap \in Nat \ {0}
    /\ SndBuf \in Nat \ {0}
    /\ Faults \subseteq FaultNames
    /\ NoPcb \notin Pcb
    /\ NoOne \notin Slot
    /\ Gone \notin Slot
    /\ NoOne # Gone

VARIABLES
    pf,       \* Slot -> forwarder object, or NoForwarder
    pcb,      \* Pcb -> lwIP control block
    dns       \* callback arguments of the pending DNS requests

fwvars == <<pf, pcb, dns>>

State == {"NONE", "FAILED", "CONNECTING", "CONNECTED", "DISCONNECTING",
          "DISCONNECTED"}

\* A timeout flag and its entry in lwIP's timeout list: "armed" is in the
\* list with the flag false, "fired" is out of the list with the flag true.
Timer == {"off", "armed", "fired"}

Forwarder ==
    [state           : State,
     local_server    : BOOLEAN,               \* is_connected()
     local_client    : Pcb \cup {NoPcb},
     connect_timeout : Timer,
     fflush_timeout  : Timer,
     rflush_timeout  : Timer,
     forward_queue   : 0..QCap,
     reply_queue     : 0..QCap]

NoForwarder ==
    [state |-> "NONE", local_server |-> FALSE, local_client |-> NoPcb,
     connect_timeout |-> "off", fflush_timeout |-> "off",
     rflush_timeout |-> "off", forward_queue |-> 0, reply_queue |-> 0]

Callback == {"err", "sent", "recv"}

(***************************************************************************)
(* A lwIP control block, as far as its user can tell: "CLOSED" is          *)
(* allocated and not connected, "CLOSING" stands for every state after     *)
(* tcp_close in which lwIP still owns the block.                           *)
(***************************************************************************)
ControlBlock ==
    [state   : {"FREE", "CLOSED", "SYN_SENT", "ESTABLISHED", "CLOSING"},
     arg     : Slot \cup {NoOne, Gone},
     cbs     : SUBSET Callback,
     unacked : 0..SndBuf,                     \* chunks in the send buffer
     refused : BOOLEAN]                       \* refused_data

FreePcb == [state |-> "FREE", arg |-> NoOne, cbs |-> {}, unacked |-> 0,
            refused |-> FALSE]

\* tcp_close: a block that holds refused data is reset and freed at once.
tcp_close(t) ==
    IF t.refused \/ t.state \in {"CLOSED", "SYN_SENT"} THEN FreePcb
    ELSE [t EXCEPT !.state = "CLOSING"]

\* tcp_err(pcb, nullptr); tcp_recv(pcb, nullptr)
remove_callbacks(t) == [t EXCEPT !.cbs = @ \ {"err", "recv"}]

Init_Forwarders ==
    /\ pf = [f \in Slot |-> NoForwarder]
    /\ pcb = [p \in Pcb |-> FreePcb]
    /\ dns = {}

-----------------------------------------------------------------------------
is_connected(c) == c.state = "CONNECTED"
is_connecting(c) == c.state = "CONNECTING"
is_disconnecting(c) == c.state = "DISCONNECTING"
is_disconnected(c) == c.state = "DISCONNECTED"
has_failed(c) == c.state = "FAILED"
\* Mutant: the connect timer is not looked at.
has_connection_timed_out_Never(c) == FALSE

has_connection_timed_out(c) == is_connecting(c) /\ c.connect_timeout = "fired"
can_receive_data(c) == c.forward_queue < QCap
has_data_to_reply(c) == c.reply_queue > 0
can_flush_reply_queue(c) == c.local_server
can_flush_forward_queue(c) == c.local_client # NoPcb

-----------------------------------------------------------------------------
(***************************************************************************)
(* connect()                                                               *)
(***************************************************************************)

\* tcp_new: a block of the pool, taken if need be from a closing connection.
Allocatable ==
    LET free == {p \in Pcb : pcb[p].state = "FREE"}
    IN  IF free # {} THEN free ELSE {p \in Pcb : pcb[p].state = "CLOSING"}

\* The part of dns_found_cb that follows a successful resolution, for the
\* forwarder record c and its control block t.
tcp_connect_ok(c) == [c EXCEPT !.connect_timeout = "armed"]
tcp_connect_pcb(t, f) ==
    [t EXCEPT !.state = "SYN_SENT", !.arg = f, !.cbs = Callback]
tcp_connect_failed(c) ==
    [c EXCEPT !.state = "FAILED", !.local_server = FALSE]

Accepted(p) ==
    [NoForwarder EXCEPT !.state = "CONNECTING", !.local_server = TRUE,
                        !.local_client = p]

\* The host name has to be resolved: dns_found_cb will be called.
ConnectResolving(f, p) ==
    /\ p \in Allocatable
    /\ pf' = [pf EXCEPT ![f] = Accepted(p)]
    /\ pcb' = [pcb EXCEPT ![p] = [FreePcb EXCEPT !.state = "CLOSED"]]
    /\ dns' = dns \cup {f}

\* The address is known: dns_found_cb is called within connect().  tcp_connect
\* fails without a route, that is when the PPP interface has just gone down.
ConnectResolved(f, p, routed) ==
    /\ p \in Allocatable
    /\ dns' = dns
    /\ \/ /\ routed
          /\ pf' = [pf EXCEPT ![f] = tcp_connect_ok(Accepted(p))]
          /\ pcb' = [pcb EXCEPT ![p] = tcp_connect_pcb(FreePcb, f)]
       \/ /\ ~routed \/ "tcp_connect" \in Faults
          /\ pf' = [pf EXCEPT ![f] = tcp_connect_failed(Accepted(p))]
          /\ pcb' = [pcb EXCEPT ![p] = FreePcb]

\* connect() returns false, and the forwarder is deleted by its caller: accept
\* or the DNS query failed, or tcp_new found no block, in which case a
\* request just sent keeps a pointer to the forwarder.
ConnectFails ==
    /\ UNCHANGED <<pf, pcb>>
    /\ \/ "socket" \in Faults /\ dns' = dns
       \/ "dns" \in Faults /\ dns' = dns
       \/ "tcp_new" \in Faults /\ Allocatable = {} /\ dns' \in {dns, dns \cup {Gone}}

-----------------------------------------------------------------------------
(***************************************************************************)
(* disconnect() and abort()                                                *)
(***************************************************************************)
disconnect(c) ==
    IF ~is_connected(c) THEN c
    ELSE [c EXCEPT !.state = "DISCONNECTING",
                   !.local_server = FALSE,
                   !.reply_queue = 0,
                   !.fflush_timeout = "armed"]

\* Mutant: the state is left as it was.
tcp_err_KeepState(c) == [c EXCEPT !.local_server = FALSE]

\* The effect of tcp_err_cb on its forwarder.
tcp_err(c) == [c EXCEPT !.state = "DISCONNECTED", !.local_server = FALSE]

\* tcp_abort frees the block and calls tcp_err_cb.
abort(c) ==
    IF ~(is_connected(c) \/ is_connecting(c)) THEN c
    ELSE [tcp_err(c) EXCEPT !.local_client = NoPcb,
                            !.forward_queue = 0,
                            !.reply_queue = 0]

\* abort() of every forwarder of the set F.
AbortSet(F) ==
    /\ pf' = [f \in Slot |-> IF f \in F THEN abort(pf[f]) ELSE pf[f]]
    /\ pcb' = [p \in Pcb |->
                 IF \E f \in F : pf[f].local_client = p THEN FreePcb
                                                        ELSE pcb[p]]
    /\ dns' = dns

-----------------------------------------------------------------------------
(***************************************************************************)
(* The local socket: recv(), reply() and flush_reply_queue().  Each gives  *)
(* the set of records the call may leave behind; a call that fails is      *)
(* followed by disconnect() in the tunneler.                               *)
(***************************************************************************)
recv(c) ==
    {[c EXCEPT !.forward_queue = IF @ < QCap THEN @ + 1 ELSE @],
     disconnect(c)}

reply(c) ==
    IF ~is_connected(c) THEN {c}
    ELSE {[c EXCEPT !.reply_queue = k] : k \in 0..c.reply_queue}
         \cup (IF "socket" \in Faults THEN {disconnect(c)} ELSE {})

close_reply(c) ==
    [c EXCEPT !.state = "DISCONNECTED", !.local_server = FALSE,
              !.forward_queue = 0]

\* What the reply queue holds once the socket took what it could; an error
\* of the socket ends the flush whatever is left.
flush_reply_queue(c) ==
    LET written(k) == [c EXCEPT !.reply_queue = k]
    IN  {IF c.rflush_timeout = "fired" \/ c.forward_queue = 0
         THEN close_reply(written(k)) ELSE written(k) : k \in 0..c.reply_queue}
        \cup (IF "socket" \in Faults
              THEN {close_reply(written(k)) : k \in 0..c.reply_queue} ELSE {})

-----------------------------------------------------------------------------
(***************************************************************************)
(* The TCP control block: forward() and flush_forward_queue().             *)
(***************************************************************************)

\* unsent segments may be present whenever something is not acknowledged.
has_data_to_forward(f) ==
    LET t == pcb[pf[f].local_client]
    IN  t.unacked > 0 \/ (pf[f].forward_queue > 0 /\ t.unacked < SndBuf)

\* Mutant: ignores the free space of the send buffer.
Writable_NoLimit(f) == pf[f].forward_queue

\* OutputQueue::write(tcp_pcb): as much as the send buffer takes.
Writable(f) ==
    LET room == SndBuf - pcb[pf[f].local_client].unacked
    IN  IF pf[f].forward_queue < room THEN pf[f].forward_queue ELSE room

\* What is left of the forward queue after n chunks went to TCP.
forwarded(f, n) == [pf[f] EXCEPT !.forward_queue = @ - n]

Forward(f) ==
    LET p == pf[f].local_client
    IN  /\ \/ /\ pf' = [pf EXCEPT ![f] = forwarded(f, Writable(f))]
              /\ pcb' = [pcb EXCEPT ![p].unacked = @ + Writable(f)]
           \/ \E n \in 0..Writable(f) :
                /\ "tcp_write" \in Faults
                /\ pf' = [pf EXCEPT ![f] = disconnect(forwarded(f, n))]
                /\ pcb' = [pcb EXCEPT ![p].unacked = @ + n]
        /\ dns' = dns

\* Mutant: leaves the callbacks of the control block in place.
close_client_KeepCallbacks(t) == tcp_close(t)

close_client(t) == tcp_close(remove_callbacks(t))

\* Mutant: waits for the queue to be empty.
flush_ends_NoTimeout(c) == c.forward_queue = 0

flush_ends(c) == c.fflush_timeout = "fired" \/ c.forward_queue = 0

\* Ends when the queue is empty, after 10 seconds, or on an error of TCP.
FlushForward(f) ==
    LET p == pf[f].local_client
        closed == [pf[f] EXCEPT !.forward_queue = 0, !.local_client = NoPcb,
                                !.state = "DISCONNECTED"]
        ends == flush_ends(forwarded(f, Writable(f)))
        sent(n) == [pcb[p] EXCEPT !.unacked = @ + n]
    IN  /\ \/ \E n \in 0..Writable(f) :
                /\ (ends /\ n = Writable(f)) \/ "tcp_write" \in Faults
                /\ pf' = [pf EXCEPT ![f] = closed]
                /\ pcb' = [pcb EXCEPT ![p] = close_client(sent(n))]
           \/ /\ ~ends
              /\ pf' = [pf EXCEPT ![f] = forwarded(f, Writable(f))]
              /\ pcb' = [pcb EXCEPT ![p] = sent(Writable(f))]
        /\ dns' = dns

-----------------------------------------------------------------------------
(***************************************************************************)
(* lwIP callbacks                                                          *)
(***************************************************************************)

\* dns_found_cb without an address, or for another name.
DnsNotFound(f) ==
    /\ f \in dns
    /\ dns' = dns \ {f}
    /\ pf' = [pf EXCEPT ![f].state = "FAILED"]
    /\ pcb' = pcb

\* The same for a forwarder that has been deleted.
DnsDeleted ==
    /\ Gone \in dns
    /\ dns' = dns \ {Gone}
    /\ UNCHANGED <<pf, pcb>>

DnsFound(f) ==
    LET p == pf[f].local_client
    IN  /\ f \in dns
        /\ dns' = dns \ {f}
        /\ \/ /\ pf' = [pf EXCEPT ![f] = tcp_connect_ok(@)]
              /\ pcb' = [pcb EXCEPT ![p] = tcp_connect_pcb(@, f)]
           \/ /\ "tcp_connect" \in Faults
              /\ pf' = [pf EXCEPT ![f] = tcp_connect_failed(@)]
              /\ pcb' = [pcb EXCEPT ![p] = tcp_close(@)]

\* Mutant: the connect timer goes on.
connected_KeepTimer(c) == [c EXCEPT !.state = "CONNECTED"]

\* tcp_connected_cb
connected(c) == [c EXCEPT !.state = "CONNECTED", !.connect_timeout = "off"]

TcpConnected(p) ==
    /\ pcb[p].state = "SYN_SENT"
    /\ pcb' = [pcb EXCEPT ![p].state = "ESTABLISHED"]
    /\ pf' = [pf EXCEPT ![pcb[p].arg] = connected(@)]
    /\ dns' = dns

\* The control blocks P are reset or given up: lwIP frees them and calls the
\* tcp_err_cb of those that still have one.
TcpErr(P) ==
    /\ pf' = [f \in Slot |->
                IF \E p \in P : pcb[p].arg = f /\ "err" \in pcb[p].cbs
                THEN tcp_err(pf[f]) ELSE pf[f]]
    /\ pcb' = [p \in Pcb |-> IF p \in P THEN FreePcb ELSE pcb[p]]
    /\ dns' = dns

Connection(p) == pcb[p].state \in {"SYN_SENT", "ESTABLISHED", "CLOSING"}

\* tcp_sent_cb: n chunks are acknowledged.  The only state it touches, the
\* counter _forwarded_bytes, is read nowhere.
TcpSent(p, n) ==
    /\ pcb[p].state \in {"ESTABLISHED", "CLOSING"}
    /\ n <= pcb[p].unacked
    /\ pcb' = [pcb EXCEPT ![p].unacked = @ - n]
    /\ UNCHANGED <<pf, dns>>

\* tcp_recv_cb takes the data: to the reply queue, or away once the local
\* client has left.
accepts(c) == ~c.local_server \/ c.reply_queue < QCap
received(c) ==
    [c EXCEPT !.reply_queue = IF c.local_server /\ accepts(c) THEN @ + 1 ELSE @]

\* tcp_recv_cb with data, new or refused before.
TcpRecvData(p) ==
    LET f == pcb[p].arg
    IN  /\ pcb[p].state = "ESTABLISHED"
        /\ "recv" \in pcb[p].cbs
        /\ pcb' = [pcb EXCEPT ![p].refused = ~accepts(pf[f])]
        /\ pf' = [pf EXCEPT ![f] = received(@)]
        /\ dns' = dns

\* Mutant: keeps the pointer to the closed control block.
eof_KeepClient(c) == [c EXCEPT !.state = "DISCONNECTING", !.forward_queue = 0,
                               !.rflush_timeout = "armed"]

\* tcp_recv_cb with a null buffer: the remote host closed the connection.
eof(c) == [c EXCEPT !.state = "DISCONNECTING", !.local_client = NoPcb,
                    !.forward_queue = 0, !.rflush_timeout = "armed"]

TcpRecvEof(p) ==
    LET f == pcb[p].arg
    IN  /\ pcb[p].state = "ESTABLISHED"
        /\ "recv" \in pcb[p].cbs
        /\ ~pcb[p].refused
        /\ is_connected(pf[f])
        /\ pf' = [pf EXCEPT ![f] = eof(@)]
        /\ pcb' = [pcb EXCEPT ![p] = close_client(@)]
        /\ dns' = dns

\* Refused data that is accepted at last and was the end of the stream:
\* tcp_recv_cb is called twice in a row.
TcpRecvRest(p) ==
    LET f == pcb[p].arg
    IN  /\ pcb[p].state = "ESTABLISHED"
        /\ "recv" \in pcb[p].cbs
        /\ pcb[p].refused
        /\ is_connected(pf[f])
        /\ accepts(pf[f])
        /\ pf' = [pf EXCEPT ![f] = eof(received(@))]
        /\ pcb' = [pcb EXCEPT ![p] = close_client([@ EXCEPT !.refused = FALSE])]
        /\ dns' = dns

\* timeout_cb for the timer k of forwarder f.
TimerKind == {"connect_timeout", "fflush_timeout", "rflush_timeout"}

TimeoutCb(f, k) ==
    /\ pf[f][k] = "armed"
    /\ pf' = [pf EXCEPT ![f][k] = "fired"]
    /\ UNCHANGED <<pcb, dns>>

-----------------------------------------------------------------------------
\* Mutant: leaves the timers of the deleted object in lwIP's list.
destroyed_KeepTimers(c) ==
    [NoForwarder EXCEPT !.connect_timeout = c.connect_timeout,
                        !.fflush_timeout = c.fflush_timeout,
                        !.rflush_timeout = c.rflush_timeout]

\* ~PortForwarder: the timers are removed, the socket and queues destroyed.
destroyed(c) == NoForwarder

\* delete of the forwarders D: what lwIP knew of them now points nowhere.
Delete(D) ==
    /\ pf' = [f \in Slot |-> IF f \in D THEN destroyed(pf[f]) ELSE pf[f]]
    /\ pcb' = [p \in Pcb |-> IF pcb[p].arg \in D
                             THEN [pcb[p] EXCEPT !.arg = Gone] ELSE pcb[p]]
    /\ dns' = (dns \ D) \cup (IF dns \cap D # {} THEN {Gone} ELSE {})
=============================================================================
