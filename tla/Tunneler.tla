------------------------------ MODULE Tunneler ------------------------------
(***************************************************************************)
(* net::Tunneler (src/src/net/Tunneler.cpp): the thread that owns the PPP  *)
(* interface, the listener and all the port forwarders.  Its run() is one  *)
(* loop; pc is the phase of the loop:                                      *)
(*                                                                         *)
(*   "select"   fill the fd sets and wait          "forward"  feed lwIP    *)
(*   "send"     PPP output to the tunnel           "timers"   lwIP timers  *)
(*   "recv"     tunnel input, lwIP callbacks       "delete"   dead objects *)
(*   "accept"   a new local client                 "switch"   _state       *)
(*   "io"       the local sockets                                          *)
(*                                                                         *)
(* "start" and "stop" are the code before and after the loop.  In "io" and *)
(* "forward" todo holds the forwarders that are still to be visited: they  *)
(* do not share state, so the order of the visits is left open.            *)
(*                                                                         *)
(* Another thread, the controller, may call terminate() at any moment.     *)
(* The PPP link and the TLS socket are external: ppp is the phase of the   *)
(* link, tunnel says whether the socket is connected.                      *)
(*                                                                         *)
(* A behaviour covers the life of the process: when a thread has ended     *)
(* ("done") the controller may create the next tunneler, which finds the   *)
(* control blocks and the DNS requests of lwIP as the last one left them.  *)
(***************************************************************************)
EXTENDS PortForwarder

CONSTANT MaxClients         \* _config.max_clients

ASSUME MaxClientsAssumption == MaxClients \in Nat \ {0}

\* Memory is finite, so is the list of forwarders.
ASSUME SlotAssumption == IsFiniteSet(Slot)

VARIABLES
    state,                \* _state
    pc, todo,             \* the phase of the loop
    terminate,            \* _terminate
    tunnel,               \* _tunnel.is_connected()
    ppp,                  \* "establish", "up", "terminate" or "dead"
    connecting,           \* the local variables of run()
    abort_timeout,
    disconnect_timeout,
    read_set, write_set,  \* the forwarders whose socket is in the fd set
    listen_set            \* the listener is in read_set

loopvars == <<connecting, abort_timeout, disconnect_timeout>>
setvars == <<read_set, write_set, listen_set>>
vars == <<fwvars, state, pc, todo, terminate, tunnel, ppp, loopvars, setvars>>

Init ==
    /\ Init_Forwarders             \* lwip_init, once in the process
    /\ state = "READY"
    /\ pc = "start"
    /\ todo = {}
    /\ terminate = FALSE
    /\ tunnel = TRUE
    /\ ppp = "establish"
    /\ connecting = FALSE
    /\ abort_timeout = "off"
    /\ disconnect_timeout = "off"
    /\ read_set = {}
    /\ write_set = {}
    /\ listen_set = FALSE

active_port_forwarders == {f \in Slot : pf[f].state # "NONE"}
Connected == {f \in Slot : is_connected(pf[f])}
Connecting == {f \in Slot : is_connecting(pf[f])}
connected_count == Cardinality(Connected)
has_connecting_forwarders == Connecting # {}
if4_up == ppp = "up"

-----------------------------------------------------------------------------
\* terminate(), called by the controller thread.
Terminate ==
    /\ pc \notin {"start", "done"}
    /\ ~terminate
    /\ terminate' = TRUE
    /\ UNCHANGED <<fwvars, state, pc, todo, tunnel, ppp, loopvars, setvars>>

\* start() and the beginning of run(): the listener is bound, the thread is
\* started and the PPP interface is opened, or the tunneler is STOPPED.
Start ==
    /\ pc = "start"
    /\ \/ state' = "CONNECTING" /\ pc' = "select"
       \/ "start" \in Faults /\ state' = "STOPPED" /\ pc' = "done"
    /\ UNCHANGED <<fwvars, todo, terminate, tunnel, ppp, loopvars, setvars>>

-----------------------------------------------------------------------------
(***************************************************************************)
(* The select phase.  A socket that is in a set may or may not be ready    *)
(* when its phase comes; select timing out is none of them being ready.    *)
(***************************************************************************)
\* Mutant: forgets the forwarder that is being connected.
listener_ready_NoFlag == if4_up /\ connected_count < MaxClients

listener_ready ==
    if4_up /\ ~connecting /\ connected_count < MaxClients

Select ==
    /\ pc = "select"
    /\ tunnel
    /\ listen_set' = listener_ready
    /\ read_set' = {f \in Connected : can_receive_data(pf[f])}
    /\ write_set' = {f \in Connected : has_data_to_reply(pf[f])}
                    \cup {f \in Slot : /\ is_disconnecting(pf[f])
                                       /\ can_flush_reply_queue(pf[f])}
    /\ pc' = "send"
    /\ UNCHANGED <<fwvars, state, todo, terminate, tunnel, ppp, loopvars>>

\* select returns SOCKET_ERROR.
SelectError ==
    /\ pc = "select"
    /\ tunnel
    /\ "select" \in Faults
    /\ terminate' = TRUE
    /\ pc' = "forward"
    /\ todo' = active_port_forwarders
    /\ UNCHANGED <<fwvars, state, tunnel, ppp, loopvars, setvars>>

\* The tunnel is down: no socket is looked at any more.
SkipSelect ==
    /\ pc = "select"
    /\ ~tunnel
    /\ pc' = "forward"
    /\ todo' = active_port_forwarders
    /\ UNCHANGED <<fwvars, state, terminate, tunnel, ppp, loopvars, setvars>>

\* PPInterface::send and ::recv; a failure shuts the tunnel down.
Send ==
    /\ pc = "send"
    /\ \/ UNCHANGED <<tunnel, terminate>>
       \/ "tunnel" \in Faults /\ tunnel' = FALSE /\ terminate' = TRUE
    /\ pc' = "recv"
    /\ UNCHANGED <<fwvars, state, todo, ppp, loopvars, setvars>>

RecvReturns ==
    /\ pc = "recv"
    /\ \/ UNCHANGED <<tunnel, terminate>>
       \/ "tunnel" \in Faults /\ tunnel' = FALSE /\ terminate' = TRUE
    /\ pc' = "accept"
    /\ UNCHANGED <<fwvars, state, todo, ppp, loopvars, setvars>>

-----------------------------------------------------------------------------
(***************************************************************************)
(* What lwIP does while it processes the input of the tunnel ("recv") or   *)
(* its timers ("timers"): one callback is one step.                        *)
(***************************************************************************)
InLwip == pc = "timers" \/ (pc = "recv" /\ tunnel)
Input == pc = "recv" /\ tunnel /\ if4_up

Callbacks ==
    \/ \E f \in Slot : Input /\ (DnsFound(f) \/ DnsNotFound(f))
    \/ \E p \in Pcb : Input /\ TcpConnected(p)
    \/ \E p \in Pcb : InLwip /\ "rst" \in Faults /\ Connection(p) /\ TcpErr({p})
    \/ \E p \in Pcb, n \in 1..SndBuf : Input /\ TcpSent(p, n)
    \/ \E p \in Pcb : Input /\ ~pcb[p].refused /\ TcpRecvData(p)
    \/ \E p \in Pcb : InLwip /\ pcb[p].refused /\ TcpRecvData(p)
    \/ \E p \in Pcb : Input /\ TcpRecvEof(p)
    \/ \E p \in Pcb : InLwip /\ TcpRecvRest(p)
    \/ \E p \in Pcb : InLwip /\ pcb[p].state = "CLOSING" /\ TcpErr({p})

LwipCallback ==
    /\ Callbacks
    /\ UNCHANGED <<state, pc, todo, terminate, tunnel, ppp, loopvars, setvars>>

\* The timers of lwIP give up a DNS request that is not answered ...
DnsGivesUp(f) ==
    /\ pc = "timers"
    /\ DnsNotFound(f)
    /\ UNCHANGED <<state, pc, todo, terminate, tunnel, ppp, loopvars, setvars>>

\* ... and call dns_found_cb with a forwarder deleted by an earlier session,
\* or by connect().  What this write to freed memory does is not modelled.
DnsCallsDeleted ==
    /\ pc = "timers" \/ Input
    /\ DnsDeleted
    /\ UNCHANGED <<state, pc, todo, terminate, tunnel, ppp, loopvars, setvars>>

\* ... and a connection whose segments or keep-alive probes are not answered
\* because the tunnel is down.
TcpGivesUp(p) ==
    /\ pc = "timers"
    /\ ~tunnel
    /\ Connection(p)
    /\ TcpErr({p})
    /\ UNCHANGED <<state, pc, todo, terminate, tunnel, ppp, loopvars, setvars>>

FireForwarderTimer(f, k) ==
    /\ pc = "timers"
    /\ TimeoutCb(f, k)
    /\ UNCHANGED <<state, pc, todo, terminate, tunnel, ppp, loopvars, setvars>>

FireAbortTimeout ==
    /\ pc = "timers"
    /\ abort_timeout = "armed"
    /\ abort_timeout' = "fired"
    /\ UNCHANGED <<fwvars, state, pc, todo, terminate, tunnel, ppp, connecting,
                   disconnect_timeout, setvars>>

FireDisconnectTimeout ==
    /\ pc = "timers"
    /\ disconnect_timeout = "armed"
    /\ disconnect_timeout' = "fired"
    /\ UNCHANGED <<fwvars, state, pc, todo, terminate, tunnel, ppp, connecting,
                   abort_timeout, setvars>>

PppUp ==
    /\ pc = "recv" /\ tunnel
    /\ ppp = "establish"
    /\ ppp' = "up"
    /\ UNCHANGED <<fwvars, state, pc, todo, terminate, tunnel, loopvars, setvars>>

\* The address of the interface is removed: lwIP aborts every connection.
InterfaceDown == TcpErr({p \in Pcb : Connection(p)})

\* The peer ends the link, or does not answer LCP echoes; or it negotiates an
\* open link again, which takes the network down meanwhile.
PppDown ==
    /\ InLwip
    /\ "ppp" \in Faults
    /\ ppp \in {"establish", "up"}
    /\ \/ ppp' = "terminate"
       \/ if4_up /\ ppp' = "establish"
    /\ IF if4_up THEN InterfaceDown ELSE UNCHANGED fwvars
    /\ UNCHANGED <<state, pc, todo, terminate, tunnel, loopvars, setvars>>

\* The terminate request is answered, or its retries are exhausted.
PppDead ==
    /\ InLwip
    /\ ppp = "terminate"
    /\ ppp' = "dead"
    /\ UNCHANGED <<fwvars, state, pc, todo, terminate, tunnel, loopvars, setvars>>

-----------------------------------------------------------------------------
(***************************************************************************)
(* The accept phase                                                        *)
(***************************************************************************)
ToIO ==
    /\ pc' = "io"
    /\ todo' = active_port_forwarders'
    /\ UNCHANGED <<state, terminate, tunnel, ppp, abort_timeout,
                   disconnect_timeout, setvars>>

NoAccept ==
    /\ pc = "accept"
    /\ UNCHANGED <<fwvars, connecting>>
    /\ ToIO

Accept(f, p) ==
    /\ pc = "accept"
    /\ listen_set
    /\ pf[f].state = "NONE"
    /\ ConnectResolving(f, p) \/ ConnectResolved(f, p, if4_up)
    /\ connecting' = TRUE
    /\ ToIO

AcceptFails ==
    /\ pc = "accept"
    /\ listen_set
    /\ ConnectFails
    /\ UNCHANGED connecting
    /\ ToIO

-----------------------------------------------------------------------------
(***************************************************************************)
(* The local sockets: recv(), then reply(), of one forwarder               *)
(***************************************************************************)
\* The records that may result from the visit of f.
Visited(f) ==
    LET c == pf[f]
        readable == IF f \in read_set THEN {c} \cup recv(c) ELSE {c}
    IN  CASE is_connected(c) ->
               IF f \in write_set
               THEN readable \cup UNION {reply(d) : d \in readable}
               ELSE readable
          [] is_disconnecting(c) /\ f \in write_set
               /\ can_flush_reply_queue(c) ->
               {c} \cup flush_reply_queue(c)
          [] OTHER -> {c}

ForwarderIO(f) ==
    /\ pc = "io"
    /\ f \in todo
    /\ \E c \in Visited(f) : pf' = [pf EXCEPT ![f] = c]
    /\ todo' = todo \ {f}
    /\ UNCHANGED <<pcb, dns, state, pc, terminate, tunnel, ppp, loopvars,
                   setvars>>

\* The sets are not read any more; FD_ZERO empties them before the next use.
IODone ==
    /\ pc = "io"
    /\ todo = {}
    /\ pc' = "forward"
    /\ todo' = active_port_forwarders
    /\ read_set' = {} /\ write_set' = {} /\ listen_set' = FALSE
    /\ UNCHANGED <<fwvars, state, terminate, tunnel, ppp, loopvars>>

-----------------------------------------------------------------------------
(***************************************************************************)
(* Feeding lwIP, deleting what is finished                                 *)
(***************************************************************************)
ForwarderStep(f) ==
    LET c == pf[f]
    IN  /\ pc = "forward"
        /\ f \in todo
        /\ CASE has_connection_timed_out(c) -> AbortSet({f})
             [] is_connected(c) /\ has_data_to_forward(f) -> Forward(f)
             [] is_disconnecting(c) /\ can_flush_forward_queue(c) ->
                  FlushForward(f)
             [] OTHER -> UNCHANGED fwvars
        /\ todo' = todo \ {f}
        /\ UNCHANGED <<state, pc, terminate, tunnel, ppp, loopvars, setvars>>

ForwardDone ==
    /\ pc = "forward"
    /\ todo = {}
    /\ pc' = "timers"
    /\ UNCHANGED <<fwvars, state, todo, terminate, tunnel, ppp, loopvars,
                   setvars>>

\* sys_check_timeouts() returns.
TimersDone ==
    /\ pc = "timers"
    /\ pc' = "delete"
    /\ UNCHANGED <<fwvars, state, todo, terminate, tunnel, ppp, loopvars,
                   setvars>>

Finished == {f \in Slot : has_failed(pf[f]) \/ is_disconnected(pf[f])}

DeleteForwarders ==
    /\ pc = "delete"
    /\ Delete(Finished)
    /\ pc' = "switch"
    /\ UNCHANGED <<state, todo, terminate, tunnel, ppp, loopvars, setvars>>

-----------------------------------------------------------------------------
(***************************************************************************)
(* switch (_state)                                                         *)
(***************************************************************************)
NextIteration == pc' = "select" /\ todo' = todo /\ UNCHANGED setvars

SwitchConnecting ==
    /\ pc = "switch"
    /\ state = "CONNECTING"
    /\ state' = IF terminate THEN "CLOSING"
                ELSE IF if4_up THEN "RUNNING" ELSE state
    /\ UNCHANGED <<fwvars, terminate, tunnel, ppp, loopvars>>
    /\ NextIteration

still_connecting == connecting /\ has_connecting_forwarders

SwitchRunning ==
    /\ pc = "switch"
    /\ state = "RUNNING"
    /\ ~terminate
    /\ connecting' = still_connecting
    /\ UNCHANGED <<fwvars, state, terminate, tunnel, ppp, abort_timeout,
                   disconnect_timeout>>
    /\ NextIteration

\* The forwarders abort_all() aborts.
abort_all == Connected

\* Every connected forwarder is aborted; the timer leaves a second for the
\* RST segments to reach the peer.
SwitchTerminate ==
    /\ pc = "switch"
    /\ state = "RUNNING"
    /\ terminate
    /\ state' = "CLOSING"
    /\ AbortSet(abort_all)
    /\ abort_timeout' = IF abort_all # {} THEN "armed" ELSE "off"
    /\ UNCHANGED <<terminate, tunnel, ppp, connecting, disconnect_timeout>>
    /\ NextIteration

\* PPInterface::close: the link goes down at once when there is no carrier.
PppClose ==
    /\ ppp' = CASE ppp = "up" -> IF tunnel THEN "terminate" ELSE "dead"
                [] ppp = "establish" -> "terminate"
                [] OTHER -> ppp
    /\ IF if4_up THEN InterfaceDown ELSE UNCHANGED fwvars

\* Mutant: no timer guards the end of the PPP link.
StartDisconnectTimer_Missing == disconnect_timeout' = "off"

StartDisconnectTimer == disconnect_timeout' = "armed"

SwitchClosing ==
    /\ pc = "switch"
    /\ state = "CLOSING"
    /\ IF active_port_forwarders = {} \/ abort_timeout = "fired"
       THEN /\ state' = "DISCONNECTING"
            /\ PppClose
            /\ StartDisconnectTimer
       ELSE UNCHANGED <<fwvars, state, ppp, disconnect_timeout>>
    /\ UNCHANGED <<terminate, tunnel, connecting, abort_timeout>>
    /\ NextIteration

SwitchDisconnecting ==
    /\ pc = "switch"
    /\ state = "DISCONNECTING"
    /\ IF ppp = "dead" \/ disconnect_timeout = "fired"
       THEN pc' = "stop" ELSE pc' = "select"
    /\ UNCHANGED <<fwvars, state, todo, terminate, tunnel, ppp, loopvars,
                   setvars>>

\* After the loop: the PPP interface is released (its address goes with it),
\* the timers are removed, the sockets closed, the forwarders destroyed.
Stop ==
    /\ pc = "stop"
    /\ ppp' = "dead"
    /\ Delete(active_port_forwarders)
    /\ abort_timeout' = "off"
    /\ disconnect_timeout' = "off"
    /\ tunnel' = FALSE
    /\ state' = "STOPPED"
    /\ pc' = "done"
    /\ UNCHANGED <<todo, terminate, connecting, setvars>>

\* create_tunnel(): the window thread deletes the tunneler whose thread has
\* ended and makes a new one.  lwIP keeps what it has.
NextTunneler ==
    /\ pc = "done"
    /\ state' = "READY"
    /\ pc' = "start"
    /\ todo' = {}
    /\ terminate' = FALSE
    /\ tunnel' = TRUE
    /\ ppp' = "establish"
    /\ connecting' = FALSE
    /\ abort_timeout' = "off"
    /\ disconnect_timeout' = "off"
    /\ read_set' = {} /\ write_set' = {} /\ listen_set' = FALSE
    /\ UNCHANGED fwvars

-----------------------------------------------------------------------------
LoopStep ==
    \/ Start
    \/ Select \/ SelectError \/ SkipSelect \/ Send \/ RecvReturns
    \/ NoAccept
    \/ \E f \in Slot, p \in Pcb : Accept(f, p)
    \/ AcceptFails
    \/ \E f \in Slot : ForwarderIO(f)
    \/ IODone
    \/ \E f \in Slot : ForwarderStep(f)
    \/ ForwardDone
    \/ TimersDone
    \/ DeleteForwarders
    \/ SwitchConnecting \/ SwitchRunning \/ SwitchTerminate
    \/ SwitchClosing \/ SwitchDisconnecting
    \/ Stop

Environment ==
    \/ Terminate
    \/ LwipCallback
    \/ \E f \in Slot : DnsGivesUp(f)
    \/ DnsCallsDeleted
    \/ \E p \in Pcb : TcpGivesUp(p)
    \/ \E f \in Slot, k \in TimerKind : FireForwarderTimer(f, k)
    \/ FireAbortTimeout
    \/ FireDisconnectTimeout
    \/ PppUp \/ PppDown \/ PppDead

\* The program may end when its thread has; any other state without a
\* successor is a deadlock.
Done == pc = "done" /\ UNCHANGED vars

Next == LoopStep \/ Environment \/ NextTunneler \/ Done

Spec == Init /\ [][Next]_vars

(***************************************************************************)
(* Fairness.  The thread keeps running its loop; sys_check_timeouts calls  *)
(* every timer that is due, and time passes, so that a timer that stays in *)
(* the list fires; lwIP's own timers give up DNS requests, and connections *)
(* once the tunnel is down.  Nothing is assumed of the peers: no answer,   *)
(* no acknowledgement, no readiness of a socket.                           *)
(***************************************************************************)
Fairness ==
    /\ WF_vars(LoopStep)
    /\ \A f \in Slot, k \in TimerKind : SF_vars(FireForwarderTimer(f, k))
    /\ SF_vars(FireAbortTimeout)
    /\ SF_vars(FireDisconnectTimeout)
    /\ \A f \in Slot : SF_vars(DnsGivesUp(f))
    /\ \A p \in Pcb : SF_vars(TcpGivesUp(p))

FairSpec == Spec /\ Fairness

-----------------------------------------------------------------------------
(***************************************************************************)
(* Safety                                                                  *)
(***************************************************************************)

\* Every variable keeps its type.
TypeOK ==
    /\ pf \in [Slot -> Forwarder]
    /\ pcb \in [Pcb -> ControlBlock]
    /\ dns \subseteq Slot \cup {Gone}
    /\ state \in {"READY", "CONNECTING", "RUNNING", "CLOSING",
                  "DISCONNECTING", "STOPPED"}
    /\ pc \in {"start", "select", "send", "recv", "accept", "io", "forward",
               "timers", "delete", "switch", "stop", "done"}
    /\ todo \subseteq Slot
    /\ terminate \in BOOLEAN
    /\ tunnel \in BOOLEAN
    /\ ppp \in {"establish", "up", "terminate", "dead"}
    /\ connecting \in BOOLEAN
    /\ abort_timeout \in Timer
    /\ disconnect_timeout \in Timer
    /\ read_set \subseteq Slot
    /\ write_set \subseteq Slot
    /\ listen_set \in BOOLEAN

\* _local_client points to a live control block of the right kind whenever a
\* method or a callback of the forwarder may still use it: no tcp_write,
\* tcp_connect, tcp_close or tcp_abort on a block lwIP has freed.
ClientAlive ==
    \A f \in Slot :
        LET c == pf[f]
            t == pcb[c.local_client]
        IN  /\ is_connecting(c) =>
                  /\ c.local_client # NoPcb
                  /\ IF f \in dns THEN t.state = "CLOSED"
                     ELSE t.state = "SYN_SENT" /\ t.arg = f /\ "err" \in t.cbs
            /\ is_connected(c) => c.local_client # NoPcb
            /\ is_connected(c) \/ (is_disconnecting(c) /\ c.local_client # NoPcb)
                  => t.state = "ESTABLISHED" /\ t.arg = f /\ "err" \in t.cbs

\* What lwIP may still call finds its forwarder: a control block that can call
\* tcp_err_cb or tcp_recv_cb belongs to a forwarder that exists and uses that
\* very block, and a pending DNS request made for a forwarder that has not been
\* deleted finds it waiting, not aborted, failed or already connected.  The
\* requests of deleted forwarders are the subject of NoDnsToDeleted below.
CallbacksReachOwner ==
    /\ \A p \in Pcb :
          pcb[p].cbs \cap {"err", "recv"} # {} =>
              /\ pcb[p].arg \in Slot
              /\ pf[pcb[p].arg].local_client = p
              /\ pf[pcb[p].arg].state \in {"CONNECTING", "CONNECTED", "DISCONNECTING"}
    /\ \A f \in dns \ {Gone} : is_connecting(pf[f])

\* Where a DNS request can be left without its forwarder: when tcp_new fails in
\* connect(), and when the thread ends with a name still unresolved.  Neither
\* the loop, nor abort(), nor a timer ever does.
LeftBehind ==
    \/ pc = "accept" /\ "tcp_new" \in Faults /\ Allocatable = {}
    \/ pc = "stop" /\ Connecting \cap dns # {}

RequestsLeftBehind == [][(Gone \in dns' \ dns) => LeftBehind]_vars

\* A forwarder in the DISCONNECTING state has exactly one side left to flush:
\* with none it would never leave the state, with both it could still relay.
OneSideLeft ==
    \A f \in Slot :
        is_disconnecting(pf[f]) =>
            (pf[f].local_server <=> pf[f].local_client = NoPcb)

\* A timer runs only in the phase it limits, and never after its object is
\* deleted: a late connect timer cannot abort an established connection, and
\* lwIP's timeout list holds one entry per forwarder at most.
TimerMatchesState ==
    \A f \in Slot :
        LET c == pf[f]
        IN  /\ c.connect_timeout # "off" =>
                  c.state \in {"CONNECTING", "DISCONNECTED"}
            /\ c.fflush_timeout # "off" =>
                  c.state \in {"DISCONNECTING", "DISCONNECTED"} /\ ~c.local_server
            /\ c.rflush_timeout # "off" =>
                  /\ c.state \in {"DISCONNECTING", "DISCONNECTED"}
                  /\ c.local_client = NoPcb
            /\ Cardinality({k \in TimerKind : c[k] # "off"}) <= 1

(***************************************************************************)
(* The tunneler implements the admission of clients that ClientPool        *)
(* specifies.                                                              *)
(***************************************************************************)
phase(f) ==
    CASE pf[f].state = "NONE" -> "idle"
      [] is_connecting(pf[f]) -> "pending"
      [] is_connected(pf[f]) -> "open"
      [] OTHER -> "closing"

Pool == INSTANCE ClientPool WITH client <- [f \in Slot |-> phase(f)]

\* Seen from the local clients the tunneler is a pool of at most max_clients
\* connections, set up one at a time, in which a connection that has begun to
\* close never comes back (ClientPool!Spec), although the listener test only
\* counts the connected ones: the flag connecting has to cover the others from
\* accept to the end of the attempt.
ImplementsPool == Pool!Spec

-----------------------------------------------------------------------------
(***************************************************************************)
(* Liveness                                                                *)
(***************************************************************************)

\* A connection attempt ends: with an answer, with DNS giving up, or with the
\* 10 second connect timer that makes the loop abort it, whether the tunnel
\* is still up or not.  So one attempt that hangs does not keep the listener
\* closed for ever.
ConnectingEnds ==
    /\ \A f \in Slot : is_connecting(pf[f]) ~> ~is_connecting(pf[f])
    /\ connecting /\ state = "RUNNING" ~> ~connecting \/ state # "RUNNING"

\* A forwarder whose local client left ends even if the remote host never
\* acknowledges a byte: flush_forward_queue is called in every iteration and
\* gives up after 10 seconds.
ForwardFlushEnds ==
    \A f \in Slot :
        is_disconnecting(pf[f]) /\ can_flush_forward_queue(pf[f])
            ~> ~is_disconnecting(pf[f])

\* Once the PPP interface is being closed the thread ends, even if the peer
\* never confirms and PPP never dies (the 50 second timer).
DisconnectingStops == state = "DISCONNECTING" ~> state = "STOPPED"

-----------------------------------------------------------------------------
(***************************************************************************)
(* What comments and declarations say and the code does not do             *)
(***************************************************************************)

\* PortForwarder.cpp:366-369: the flush of the reply queue ends on an error,
\* "if all data has been forwarded", or after a fixed delay.  Without error
\* or timeout nothing may be left in the reply queue.
ReplyFlushed ==
    [][\A f \in Slot :
          /\ is_disconnecting(pf[f]) /\ can_flush_reply_queue(pf[f])
          /\ pf[f].rflush_timeout # "fired"
          /\ is_disconnected(pf'[f])
          => pf'[f].reply_queue = 0]_vars

\* The same comment: "or if we are not able to forward in a fixed delay".
ReplyFlushEnds ==
    \A f \in Slot :
        is_disconnecting(pf[f]) /\ can_flush_reply_queue(pf[f])
            ~> ~is_disconnecting(pf[f])

\* PortForwarder.cpp:332 and 523: "Remove all callbacks.  We are not interested
\* to be called on such events": no callback is due to a deleted forwarder.
NoCallbackToDeleted ==
    \A p \in Pcb :
        pcb[p].arg = Gone /\ pcb[p].unacked > 0 => "sent" \notin pcb[p].cbs

\* The destructor of PortForwarder removes "all potential active timers"
\* (PortForwarder.cpp:55) and nothing else: the DNS request of a forwarder that
\* is destroyed at the end of run() stays in the table of lwIP, which calls
\* dns_found_cb with the deleted object during the next session.
NoDnsToDeleted == Gone \notin dns

\* lwipopts.h: the pool holds "the number of simultaneously active TCP
\* connections", so every block of it serves a forwarder or a connection.
NoPcbLost ==
    \A p \in Pcb :
        pcb[p].state = "CLOSED" => \E f \in Slot : pf[f].local_client = p

\* PortForwarder.h:50-53: disconnect() "initiates a graceful disconnection
\* from the server, flushing queues": a flush that ends without error or
\* timeout does not throw away what TCP has still to send.
GracefulDisconnect ==
    [][\A f \in Slot :
          /\ pc = "forward"
          /\ is_disconnecting(pf[f]) /\ is_disconnected(pf'[f])
          /\ pf[f].fflush_timeout # "fired"
          /\ pcb[pf[f].local_client].unacked > 0
          => pcb'[pf[f].local_client].unacked > 0]_vars

\* Tunneler.cpp:310: "All connections are closed, shutdown the ppp interface".
ClosingClosesAll ==
    [][state = "CLOSING" /\ state' = "DISCONNECTING"
          => active_port_forwarders = {}]_vars

\* Tunneler.h:71-74: terminate() "Terminates the tunnel listener": under the
\* fairness above, plus local clients that read what they are sent, the
\* thread ends.
TerminateStops == terminate ~> state = "STOPPED"

FlushReady(f) ==
    /\ ForwarderIO(f)
    /\ is_disconnecting(pf[f])
    /\ pf'[f] \in flush_reply_queue(pf[f])

ReadySpec == FairSpec /\ \A f \in Slot : SF_vars(FlushReady(f))
=============================================================================
