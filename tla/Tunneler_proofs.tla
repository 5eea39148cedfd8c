--------------------------- MODULE Tunneler_proofs ---------------------------
(***************************************************************************)
(* Proofs about Tunneler and PortForwarder, for any number of forwarders,  *)
(* control blocks, clients and queue sizes, and every set of faults.       *)
(*                                                                         *)
(* The properties of Tunneler relate a forwarder to the control block it   *)
(* points to; none is inductive alone, because a callback finds its        *)
(* forwarder through the block (arg) and a method finds the block through  *)
(* the forwarder (local_client).  The invariant IInv states both           *)
(* directions and that they agree:                                         *)
(*                                                                         *)
(*   FwInv    forwarders, blocks and DNS requests match one another        *)
(*   LinkInv  without a PPP link no block is attached to a forwarder: what *)
(*            makes the destruction of the forwarders at the end safe      *)
(*   AdmitInv the listener's decision, taken before select, still holds    *)
(*            when accept acts on it                                       *)
(*   RestInv  between two sessions there is no forwarder and no link, so   *)
(*            the next tunneler starts from what lwIP kept and nothing else  *)
(*                                                                         *)
(* Every operation of PortForwarder is shown to preserve FwInv, then every *)
(* action of Tunneler to preserve IInv.  Most steps are Calm: they admit   *)
(* and open no client, which is also what the refinement of ClientPool     *)
(* needs of them.                                                          *)
(***************************************************************************)
EXTENDS Tunneler, FiniteSetTheorems, TLAPS

\* f waits for the answer of a DNS request: its block is allocated and idle.
Waits(f) ==
    /\ pf[f].state = "CONNECTING"
    /\ pf[f].connect_timeout = "off"
    /\ pf[f].local_client \in Pcb
    /\ pcb[pf[f].local_client].state = "CLOSED"

\* The block of f is in state s and calls back f.
Owns(f, s) ==
    /\ pf[f].local_client \in Pcb
    /\ pcb[pf[f].local_client].state = s
    /\ pcb[pf[f].local_client].arg = f

\* What the state of a forwarder says of its block and of its two sides.
ForwarderOK(f) ==
    /\ pf[f].state = "NONE" => pf[f] = NoForwarder
    /\ f \in dns => Waits(f)
    /\ pf[f].state = "CONNECTING" /\ f \notin dns => Owns(f, "SYN_SENT")
    /\ pf[f].state = "CONNECTED" => Owns(f, "ESTABLISHED")
    /\ pf[f].state = "DISCONNECTING" /\ pf[f].local_client # NoPcb
          => Owns(f, "ESTABLISHED")
    /\ pf[f].state \in {"CONNECTING", "CONNECTED"} => pf[f].local_server
    /\ pf[f].state = "DISCONNECTING"
          => (pf[f].local_server <=> pf[f].local_client = NoPcb)

\* At most one timer runs, in a state it belongs to.
TimerOK(c) ==
    /\ c.connect_timeout # "off" =>
          /\ c.state \in {"CONNECTING", "DISCONNECTED"}
          /\ c.fflush_timeout = "off" /\ c.rflush_timeout = "off"
    /\ c.fflush_timeout # "off" =>
          /\ c.state \in {"DISCONNECTING", "DISCONNECTED"} /\ ~c.local_server
          /\ c.rflush_timeout = "off"
    /\ c.rflush_timeout # "off" =>
          c.state \in {"DISCONNECTING", "DISCONNECTED"} /\ c.local_client = NoPcb

\* The states in which lwIP may call the error and the receive callback.
Attached(p) == pcb[p].state \in {"SYN_SENT", "ESTABLISHED"}

\* What the state of a block says of its forwarder.
BlockOK(p) ==
    /\ Attached(p) => /\ pcb[p].cbs = Callback
                      /\ pcb[p].arg \in Slot
                      /\ pf[pcb[p].arg].local_client = p
    /\ pcb[p].state = "SYN_SENT" => pf[pcb[p].arg].state = "CONNECTING"
    /\ pcb[p].state = "ESTABLISHED"
          => pf[pcb[p].arg].state \in {"CONNECTED", "DISCONNECTING"}
    /\ ~Attached(p) => pcb[p].cbs \cap {"err", "recv"} = {}

\* Two pending requests have two blocks.
DnsUnique ==
    \A f, g \in Slot :
        f \in dns /\ g \in dns /\ pf[f].local_client = pf[g].local_client => f = g

FwType ==
    /\ pf \in [Slot -> Forwarder]
    /\ pcb \in [Pcb -> ControlBlock]
    /\ dns \subseteq Slot \cup {Gone}

FwInv ==
    /\ FwType
    /\ \A f \in Slot : ForwarderOK(f)
    /\ \A f \in Slot : TimerOK(pf[f])
    /\ \A p \in Pcb : BlockOK(p)
    /\ DnsUnique

\* The types of the variables of the loop.
LoopType ==
    /\ state \in {"READY", "CONNECTING", "RUNNING", "CLOSING",
                  "DISCONNECTING", "STOPPED"}
    /\ pc \in {"start", "select", "send", "recv", "accept", "io", "forward",
               "timers", "delete", "switch", "stop", "done"}
    /\ todo \subseteq Slot
    /\ terminate \in BOOLEAN
    /\ tunnel \in BOOLEAN
    /\ ppp \in {"establish", "up", "terminate", "dead"}
    /\ connecting \in BOOLEAN
    /\ abort_timeout \in Timer
    /\ disconnect_timeout \in Timer
    /\ read_set \subseteq Slot
    /\ write_set \subseteq Slot
    /\ listen_set \in BOOLEAN

\* Connections exist only over the PPP link, which is down at the end.
LinkInv ==
    /\ ppp # "up" => \A p \in Pcb : ~Attached(p)
    /\ state = "DISCONNECTING" => ppp \in {"terminate", "dead"}
    /\ pc = "stop" => state = "DISCONNECTING"

\* The flag connecting covers every attempt, and the listener stays in the fd
\* set only while there is room.
AdmitInv ==
    /\ ~connecting => Connecting = {}
    /\ pc \in {"send", "recv", "accept"} /\ listen_set =>
          Connecting = {} /\ connected_count < MaxClients

\* Between two sessions, and before the first, nothing is left of a session
\* but what lwIP keeps.
RestInv ==
    pc \in {"start", "done"} => ppp # "up" /\ \A f \in Slot : pf[f].state = "NONE"

IInv == FwInv /\ LoopType /\ LinkInv /\ AdmitInv /\ RestInv

\* A request is left without its forwarder only where LeftBehind allows it.
Orphans == Gone \in dns' \ dns => LeftBehind

\* No client is admitted and none becomes connected.
NoneOpens ==
    \A f \in Slot :
        /\ pf[f].state = "NONE" => pf'[f].state = "NONE"
        /\ pf'[f].state \in {"CONNECTING", "CONNECTED"}
              => pf'[f].state = pf[f].state

\* ... and no block becomes attached, no DNS request is added.
Calm ==
    /\ NoneOpens
    /\ \A p \in Pcb : Attached(p)' => Attached(p)
    /\ dns' \subseteq dns

-----------------------------------------------------------------------------
\* The unused place of a forwarder.
LEMMA NoForwarderType ==
    /\ NoForwarder \in Forwarder
    /\ NoForwarder.state = "NONE" /\ ~NoForwarder.local_server
    /\ NoForwarder.local_client = NoPcb /\ NoForwarder.connect_timeout = "off"
    /\ NoForwarder.fflush_timeout = "off" /\ NoForwarder.rflush_timeout = "off"
<1>1. 0 \in 0..QCap BY ForwarderAssumption
<1> QED BY <1>1 DEF NoForwarder, Forwarder, State, Timer

\* A free control block.
LEMMA FreePcbType ==
    /\ FreePcb \in ControlBlock
    /\ FreePcb.state = "FREE" /\ FreePcb.cbs = {} /\ FreePcb.arg = NoOne
<1>1. 0 \in 0..SndBuf BY ForwarderAssumption
<1> QED BY <1>1 DEF FreePcb, ControlBlock

-----------------------------------------------------------------------------
\* A step that changes one forwarder and one block, its own or one nobody uses:
\* only these two have to be looked at.
LEMMA PairUpdate ==
    ASSUME FwInv, NEW f \in Slot, NEW p \in Pcb,
           NEW c \in Forwarder, NEW t \in ControlBlock,
           pf[f].local_client \in {p, NoPcb},
           Attached(p) => pcb[p].arg = f,
           pcb[p].state = "CLOSED" => f \in dns /\ pf[f].local_client = p,
           pf' = [pf EXCEPT ![f] = c],
           pcb' = [pcb EXCEPT ![p] = t],
           dns' \in {dns, dns \cup {f}, dns \ {f}},
           f \in dns' => c.local_client = p,
           TimerOK(c), ForwarderOK(f)', BlockOK(p)'
    PROVE  FwInv'
<1>1. FwType'
      BY DEF FwInv, FwType
<1>2. /\ pf'[f] = c /\ pcb'[p] = t
      /\ \A g \in Slot \ {f} : pf'[g] = pf[g] /\ (g \in dns' <=> g \in dns)
      /\ \A q \in Pcb \ {p} : pcb'[q] = pcb[q]
      BY DEF FwInv, FwType
<1>3. ASSUME NEW g \in Slot \ {f}
      PROVE  /\ g \in dns => pf[g].local_client # p
             /\ \A s \in {"SYN_SENT", "ESTABLISHED"} :
                   Owns(g, s) => pf[g].local_client # p
  <2>1. g \in dns => pf[g].local_client # p
        BY DEF FwInv, ForwarderOK, Waits, DnsUnique
  <2>2. ASSUME NEW s \in {"SYN_SENT", "ESTABLISHED"}, Owns(g, s)
        PROVE  pf[g].local_client # p
        BY <2>2 DEF Owns, Attached
  <2> QED BY <2>1, <2>2
<1>4. ASSUME NEW g \in Slot PROVE ForwarderOK(g)'
  <2>1. CASE g = f
        BY <2>1
  <2>2. CASE g # f
    <3>1. ForwarderOK(g) BY DEF FwInv
    <3>2. g \in dns => Waits(g)'
          BY <3>1, <2>2, <1>2, <1>3 DEF ForwarderOK, Waits
    <3>3. ASSUME NEW s \in {"SYN_SENT", "ESTABLISHED"}, Owns(g, s)
          PROVE  Owns(g, s)'
          BY <3>3, <2>2, <1>2, <1>3 DEF Owns
    <3> QED BY <3>1, <3>2, <3>3, <2>2, <1>2 DEF ForwarderOK
  <2> QED BY <2>1, <2>2
<1>5. ASSUME NEW g \in Slot PROVE TimerOK(pf[g])'
      BY <1>2 DEF FwInv, TimerOK
<1>6. ASSUME NEW q \in Pcb PROVE BlockOK(q)'
  <2>1. CASE q = p
        BY <2>1
  <2>2. CASE q # p
    <3>1. BlockOK(q) BY DEF FwInv
    <3>2. Attached(q) => pcb[q].arg # f
          BY <3>1, <2>2, ForwarderAssumption DEF BlockOK
    <3> QED BY <3>1, <3>2, <2>2, <1>2 DEF BlockOK, Attached
  <2> QED BY <2>1, <2>2
<1>7. DnsUnique'
      BY <1>2, <1>3 DEF FwInv, DnsUnique
<1> QED BY <1>1, <1>4, <1>5, <1>6, <1>7 DEF FwInv

\* A step that changes one forwarder and no block.
LEMMA ForwarderUpdate ==
    ASSUME FwInv, NEW f \in Slot, NEW c \in Forwarder,
           pf' = [pf EXCEPT ![f] = c], pcb' = pcb,
           dns' \in {dns, dns \ {f}},
           f \in dns' => c.local_client = pf[f].local_client,
           \A q \in Pcb : Attached(q) /\ pcb[q].arg = f => BlockOK(q)',
           TimerOK(c), ForwarderOK(f)'
    PROVE  FwInv'
<1>1. FwType'
      BY DEF FwInv, FwType
<1>2. /\ pf'[f] = c
      /\ \A g \in Slot \ {f} : pf'[g] = pf[g] /\ (g \in dns' <=> g \in dns)
      BY DEF FwInv, FwType
<1>3. ASSUME NEW g \in Slot PROVE ForwarderOK(g)'
  <2>1. CASE g # f
    <3>1. ForwarderOK(g) BY DEF FwInv
    <3> QED BY <3>1, <2>1, <1>2 DEF ForwarderOK, Waits, Owns
  <2> QED BY <2>1
<1>4. ASSUME NEW g \in Slot PROVE TimerOK(pf[g])'
      BY <1>2 DEF FwInv, TimerOK
<1>5. ASSUME NEW q \in Pcb PROVE BlockOK(q)'
  <2>1. CASE ~(Attached(q) /\ pcb[q].arg = f)
    <3>1. BlockOK(q) BY DEF FwInv
    <3> QED BY <3>1, <2>1, <1>2 DEF BlockOK, Attached
  <2> QED BY <2>1
<1>6. DnsUnique'
      BY <1>2 DEF FwInv, DnsUnique
<1> QED BY <1>1, <1>3, <1>4, <1>5, <1>6 DEF FwInv

\* When such a step is calm.
LEMMA PairCalm ==
    ASSUME FwInv, NEW f \in Slot, NEW p \in Pcb, NEW c, NEW t,
           pf' = [pf EXCEPT ![f] = c],
           pcb' = [pcb EXCEPT ![p] = t],
           dns' \in {dns, dns \ {f}},
           pf[f].state # "NONE",
           c.state \in {"CONNECTING", "CONNECTED"} => c.state = pf[f].state,
           t.state \in {"SYN_SENT", "ESTABLISHED"} => Attached(p)
    PROVE  Calm
<1>1. /\ pf'[f] = c /\ pcb'[p] = t
      /\ \A g \in Slot \ {f} : pf'[g] = pf[g]
      /\ \A q \in Pcb \ {p} : pcb'[q] = pcb[q]
      BY DEF FwInv, FwType
<1>2. \A q \in Pcb : Attached(q)' => Attached(q)
      BY <1>1 DEF Attached
<1> QED BY <1>1, <1>2 DEF Calm, NoneOpens

-----------------------------------------------------------------------------
\* The forwarder that connect() sets up.
LEMMA AcceptedType ==
    ASSUME NEW p \in Pcb
    PROVE  /\ Accepted(p) \in Forwarder
           /\ Accepted(p).state = "CONNECTING" /\ Accepted(p).local_client = p
           /\ Accepted(p).local_server = TRUE
           /\ Accepted(p).connect_timeout = "off"
           /\ Accepted(p).fflush_timeout = "off"
           /\ Accepted(p).rflush_timeout = "off"
<1>1. Accepted(p) \in Forwarder
      BY NoForwarderType DEF Accepted, Forwarder, State
<1>2. /\ Accepted(p).state = "CONNECTING" /\ Accepted(p).local_client = p
      /\ Accepted(p).local_server = TRUE
      /\ Accepted(p).connect_timeout = "off"
      /\ Accepted(p).fflush_timeout = "off"
      /\ Accepted(p).rflush_timeout = "off"
      BY NoForwarderType DEF Accepted, Forwarder
<1> QED BY <1>1, <1>2

\* tcp_connect succeeded: the connect timer runs.
LEMMA ConnectOkType ==
    ASSUME NEW c \in Forwarder
    PROVE  /\ tcp_connect_ok(c) \in Forwarder
           /\ tcp_connect_ok(c).state = c.state
           /\ tcp_connect_ok(c).local_client = c.local_client
           /\ tcp_connect_ok(c).local_server = c.local_server
           /\ tcp_connect_ok(c).fflush_timeout = c.fflush_timeout
           /\ tcp_connect_ok(c).rflush_timeout = c.rflush_timeout
<1>1. tcp_connect_ok(c) \in Forwarder
      BY DEF tcp_connect_ok, Forwarder, Timer
<1> QED BY <1>1 DEF tcp_connect_ok, Forwarder

\* tcp_connect failed.
LEMMA ConnectFailedType ==
    ASSUME NEW c \in Forwarder
    PROVE  /\ tcp_connect_failed(c) \in Forwarder
           /\ tcp_connect_failed(c).state = "FAILED"
           /\ tcp_connect_failed(c).connect_timeout = c.connect_timeout
           /\ tcp_connect_failed(c).fflush_timeout = c.fflush_timeout
           /\ tcp_connect_failed(c).rflush_timeout = c.rflush_timeout
<1>1. tcp_connect_failed(c) \in Forwarder
      BY DEF tcp_connect_failed, Forwarder, State
<1> QED BY <1>1 DEF tcp_connect_failed, Forwarder

\* The block on its way to the remote host.
LEMMA ConnectPcbType ==
    ASSUME NEW t \in ControlBlock, NEW f \in Slot
    PROVE  /\ tcp_connect_pcb(t, f) \in ControlBlock
           /\ tcp_connect_pcb(t, f).state = "SYN_SENT"
           /\ tcp_connect_pcb(t, f).arg = f
           /\ tcp_connect_pcb(t, f).cbs = Callback
<1>1. tcp_connect_pcb(t, f) \in ControlBlock
      BY DEF tcp_connect_pcb, ControlBlock
<1> QED BY <1>1 DEF tcp_connect_pcb, ControlBlock

\* connect() with a name to resolve: the new block is nobody else's.
LEMMA ConnectResolvingInv ==
    ASSUME FwInv, NEW f \in Slot, NEW p \in Pcb,
           pf[f].state = "NONE", ConnectResolving(f, p)
    PROVE  FwInv'
<1> DEFINE c == Accepted(p)  t == [FreePcb EXCEPT !.state = "CLOSED"]
<1>1. /\ pf' = [pf EXCEPT ![f] = c] /\ pcb' = [pcb EXCEPT ![p] = t]
      /\ dns' = dns \cup {f} /\ pcb[p].state \in {"FREE", "CLOSING"}
      BY DEF ConnectResolving, Allocatable
<1>2. /\ c \in Forwarder /\ c.state = "CONNECTING" /\ c.local_client = p
      /\ c.connect_timeout = "off" /\ c.local_server = TRUE /\ TimerOK(c)
      BY AcceptedType DEF TimerOK
<1>3. t \in ControlBlock /\ t.state = "CLOSED" /\ t.cbs = {}
      BY FreePcbType, SMT DEF ControlBlock
<1> HIDE DEF c, t
<1>4. pf'[f] = c /\ pcb'[p] = t
      BY <1>1 DEF FwInv, FwType
<1>5. pf[f].local_client = NoPcb
      BY NoForwarderType DEF FwInv, ForwarderOK
<1>6. ForwarderOK(f)'
      BY <1>1, <1>2, <1>3, <1>4 DEF ForwarderOK, Waits
<1>7. BlockOK(p)'
      BY <1>3, <1>4 DEF BlockOK, Attached
<1>8. ~Attached(p) /\ pcb[p].state # "CLOSED"
      BY <1>1 DEF Attached
<1> QED BY <1>1, <1>2, <1>3, <1>5, <1>6, <1>7, <1>8, PairUpdate

\* connect() with a known address.
LEMMA ConnectResolvedInv ==
    ASSUME FwInv, NEW f \in Slot, NEW p \in Pcb, NEW routed \in BOOLEAN,
           pf[f].state = "NONE", ConnectResolved(f, p, routed)
    PROVE  FwInv'
<1> DEFINE a == Accepted(p)
<1>0. /\ a \in Forwarder /\ a.state = "CONNECTING" /\ a.local_client = p
      /\ a.local_server = TRUE /\ a.connect_timeout = "off"
      /\ a.fflush_timeout = "off" /\ a.rflush_timeout = "off"
      BY AcceptedType
<1> HIDE DEF a
<1>1. pf[f].local_client = NoPcb /\ f \notin dns
      BY NoForwarderType DEF FwInv, ForwarderOK, Waits
<1>2. ~Attached(p) /\ pcb[p].state # "CLOSED" /\ dns' = dns
      BY DEF ConnectResolved, Allocatable, Attached
<1>3. CASE /\ pf' = [pf EXCEPT ![f] = tcp_connect_ok(a)]
           /\ pcb' = [pcb EXCEPT ![p] = tcp_connect_pcb(FreePcb, f)]
  <2> DEFINE c == tcp_connect_ok(a)  t == tcp_connect_pcb(FreePcb, f)
  <2>1. /\ c \in Forwarder /\ c.state = "CONNECTING" /\ c.local_client = p
        /\ c.local_server = TRUE /\ TimerOK(c)
        BY <1>0, ConnectOkType DEF TimerOK
  <2>2. /\ t \in ControlBlock /\ t.state = "SYN_SENT" /\ t.cbs = Callback
        /\ t.arg = f
        BY FreePcbType, ConnectPcbType
  <2> HIDE DEF c, t
  <2>3. pf'[f] = c /\ pcb'[p] = t
        BY <1>3 DEF FwInv, FwType, c, t
  <2>4. ForwarderOK(f)'
        BY <1>1, <1>2, <2>1, <2>2, <2>3 DEF ForwarderOK, Owns
  <2>5. BlockOK(p)'
        BY <2>1, <2>2, <2>3 DEF BlockOK, Attached
  <2>6. pf' = [pf EXCEPT ![f] = c] /\ pcb' = [pcb EXCEPT ![p] = t]
        BY <1>3 DEF c, t
  <2> QED BY <1>1, <1>2, <2>1, <2>2, <2>4, <2>5, <2>6, PairUpdate
<1>4. CASE /\ pf' = [pf EXCEPT ![f] = tcp_connect_failed(a)]
           /\ pcb' = [pcb EXCEPT ![p] = FreePcb]
  <2> DEFINE c == tcp_connect_failed(a)
  <2>1. /\ c \in Forwarder /\ c.state = "FAILED" /\ TimerOK(c)
        BY <1>0, ConnectFailedType DEF TimerOK
  <2> HIDE DEF c
  <2>3. pf'[f] = c /\ pcb'[p] = FreePcb
        BY <1>4 DEF FwInv, FwType, c
  <2>4. ForwarderOK(f)'
        BY <1>1, <1>2, <2>1, <2>3 DEF ForwarderOK, Waits
  <2>5. BlockOK(p)'
        BY <2>3, FreePcbType DEF BlockOK, Attached
  <2>6. pf' = [pf EXCEPT ![f] = c] /\ pcb' = [pcb EXCEPT ![p] = FreePcb]
        BY <1>4 DEF c
  <2> QED BY <1>1, <1>2, <2>1, <2>4, <2>5, <2>6, FreePcbType, PairUpdate
<1> QED BY <1>3, <1>4 DEF ConnectResolved, a

-----------------------------------------------------------------------------
\* dns_found_cb without an answer: the block is left behind, idle.
LEMMA DnsNotFoundInv ==
    ASSUME FwInv, NEW f \in Slot, DnsNotFound(f)
    PROVE  FwInv' /\ Calm
<1> DEFINE c == [pf[f] EXCEPT !.state = "FAILED"]
<1>1. /\ f \in dns /\ dns' = dns \ {f} /\ pcb' = pcb
      /\ pf' = [pf EXCEPT ![f] = c]
      BY DEF DnsNotFound
<1>2. Waits(f) /\ TimerOK(pf[f]) /\ pf[f] \in Forwarder
      BY <1>1 DEF FwInv, FwType, ForwarderOK
<1>3. /\ c \in Forwarder /\ c.state = "FAILED"
      /\ c.connect_timeout = pf[f].connect_timeout
      /\ c.fflush_timeout = pf[f].fflush_timeout
      /\ c.rflush_timeout = pf[f].rflush_timeout
  <2>1. c \in Forwarder
        BY <1>2 DEF Forwarder, State
  <2> QED BY <1>2, <2>1 DEF Forwarder
<1> HIDE DEF c
<1>4. TimerOK(c)
      BY <1>2, <1>3 DEF Waits, TimerOK
<1>5. pf'[f] = c /\ \A g \in Slot \ {f} : pf'[g] = pf[g]
      BY <1>1 DEF FwInv, FwType
<1>6. ForwarderOK(f)'
      BY <1>1, <1>3, <1>5 DEF ForwarderOK
<1>7. ASSUME NEW q \in Pcb, Attached(q), pcb[q].arg = f PROVE FALSE
      BY <1>2, <1>7 DEF FwInv, BlockOK, Attached, Waits
<1>8. FwInv'
      BY <1>1, <1>3, <1>4, <1>6, <1>7, ForwarderUpdate
<1>9. Calm
      BY <1>1, <1>2, <1>3, <1>5 DEF Calm, NoneOpens, Waits, Attached
<1> QED BY <1>8, <1>9

\* tcp_close detaches the block.
LEMMA TcpCloseType ==
    ASSUME NEW t \in ControlBlock
    PROVE  /\ tcp_close(t) \in ControlBlock
           /\ tcp_close(t).state \notin {"SYN_SENT", "ESTABLISHED"}
              \/ tcp_close(t).state = t.state
           /\ t.state \in {"CLOSED", "SYN_SENT", "ESTABLISHED"}
                => tcp_close(t).state \in {"FREE", "CLOSING"}
           /\ tcp_close(t).cbs \subseteq t.cbs
<1>1. CASE tcp_close(t) = FreePcb
      BY <1>1, FreePcbType
<1>2. CASE /\ tcp_close(t) = [t EXCEPT !.state = "CLOSING"]
  <2> DEFINE u == [t EXCEPT !.state = "CLOSING"]
  <2>1. u \in ControlBlock /\ u.state = "CLOSING" /\ u.cbs = t.cbs
        BY DEF ControlBlock
  <2> QED BY <1>2, <2>1
<1> QED BY <1>1, <1>2 DEF tcp_close

\* dns_found_cb with an answer: the idle block becomes attached, or is closed.
LEMMA DnsFoundInv ==
    ASSUME FwInv, NEW f \in Slot, DnsFound(f)
    PROVE  /\ FwInv'
           /\ NoneOpens
           /\ dns' \subseteq dns
<1>1. f \in dns /\ dns' = dns \ {f}
      BY DEF DnsFound
<1>2. Waits(f) /\ TimerOK(pf[f]) /\ pf[f] \in Forwarder /\ ForwarderOK(f)
      BY <1>1 DEF FwInv, FwType, ForwarderOK
<1>p. PICK p \in Pcb : p = pf[f].local_client
      BY <1>2 DEF Waits
<1>3. pcb[p] \in ControlBlock /\ pcb[p].state = "CLOSED" /\ BlockOK(p)
      BY <1>2, <1>p DEF Waits, FwInv, FwType
<1>4. ~Attached(p)
      BY <1>3 DEF Attached
<1>5. CASE /\ pf' = [pf EXCEPT ![f] = tcp_connect_ok(pf[f])]
           /\ pcb' = [pcb EXCEPT ![p] = tcp_connect_pcb(pcb[p], f)]
  <2> DEFINE c == tcp_connect_ok(pf[f])  t == tcp_connect_pcb(pcb[p], f)
  <2>1. /\ c \in Forwarder /\ c.state = "CONNECTING" /\ c.local_client = p
        /\ c.local_server = pf[f].local_server
        /\ c.fflush_timeout = pf[f].fflush_timeout
        /\ c.rflush_timeout = pf[f].rflush_timeout
        BY <1>2, <1>p, ConnectOkType DEF Waits
  <2>2. /\ t \in ControlBlock /\ t.state = "SYN_SENT" /\ t.cbs = Callback
        /\ t.arg = f
        BY <1>3, ConnectPcbType
  <2>3. pf' = [pf EXCEPT ![f] = c] /\ pcb' = [pcb EXCEPT ![p] = t]
        BY <1>5
  <2> HIDE DEF c, t
  <2>4. TimerOK(c)
        BY <1>2, <2>1 DEF Waits, TimerOK
  <2>5. pf'[f] = c /\ pcb'[p] = t /\ \A g \in Slot \ {f} : pf'[g] = pf[g]
        BY <1>3, <2>3 DEF FwInv, FwType
  <2>6. ForwarderOK(f)'
    <3>1. Owns(f, "SYN_SENT")'
          BY <1>3, <2>1, <2>2, <2>5 DEF Owns
    <3>2. pf[f].local_server
          BY <1>2 DEF ForwarderOK, Waits
    <3> QED BY <1>1, <3>1, <3>2, <2>1, <2>5 DEF ForwarderOK
  <2>7. BlockOK(p)'
        BY <2>1, <2>2, <2>5 DEF BlockOK, Attached
  <2>8. FwInv'
        BY <1>1, <1>3, <1>4, <2>1, <2>2, <2>3, <2>4, <2>6, <2>7, <1>p,
           PairUpdate
  <2> QED BY <2>8, <1>1, <1>2, <2>1, <2>5 DEF Waits, NoneOpens
<1>6. CASE /\ pf' = [pf EXCEPT ![f] = tcp_connect_failed(pf[f])]
           /\ pcb' = [pcb EXCEPT ![p] = tcp_close(pcb[p])]
  <2> DEFINE c == tcp_connect_failed(pf[f])  t == tcp_close(pcb[p])
  <2>1. /\ c \in Forwarder /\ c.state = "FAILED"
        /\ c.connect_timeout = pf[f].connect_timeout
        /\ c.fflush_timeout = pf[f].fflush_timeout
        /\ c.rflush_timeout = pf[f].rflush_timeout
        BY <1>2, ConnectFailedType
  <2>2. /\ t \in ControlBlock /\ t.state \in {"FREE", "CLOSING"}
        /\ t.cbs \subseteq pcb[p].cbs
        BY <1>3, TcpCloseType
  <2>3. pf' = [pf EXCEPT ![f] = c] /\ pcb' = [pcb EXCEPT ![p] = t]
        BY <1>6
  <2> HIDE DEF c, t
  <2>4. TimerOK(c)
        BY <1>2, <2>1 DEF Waits, TimerOK
  <2>5. pf'[f] = c /\ pcb'[p] = t /\ \A g \in Slot \ {f} : pf'[g] = pf[g]
        BY <1>3, <2>3 DEF FwInv, FwType
  <2>6. ForwarderOK(f)'
        BY <1>1, <2>1, <2>5 DEF ForwarderOK
  <2>7. BlockOK(p)'
        BY <1>3, <1>4, <2>2, <2>5 DEF BlockOK, Attached
  <2>8. FwInv'
        BY <1>1, <1>3, <1>4, <2>1, <2>2, <2>3, <2>4, <2>6, <2>7, <1>p,
           PairUpdate
  <2> QED BY <2>8, <1>1, <1>2, <2>1, <2>5 DEF Waits, NoneOpens
<1> QED BY <1>5, <1>6, <1>p DEF DnsFound

\* tcp_connected_cb stops the connect timer.
LEMMA ConnectedType ==
    ASSUME NEW c \in Forwarder
    PROVE  /\ connected(c) \in Forwarder
           /\ connected(c).state = "CONNECTED"
           /\ connected(c).connect_timeout = "off"
           /\ connected(c).local_client = c.local_client
           /\ connected(c).local_server = c.local_server
           /\ connected(c).fflush_timeout = c.fflush_timeout
           /\ connected(c).rflush_timeout = c.rflush_timeout
<1>1. connected(c) \in Forwarder
      BY DEF connected, Forwarder, State, Timer
<1> QED BY <1>1 DEF connected, Forwarder

\* tcp_connected_cb: the block is attached to a forwarder that is connecting.
LEMMA TcpConnectedInv ==
    ASSUME FwInv, NEW p \in Pcb, TcpConnected(p)
    PROVE  /\ FwInv'
           /\ \E f \in Slot :
                 /\ pf[f].state = "CONNECTING" /\ pf'[f].state = "CONNECTED"
                 /\ \A g \in Slot \ {f} : pf'[g] = pf[g]
           /\ \A q \in Pcb : Attached(q)' => Attached(q)
           /\ dns' = dns
<1>1. Attached(p) /\ BlockOK(p) /\ pcb[p].state = "SYN_SENT" /\ dns' = dns
      BY DEF TcpConnected, FwInv, Attached
<1>2. PICK f \in Slot : f = pcb[p].arg
      BY <1>1 DEF BlockOK
<1>3. /\ pf[f].state = "CONNECTING" /\ pf[f].local_client = p
      /\ pcb[p].cbs = Callback
      BY <1>1, <1>2 DEF BlockOK
<1>4. /\ pf[f] \in Forwarder /\ ForwarderOK(f) /\ TimerOK(pf[f])
      /\ pcb[p] \in ControlBlock
      BY DEF FwInv, FwType
<1>5. f \notin dns
      BY <1>1, <1>3, <1>4 DEF ForwarderOK, Waits
<1> DEFINE c == connected(pf[f])  t == [pcb[p] EXCEPT !.state = "ESTABLISHED"]
<1>6. /\ c \in Forwarder /\ c.state = "CONNECTED" /\ c.connect_timeout = "off"
      /\ c.local_client = p /\ c.local_server = pf[f].local_server
      /\ c.fflush_timeout = pf[f].fflush_timeout
      /\ c.rflush_timeout = pf[f].rflush_timeout
      BY <1>3, <1>4, ConnectedType
<1>7. /\ t \in ControlBlock /\ t.state = "ESTABLISHED" /\ t.arg = f
      /\ t.cbs = Callback
      BY <1>2, <1>3, <1>4 DEF ControlBlock
<1>8. pf' = [pf EXCEPT ![f] = c] /\ pcb' = [pcb EXCEPT ![p] = t]
      BY <1>2 DEF TcpConnected
<1> HIDE DEF c, t
<1>9. /\ pf'[f] = c /\ pcb'[p] = t
      /\ \A g \in Slot \ {f} : pf'[g] = pf[g]
      /\ \A q \in Pcb \ {p} : pcb'[q] = pcb[q]
      BY <1>8 DEF FwInv, FwType
<1>10. TimerOK(c)
       BY <1>3, <1>4, <1>6 DEF TimerOK
<1>11. ForwarderOK(f)'
  <2>1. Owns(f, "ESTABLISHED")'
        BY <1>6, <1>7, <1>9 DEF Owns
  <2>2. pf[f].local_server
        BY <1>3, <1>4 DEF ForwarderOK
  <2> QED BY <2>1, <2>2, <1>1, <1>5, <1>6, <1>9 DEF ForwarderOK
<1>12. BlockOK(p)'
       BY <1>6, <1>7, <1>9 DEF BlockOK, Attached
<1>13. FwInv'
       BY <1>1, <1>2, <1>3, <1>5, <1>6, <1>7, <1>8, <1>10, <1>11, <1>12,
          PairUpdate
<1>14. \A q \in Pcb : Attached(q)' => Attached(q)
       BY <1>1, <1>9 DEF Attached
<1> QED BY <1>1, <1>3, <1>6, <1>9, <1>13, <1>14

\* tcp_err_cb.
LEMMA TcpErrType ==
    ASSUME NEW c \in Forwarder
    PROVE  /\ tcp_err(c) \in Forwarder
           /\ tcp_err(c).state = "DISCONNECTED"
           /\ tcp_err(c).local_server = FALSE
           /\ tcp_err(c).local_client = c.local_client
           /\ tcp_err(c).connect_timeout = c.connect_timeout
           /\ tcp_err(c).fflush_timeout = c.fflush_timeout
           /\ tcp_err(c).rflush_timeout = c.rflush_timeout
<1>1. tcp_err(c) \in Forwarder
      BY DEF tcp_err, Forwarder, State
<1> QED BY <1>1 DEF tcp_err, Forwarder

\* lwIP gives up any set of connections: each forwarder is told by its own
\* block only, and no forwarder keeps one that was freed.
LEMMA TcpErrInv ==
    ASSUME FwInv, NEW P \in SUBSET Pcb, \A p \in P : Connection(p), TcpErr(P)
    PROVE  FwInv' /\ Calm /\ \A p \in P : ~Attached(p)'
<1> DEFINE Hit(f) == \E p \in P : pcb[p].arg = f /\ "err" \in pcb[p].cbs
<1>1. /\ \A f \in Slot : pf'[f] = IF Hit(f) THEN tcp_err(pf[f]) ELSE pf[f]
      /\ \A p \in Pcb : pcb'[p] = IF p \in P THEN FreePcb ELSE pcb[p]
      /\ dns' = dns
      BY DEF TcpErr
<1>2. \A p \in Pcb : p \in P \/ pcb'[p] = pcb[p]
      BY <1>1
<1>3. ASSUME NEW f \in Slot, Hit(f)
      PROVE  \E p \in P : Attached(p) /\ pcb[p].arg = f /\ pf[f].local_client = p
  <2>1. PICK p \in P : pcb[p].arg = f /\ "err" \in pcb[p].cbs
        BY <1>3
  <2>2. BlockOK(p)
        BY DEF FwInv
  <2> QED BY <2>1, <2>2 DEF BlockOK
<1>4. ASSUME NEW f \in Slot, Hit(f)
      PROVE  /\ f \notin dns
             /\ pf[f].state \in {"CONNECTING", "CONNECTED", "DISCONNECTING"}
  <2>1. PICK p \in P : Attached(p) /\ pcb[p].arg = f /\ pf[f].local_client = p
        BY <1>3, <1>4
  <2>2. BlockOK(p) /\ ForwarderOK(f)
        BY DEF FwInv
  <2> QED BY <2>1, <2>2 DEF BlockOK, ForwarderOK, Waits, Attached
<1>5. ASSUME NEW f \in Slot, Hit(f)
      PROVE  /\ pf'[f] \in Forwarder /\ pf'[f].state = "DISCONNECTED"
             /\ pf'[f].local_server = FALSE
             /\ pf'[f].local_client = pf[f].local_client
             /\ pf'[f].connect_timeout = pf[f].connect_timeout
             /\ pf'[f].fflush_timeout = pf[f].fflush_timeout
             /\ pf'[f].rflush_timeout = pf[f].rflush_timeout
  <2>1. pf[f] \in Forwarder
        BY DEF FwInv, FwType
  <2>2. pf'[f] = tcp_err(pf[f])
        BY <1>1, <1>5
  <2> QED BY <2>1, <2>2, TcpErrType
<1>6. ASSUME NEW f \in Slot, ~Hit(f) PROVE pf'[f] = pf[f]
      BY <1>1, <1>6
<1>7. FwType'
  <2>1. \A f \in Slot : pf'[f] \in Forwarder
        BY <1>5, <1>6 DEF FwInv, FwType
  <2>2. \A p \in Pcb : pcb'[p] \in ControlBlock
        BY <1>1, FreePcbType DEF FwInv, FwType
  <2>3. pf' \in [Slot -> Forwarder] /\ pcb' \in [Pcb -> ControlBlock]
        BY <2>1, <2>2 DEF TcpErr
  <2> QED BY <2>3, <1>1 DEF FwInv, FwType
<1> HIDE DEF Hit
<1>8. ASSUME NEW g \in Slot PROVE ForwarderOK(g)'
  <2>1. CASE Hit(g)
        BY <2>1, <1>1, <1>4, <1>5 DEF ForwarderOK
  <2>2. CASE ~Hit(g)
    <3>1. ForwarderOK(g) /\ pf'[g] = pf[g]
          BY <2>2, <1>6 DEF FwInv
    <3>2. g \in dns => Waits(g)'
          BY <3>1, <1>1, <1>2 DEF ForwarderOK, Waits, Connection
    <3>3. ASSUME NEW s \in {"SYN_SENT", "ESTABLISHED"}, Owns(g, s)
          PROVE  Owns(g, s)'
      <4>1. pf[g].local_client \in Pcb /\ BlockOK(pf[g].local_client)
            BY <3>3 DEF Owns, FwInv
      <4>2. "err" \in pcb[pf[g].local_client].cbs
            BY <3>3, <4>1 DEF Owns, BlockOK, Attached, Callback
      <4>3. pf[g].local_client \notin P
            BY <2>2, <3>3, <4>2 DEF Owns, Hit
      <4> QED BY <3>1, <3>3, <4>1, <4>3, <1>2 DEF Owns
    <3> QED BY <3>1, <3>2, <3>3, <1>1 DEF ForwarderOK
  <2> QED BY <2>1, <2>2
<1>9. ASSUME NEW g \in Slot PROVE TimerOK(pf[g])'
  <2>1. TimerOK(pf[g])
        BY DEF FwInv
  <2>2. CASE Hit(g)
        BY <2>1, <2>2, <1>4, <1>5 DEF TimerOK
  <2> QED BY <2>1, <2>2, <1>6 DEF TimerOK
<1>10. ASSUME NEW q \in Pcb PROVE BlockOK(q)'
  <2>1. CASE q \in P
        BY <2>1, <1>1, FreePcbType DEF BlockOK, Attached
  <2>2. CASE q \notin P
    <3>1. BlockOK(q) /\ pcb'[q] = pcb[q]
          BY <2>2, <1>1 DEF FwInv
    <3>2. Attached(q) => ~Hit(pcb[q].arg)
          BY <3>1, <2>2, <1>3 DEF BlockOK
    <3> QED BY <3>1, <3>2, <1>6 DEF BlockOK, Attached
  <2> QED BY <2>1, <2>2
<1>11. DnsUnique'
  <2>1. \A f \in Slot : pf'[f].local_client = pf[f].local_client
        BY <1>5, <1>6
  <2> QED BY <2>1, <1>1 DEF FwInv, DnsUnique
<1>12. \A p \in P : ~Attached(p)'
       BY <1>1, FreePcbType DEF Attached
<1>13. Calm
  <2>1. \A q \in Pcb : Attached(q)' => Attached(q)
        BY <1>2, <1>12 DEF Attached
  <2> QED BY <2>1, <1>1, <1>4, <1>5, <1>6 DEF Calm, NoneOpens
<1> QED BY <1>7, <1>8, <1>9, <1>10, <1>11, <1>12, <1>13 DEF FwInv

\* Two forwarders that differ in their queues only, two blocks that differ in
\* what they hold.
SameControl(c, d) ==
    /\ c.state = d.state /\ c.local_client = d.local_client
    /\ c.local_server = d.local_server
    /\ c.connect_timeout = d.connect_timeout
    /\ c.fflush_timeout = d.fflush_timeout
    /\ c.rflush_timeout = d.rflush_timeout

SameBlock(t, u) == t.state = u.state /\ t.arg = u.arg /\ t.cbs = u.cbs

\* The invariant does not depend on what queues and send buffers hold.
LEMMA DataUpdate ==
    ASSUME FwInv, FwType', dns' = dns,
           \A f \in Slot : SameControl(pf'[f], pf[f]),
           \A f \in Slot : pf[f].state = "NONE" => pf'[f] = pf[f],
           \A p \in Pcb : SameBlock(pcb'[p], pcb[p])
    PROVE  FwInv' /\ Calm
<1>1. ASSUME NEW f \in Slot PROVE ForwarderOK(f)'
  <2>1. ForwarderOK(f) /\ SameControl(pf'[f], pf[f])
        BY DEF FwInv
  <2>2. Waits(f) => Waits(f)'
        BY <2>1 DEF Waits, SameControl, SameBlock
  <2>3. ASSUME NEW s, Owns(f, s) PROVE Owns(f, s)'
        BY <2>1, <2>3 DEF Owns, SameControl, SameBlock
  <2> QED BY <2>1, <2>2, <2>3 DEF ForwarderOK, SameControl
<1>2. ASSUME NEW f \in Slot PROVE TimerOK(pf[f])'
      BY DEF FwInv, TimerOK, SameControl
<1>3. ASSUME NEW p \in Pcb PROVE BlockOK(p)' /\ (Attached(p)' <=> Attached(p))
  <2>1. BlockOK(p) /\ SameBlock(pcb'[p], pcb[p])
        BY DEF FwInv
  <2> QED BY <2>1 DEF BlockOK, Attached, SameControl, SameBlock
<1>4. DnsUnique'
      BY DEF FwInv, DnsUnique, SameControl
<1>5. Calm
      BY <1>3 DEF Calm, NoneOpens, SameControl
<1> QED BY <1>1, <1>2, <1>3, <1>4, <1>5 DEF FwInv

\* tcp_sent_cb.
LEMMA TcpSentInv ==
    ASSUME FwInv, NEW p \in Pcb, NEW n \in 1..SndBuf, TcpSent(p, n)
    PROVE  FwInv' /\ Calm
<1> DEFINE t == [pcb[p] EXCEPT !.unacked = @ - n]
<1>1. pcb' = [pcb EXCEPT ![p] = t] /\ pf' = pf /\ dns' = dns
      BY DEF TcpSent
<1>2. pcb[p] \in ControlBlock /\ n <= pcb[p].unacked
      BY DEF FwInv, FwType, TcpSent
<1>3. pcb[p].unacked - n \in 0..SndBuf
  <2>1. pcb[p].unacked \in 0..SndBuf
        BY <1>2 DEF ControlBlock
  <2> QED BY <2>1, <1>2, ForwarderAssumption
<1>4. t \in ControlBlock
      BY <1>2, <1>3 DEF ControlBlock
<1>5. SameBlock(t, pcb[p])
      BY <1>2 DEF ControlBlock, SameBlock
<1> HIDE DEF t
<1>6. FwType' /\ \A q \in Pcb : pcb'[q] = IF q = p THEN t ELSE pcb[q]
      BY <1>1, <1>4 DEF FwInv, FwType
<1>7. \A q \in Pcb : SameBlock(pcb'[q], pcb[q])
      BY <1>5, <1>6 DEF SameBlock
<1>8. \A f \in Slot : pf'[f] = pf[f] /\ SameControl(pf'[f], pf[f])
      BY <1>1 DEF SameControl
<1> QED BY <1>1, <1>6, <1>7, <1>8, DataUpdate

\* What tcp_recv_cb takes: the reply queue does not overflow.
LEMMA ReceivedType ==
    ASSUME NEW d \in Forwarder
    PROVE  received(d) \in Forwarder /\ SameControl(received(d), d)
<1> DEFINE r == IF d.local_server /\ accepts(d) THEN d.reply_queue + 1
                ELSE d.reply_queue
<1>1. r \in 0..QCap
  <2>1. d.reply_queue \in 0..QCap
        BY DEF Forwarder
  <2> QED BY <2>1, ForwarderAssumption DEF accepts
<1>2. received(d) = [d EXCEPT !.reply_queue = r]
      BY DEF received
<1> HIDE DEF r
<1>3. received(d) \in Forwarder
      BY <1>1, <1>2 DEF Forwarder
<1>4. SameControl(received(d), d)
      BY <1>2 DEF Forwarder, SameControl
<1> QED BY <1>3, <1>4

\* tcp_recv_cb with data, new or refused before.
LEMMA TcpRecvDataInv ==
    ASSUME FwInv, NEW p \in Pcb, TcpRecvData(p)
    PROVE  FwInv' /\ Calm
<1>1. pcb[p].state = "ESTABLISHED" /\ BlockOK(p) /\ pcb[p] \in ControlBlock /\ dns' = dns
      BY DEF TcpRecvData, FwInv, FwType
<1>2. PICK f \in Slot : f = pcb[p].arg
      BY <1>1 DEF BlockOK, Attached
<1>3. pf[f] \in Forwarder /\ pf[f].state # "NONE"
      BY <1>1, <1>2 DEF FwInv, FwType, BlockOK
<1> DEFINE c == received(pf[f])
           t == [pcb[p] EXCEPT !.refused = ~accepts(pf[f])]
<1>4. pf' = [pf EXCEPT ![f] = c] /\ pcb' = [pcb EXCEPT ![p] = t]
      BY <1>2 DEF TcpRecvData
<1>6. accepts(pf[f]) \in BOOLEAN
      BY DEF accepts
<1>7. c \in Forwarder
      BY <1>3, ReceivedType
<1>8. SameControl(c, pf[f])
      BY <1>3, ReceivedType
<1>9. t \in ControlBlock
      BY <1>1, <1>6 DEF ControlBlock
<1>10. SameBlock(t, pcb[p])
      BY <1>1 DEF ControlBlock, SameBlock
<1> HIDE DEF c, t
<1>11. /\ FwType'
       /\ \A q \in Pcb : pcb'[q] = IF q = p THEN t ELSE pcb[q]
       /\ \A g \in Slot : pf'[g] = IF g = f THEN c ELSE pf[g]
      BY <1>1, <1>4, <1>7, <1>9 DEF FwInv, FwType
<1>12. \A q \in Pcb : SameBlock(pcb'[q], pcb[q])
      BY <1>10, <1>11 DEF SameBlock
<1>13. \A g \in Slot : SameControl(pf'[g], pf[g])
      BY <1>8, <1>11 DEF SameControl
<1> QED BY <1>1, <1>3, <1>11, <1>12, <1>13, DataUpdate

\* The callbacks are removed before the block is closed.
LEMMA CloseClientType ==
    ASSUME NEW t \in ControlBlock
    PROVE  /\ close_client(t) \in ControlBlock
           /\ t.state \in {"CLOSED", "SYN_SENT", "ESTABLISHED"}
                 => close_client(t).state \in {"FREE", "CLOSING"}
           /\ close_client(t).cbs \cap {"err", "recv"} = {}
<1> DEFINE u == remove_callbacks(t)
<1>1. u \in ControlBlock
      BY DEF remove_callbacks, ControlBlock
<1>2. u.state = t.state /\ u.cbs = t.cbs \ {"err", "recv"}
      BY DEF remove_callbacks, ControlBlock
<1> HIDE DEF u
<1>3. /\ tcp_close(u) \in ControlBlock /\ tcp_close(u).cbs \subseteq u.cbs
      /\ u.state \in {"CLOSED", "SYN_SENT", "ESTABLISHED"}
            => tcp_close(u).state \in {"FREE", "CLOSING"}
      BY <1>1, TcpCloseType
<1>4. close_client(t) = tcp_close(u)
      BY DEF close_client, u
<1> HIDE DEF close_client
<1> QED BY <1>2, <1>3, <1>4

\* The remote host closed the connection.
LEMMA EofType ==
    ASSUME NEW c \in Forwarder
    PROVE  /\ eof(c) \in Forwarder
           /\ eof(c).state = "DISCONNECTING" /\ eof(c).local_client = NoPcb
           /\ eof(c).local_server = c.local_server
           /\ eof(c).connect_timeout = c.connect_timeout
           /\ eof(c).fflush_timeout = c.fflush_timeout
<1>1. 0 \in 0..QCap
      BY ForwarderAssumption
<1>2. eof(c) \in Forwarder
      BY <1>1 DEF eof, Forwarder, State, Timer
<1> QED BY <1>2 DEF eof, Forwarder

\* tcp_recv_cb at the end of the data: the reply side is the one left, with what
\* it had (d) and the block as it was (u) but for the data just taken.
LEMMA EndOfStreamInv ==
    ASSUME FwInv, NEW p \in Pcb, NEW d \in Forwarder, NEW u \in ControlBlock,
           pcb[p].state = "ESTABLISHED", pf[pcb[p].arg].state = "CONNECTED",
           SameControl(d, pf[pcb[p].arg]), SameBlock(u, pcb[p]),
           pf' = [pf EXCEPT ![pcb[p].arg] = eof(d)],
           pcb' = [pcb EXCEPT ![p] = close_client(u)], dns' = dns
    PROVE  FwInv' /\ Calm
<1>1. Attached(p) /\ BlockOK(p)
      BY DEF FwInv, Attached
<1>2. PICK f \in Slot : f = pcb[p].arg
      BY <1>1 DEF BlockOK
<1>3. /\ pf[f].state = "CONNECTED" /\ pf[f].local_client = p
      /\ ForwarderOK(f) /\ TimerOK(pf[f])
      BY <1>1, <1>2 DEF FwInv, BlockOK
<1>4. f \notin dns /\ pf[f].local_server
      BY <1>3 DEF ForwarderOK, Waits
<1> DEFINE c == eof(d)  t == close_client(u)
<1>5. /\ c \in Forwarder /\ c.state = "DISCONNECTING" /\ c.local_client = NoPcb
      /\ c.local_server = pf[f].local_server
      /\ c.connect_timeout = pf[f].connect_timeout
      /\ c.fflush_timeout = pf[f].fflush_timeout
      BY <1>2, EofType DEF SameControl
<1>6. /\ t \in ControlBlock /\ t.state \in {"FREE", "CLOSING"}
      /\ t.cbs \cap {"err", "recv"} = {}
      BY CloseClientType DEF SameBlock
<1>7. pf' = [pf EXCEPT ![f] = c] /\ pcb' = [pcb EXCEPT ![p] = t]
      BY <1>2
<1> HIDE DEF c, t
<1>8. pf'[f] = c /\ pcb'[p] = t
      BY <1>7 DEF FwInv, FwType
<1>9. TimerOK(c)
      BY <1>3, <1>5 DEF TimerOK
<1>10. ForwarderOK(f)'
       BY <1>1, <1>4, <1>5, <1>8 DEF ForwarderOK
<1>11. BlockOK(p)'
       BY <1>6, <1>8 DEF BlockOK, Attached
<1>12. FwInv'
       BY <1>1, <1>2, <1>3, <1>4, <1>5, <1>6, <1>7, <1>9, <1>10, <1>11,
          PairUpdate
<1>13. Calm
  <2>1. /\ \A g \in Slot \ {f} : pf'[g] = pf[g]
        /\ \A q \in Pcb \ {p} : pcb'[q] = pcb[q]
        BY <1>7 DEF FwInv, FwType
  <2>2. \A q \in Pcb : Attached(q)' => Attached(q)
        BY <1>6, <1>8, <2>1 DEF Attached
  <2> QED BY <1>3, <1>5, <1>8, <2>1, <2>2 DEF Calm, NoneOpens
<1> QED BY <1>12, <1>13

\* ... when nothing was refused before ...
LEMMA TcpRecvEofInv ==
    ASSUME FwInv, NEW p \in Pcb, TcpRecvEof(p)
    PROVE  FwInv' /\ Calm
<1> DEFINE f == pcb[p].arg
<1>1. /\ pcb[p].state = "ESTABLISHED" /\ pf[f].state = "CONNECTED"
      /\ pf' = [pf EXCEPT ![f] = eof(pf[f])]
      /\ pcb' = [pcb EXCEPT ![p] = close_client(pcb[p])] /\ dns' = dns
      BY DEF TcpRecvEof, is_connected
<1>2. pf[f] \in Forwarder /\ pcb[p] \in ControlBlock
      BY <1>1 DEF FwInv, FwType, BlockOK, Attached
<1>3. SameControl(pf[f], pf[f]) /\ SameBlock(pcb[p], pcb[p])
      BY DEF SameControl, SameBlock
<1> QED BY <1>1, <1>2, <1>3, EndOfStreamInv

\* ... and together with data that had been refused.
LEMMA TcpRecvRestInv ==
    ASSUME FwInv, NEW p \in Pcb, TcpRecvRest(p)
    PROVE  FwInv' /\ Calm
<1> DEFINE f == pcb[p].arg
           d == received(pf[f])
           u == [pcb[p] EXCEPT !.refused = FALSE]
<1>1. /\ pcb[p].state = "ESTABLISHED" /\ pf[f].state = "CONNECTED"
      /\ pf' = [pf EXCEPT ![f] = eof(d)]
      /\ pcb' = [pcb EXCEPT ![p] = close_client(u)] /\ dns' = dns
      BY DEF TcpRecvRest, is_connected
<1>2. pf[f] \in Forwarder /\ pcb[p] \in ControlBlock
      BY <1>1 DEF FwInv, FwType, BlockOK, Attached
<1>3. d \in Forwarder /\ SameControl(d, pf[f])
      BY <1>2, ReceivedType
<1>4. u \in ControlBlock /\ SameBlock(u, pcb[p])
      BY <1>2 DEF ControlBlock, SameBlock
<1> HIDE DEF d, u
<1> QED BY <1>1, <1>3, <1>4, EndOfStreamInv

\* timeout_cb: a timer that fires stays the only one.
LEMMA TimeoutCbInv ==
    ASSUME FwInv, NEW f \in Slot, NEW k \in TimerKind, TimeoutCb(f, k)
    PROVE  FwInv' /\ Calm
<1> DEFINE c == [pf[f] EXCEPT ![k] = "fired"]
<1>1. /\ pf' = [pf EXCEPT ![f] = c] /\ pcb' = pcb /\ dns' = dns
      /\ pf[f][k] = "armed"
      BY DEF TimeoutCb
<1>2. pf[f] \in Forwarder /\ ForwarderOK(f) /\ TimerOK(pf[f])
      BY DEF FwInv, FwType
<1>3. /\ c \in Forwarder
      /\ c.state = pf[f].state /\ c.local_client = pf[f].local_client
      /\ c.local_server = pf[f].local_server
      /\ c.connect_timeout = "off" <=> pf[f].connect_timeout = "off"
      /\ c.fflush_timeout = "off" <=> pf[f].fflush_timeout = "off"
      /\ c.rflush_timeout = "off" <=> pf[f].rflush_timeout = "off"
      /\ pf[f].state # "NONE"
  <2>1. CASE k = "connect_timeout"
    <3>1. c = [pf[f] EXCEPT !.connect_timeout = "fired"]
          BY <2>1
    <3>2. c \in Forwarder
          BY <3>1, <1>2 DEF Forwarder, Timer
    <3>3. pf[f].connect_timeout = "armed"
          BY <1>1, <2>1
    <3> QED BY <3>1, <3>2, <3>3, <1>2, NoForwarderType
               DEF Forwarder, ForwarderOK
  <2>2. CASE k = "fflush_timeout"
    <3>1. c = [pf[f] EXCEPT !.fflush_timeout = "fired"]
          BY <2>2
    <3>2. c \in Forwarder
          BY <3>1, <1>2 DEF Forwarder, Timer
    <3>3. pf[f].fflush_timeout = "armed"
          BY <1>1, <2>2
    <3> QED BY <3>1, <3>2, <3>3, <1>2, NoForwarderType
               DEF Forwarder, ForwarderOK
  <2>3. CASE k = "rflush_timeout"
    <3>1. c = [pf[f] EXCEPT !.rflush_timeout = "fired"]
          BY <2>3
    <3>2. c \in Forwarder
          BY <3>1, <1>2 DEF Forwarder, Timer
    <3>3. pf[f].rflush_timeout = "armed"
          BY <1>1, <2>3
    <3> QED BY <3>1, <3>2, <3>3, <1>2, NoForwarderType
               DEF Forwarder, ForwarderOK
  <2> QED BY <2>1, <2>2, <2>3 DEF TimerKind
<1> HIDE DEF c
<1>4. pf'[f] = c /\ \A g \in Slot \ {f} : pf'[g] = pf[g]
      BY <1>1 DEF FwInv, FwType
<1>5. TimerOK(c)
      BY <1>2, <1>3 DEF TimerOK
<1>6. ForwarderOK(f)'
  <2>1. Waits(f) => Waits(f)'
        BY <1>1, <1>3, <1>4 DEF Waits
  <2>2. ASSUME NEW s, Owns(f, s) PROVE Owns(f, s)'
        BY <1>1, <1>3, <1>4, <2>2 DEF Owns
  <2> QED BY <2>1, <2>2, <1>1, <1>2, <1>3, <1>4 DEF ForwarderOK
<1>7. ASSUME NEW q \in Pcb, Attached(q), pcb[q].arg = f PROVE BlockOK(q)'
  <2>1. BlockOK(q)
        BY DEF FwInv
  <2> QED BY <2>1, <1>1, <1>3, <1>4, <1>7 DEF BlockOK, Attached
<1>8. FwInv'
      BY <1>1, <1>3, <1>5, <1>6, <1>7, ForwarderUpdate
<1>9. Calm
      BY <1>1, <1>3, <1>4 DEF Calm, NoneOpens, Attached
<1> QED BY <1>8, <1>9

\* d is c after its local client left, or after its last reply.
Left(d, c) ==
    /\ d.state = "DISCONNECTING" /\ d.local_server = FALSE
    /\ d.local_client = c.local_client
    /\ d.connect_timeout = c.connect_timeout
    /\ d.rflush_timeout = c.rflush_timeout

Closed(d, c) ==
    /\ d.state = "DISCONNECTED" /\ d.local_server = FALSE
    /\ d.local_client = c.local_client
    /\ d.connect_timeout = c.connect_timeout
    /\ d.fflush_timeout = c.fflush_timeout
    /\ d.rflush_timeout = c.rflush_timeout

-----------------------------------------------------------------------------
\* disconnect() leaves the forward side.
LEMMA DisconnectType ==
    ASSUME NEW c \in Forwarder
    PROVE  /\ disconnect(c) \in Forwarder
           /\ IF c.state = "CONNECTED" THEN Left(disconnect(c), c)
              ELSE disconnect(c) = c
<1>1. 0 \in 0..QCap
      BY ForwarderAssumption
<1>2. disconnect(c) \in Forwarder
      BY <1>1 DEF disconnect, Forwarder, State, Timer
<1>3. CASE c.state = "CONNECTED"
  <2> DEFINE d == [c EXCEPT !.state = "DISCONNECTING", !.local_server = FALSE,
                            !.reply_queue = 0, !.fflush_timeout = "armed"]
  <2>1. disconnect(c) = d
        BY <1>3 DEF disconnect, is_connected
  <2>2. Left(d, c)
        BY DEF Forwarder, Left
  <2> QED BY <1>2, <1>3, <2>1, <2>2
<1> QED BY <1>2, <1>3 DEF disconnect, is_connected

\* Part of the reply queue is written.
LEMMA ReplyQueueType ==
    ASSUME NEW c \in Forwarder, NEW k \in 0..c.reply_queue
    PROVE  /\ [c EXCEPT !.reply_queue = k] \in Forwarder
           /\ SameControl([c EXCEPT !.reply_queue = k], c)
<1>1. k \in 0..QCap
  <2>1. c.reply_queue \in 0..QCap
        BY DEF Forwarder
  <2> QED BY <2>1, ForwarderAssumption
<1>2. [c EXCEPT !.reply_queue = k] \in Forwarder
      BY <1>1 DEF Forwarder
<1> QED BY <1>2 DEF Forwarder, SameControl

\* recv(), followed by disconnect() when it fails.
LEMMA RecvType ==
    ASSUME NEW c \in Forwarder, c.state = "CONNECTED", NEW d \in recv(c)
    PROVE  d \in Forwarder /\ (SameControl(d, c) \/ Left(d, c))
<1> DEFINE k == IF c.forward_queue < QCap THEN c.forward_queue + 1
                ELSE c.forward_queue
           e == [c EXCEPT !.forward_queue = k]
<1>1. k \in 0..QCap
  <2>1. c.forward_queue \in 0..QCap
        BY DEF Forwarder
  <2> QED BY <2>1, ForwarderAssumption
<1>2. d = e \/ d = disconnect(c)
      BY DEF recv
<1> HIDE DEF k
<1>3. e \in Forwarder
      BY <1>1 DEF Forwarder
<1>4. SameControl(e, c)
      BY DEF Forwarder, SameControl
<1> HIDE DEF e
<1> QED BY <1>2, <1>3, <1>4, DisconnectType

\* reply(), followed by disconnect() when it fails.
LEMMA ReplyType ==
    ASSUME NEW c \in Forwarder, NEW d \in reply(c)
    PROVE  /\ d \in Forwarder
           /\ SameControl(d, c) \/ (c.state = "CONNECTED" /\ Left(d, c))
<1>1. CASE d = c
      BY <1>1 DEF SameControl
<1>2. CASE c.state = "CONNECTED" /\ d = disconnect(c)
      BY <1>2, DisconnectType
<1>3. CASE \E k \in 0..c.reply_queue : d = [c EXCEPT !.reply_queue = k]
      BY <1>3, ReplyQueueType
<1> QED BY <1>1, <1>2, <1>3 DEF reply, is_connected

\* flush_reply_queue().
LEMMA FlushReplyType ==
    ASSUME NEW c \in Forwarder, NEW d \in flush_reply_queue(c)
    PROVE  d \in Forwarder /\ (SameControl(d, c) \/ Closed(d, c))
<1> DEFINE written(k) == [c EXCEPT !.reply_queue = k]
<1>1. PICK k \in 0..c.reply_queue : d \in {written(k), close_reply(written(k))}
      BY DEF flush_reply_queue
<1>2. 0 \in 0..QCap
      BY ForwarderAssumption
<1>3. PICK w \in Forwarder : w = written(k) /\ SameControl(w, c)
      BY ReplyQueueType
<1>4. close_reply(w) \in Forwarder
      BY <1>2 DEF close_reply, Forwarder, State
<1>5. Closed(close_reply(w), w)
      BY DEF close_reply, Closed, Forwarder
<1>6. Closed(close_reply(w), c)
      BY <1>3, <1>5 DEF Closed, SameControl
<1> QED BY <1>1, <1>3, <1>4, <1>6

\* What the visit of a forwarder in the io phase may do to it.
LEMMA VisitedType ==
    ASSUME FwInv, NEW f \in Slot, NEW d \in Visited(f)
    PROVE  /\ d \in Forwarder
           /\ \/ d = pf[f]
              \/ pf[f].state # "NONE" /\ SameControl(d, pf[f])
              \/ pf[f].state = "CONNECTED" /\ Left(d, pf[f])
              \/ /\ pf[f].state = "DISCONNECTING" /\ pf[f].local_server
                 /\ Closed(d, pf[f])
<1> DEFINE c == pf[f]
           readable == IF f \in read_set THEN {c} \cup recv(c) ELSE {c}
<1>1. c \in Forwarder
      BY DEF FwInv, FwType
<1>2. CASE c.state = "CONNECTED"
  <2>1. \A e \in readable :
           e \in Forwarder /\ (SameControl(e, c) \/ Left(e, c))
        BY <1>1, <1>2, RecvType DEF SameControl
  <2>2. d \in readable \/ \E e \in readable : d \in reply(e)
        BY <1>2 DEF Visited, is_connected, is_disconnecting
  <2>3. CASE \E e \in readable : d \in reply(e)
    <3>1. PICK e \in readable : d \in reply(e)
          BY <2>3
    <3>2. e \in Forwarder /\ (SameControl(e, c) \/ Left(e, c))
          BY <2>1
    <3>3. /\ d \in Forwarder
          /\ SameControl(d, e) \/ (e.state = "CONNECTED" /\ Left(d, e))
          BY <3>1, <3>2, ReplyType
    <3> HIDE DEF c, readable
    <3>4. SameControl(d, c) \/ Left(d, c)
      <4>1. CASE SameControl(e, c)
            BY <3>3, <4>1 DEF SameControl, Left
      <4>2. CASE Left(e, c)
            BY <3>3, <4>2 DEF SameControl, Left
      <4> QED BY <4>1, <4>2, <3>2
    <3> QED BY <1>2, <3>3, <3>4 DEF c
  <2> QED BY <1>2, <2>1, <2>2, <2>3
<1>3. CASE c.state = "DISCONNECTING" /\ d # c
  <2>1. c.local_server /\ d \in flush_reply_queue(c)
        BY <1>3
           DEF Visited, is_connected, is_disconnecting, can_flush_reply_queue
  <2> QED BY <1>1, <1>3, <2>1, FlushReplyType
<1>4. CASE c.state \notin {"CONNECTED", "DISCONNECTING"}
      BY <1>1, <1>4 DEF Visited, is_connected, is_disconnecting
<1> QED BY <1>1, <1>2, <1>3, <1>4

\* The visit preserves the invariant.
LEMMA VisitInv ==
    ASSUME FwInv, NEW f \in Slot, NEW d \in Visited(f),
           pf' = [pf EXCEPT ![f] = d], pcb' = pcb, dns' = dns
    PROVE  FwInv' /\ Calm
<1>1. d \in Forwarder
      BY VisitedType
<1>2. /\ FwType' /\ pf'[f] = d
      /\ \A g \in Slot \ {f} : pf'[g] = pf[g]
      BY <1>1 DEF FwInv, FwType
<1>3. ForwarderOK(f) /\ TimerOK(pf[f])
      BY DEF FwInv
<1>4. CASE d = pf[f] \/ (pf[f].state # "NONE" /\ SameControl(d, pf[f]))
  <2>1. \A g \in Slot : SameControl(pf'[g], pf[g])
        BY <1>2, <1>4 DEF SameControl
  <2>2. \A p \in Pcb : SameBlock(pcb'[p], pcb[p])
        BY DEF SameBlock
  <2>3. \A g \in Slot : pf[g].state = "NONE" => pf'[g] = pf[g]
        BY <1>2, <1>4
  <2> QED BY <1>2, <2>1, <2>2, <2>3, DataUpdate
<1>5. CASE pf[f].state = "CONNECTED" /\ Left(d, pf[f])
  <2>1. TimerOK(d)
        BY <1>3, <1>5 DEF TimerOK, Left
  <2>2. f \notin dns /\ Owns(f, "ESTABLISHED")
        BY <1>3, <1>5 DEF ForwarderOK, Waits
  <2>3. ForwarderOK(f)'
    <3>1. Owns(f, "ESTABLISHED")'
          BY <2>2, <1>2, <1>5 DEF Owns, Left
    <3>2. d.local_client # NoPcb
          BY <2>2, <1>5, ForwarderAssumption DEF Owns, Left
    <3> QED BY <3>1, <3>2, <2>2, <1>2, <1>5 DEF ForwarderOK, Left
  <2>4. ASSUME NEW q \in Pcb, Attached(q), pcb[q].arg = f PROVE BlockOK(q)'
    <3>1. BlockOK(q)
          BY DEF FwInv
    <3> QED BY <3>1, <2>4, <1>2, <1>5 DEF BlockOK, Attached, Left
  <2>5. FwInv'
        BY <1>1, <2>1, <2>2, <2>3, <2>4, ForwarderUpdate
  <2>6. Calm
        BY <1>2, <1>5 DEF Calm, NoneOpens, Attached, Left
  <2> QED BY <2>5, <2>6
<1>6. CASE /\ pf[f].state = "DISCONNECTING" /\ pf[f].local_server
           /\ Closed(d, pf[f])
  <2>1. TimerOK(d)
        BY <1>3, <1>6 DEF TimerOK, Closed
  <2>2. f \notin dns /\ pf[f].local_client = NoPcb
        BY <1>3, <1>6 DEF ForwarderOK, Waits
  <2>3. ForwarderOK(f)'
        BY <2>2, <1>2, <1>6 DEF ForwarderOK, Closed
  <2>4. ASSUME NEW q \in Pcb, Attached(q), pcb[q].arg = f PROVE FALSE
    <3>1. BlockOK(q)
          BY DEF FwInv
    <3> QED BY <3>1, <2>2, <2>4, ForwarderAssumption DEF BlockOK
  <2>5. FwInv'
        BY <1>1, <2>1, <2>2, <2>3, <2>4, ForwarderUpdate
  <2>6. Calm
        BY <1>2, <1>6 DEF Calm, NoneOpens, Attached, Closed
  <2> QED BY <2>5, <2>6
<1> QED BY <1>4, <1>5, <1>6, VisitedType

\* abort() of a forwarder that is connecting or connected.
LEMMA AbortType ==
    ASSUME NEW c \in Forwarder
    PROVE  /\ abort(c) \in Forwarder
           /\ c.state \in {"CONNECTING", "CONNECTED"} =>
                 /\ abort(c).state = "DISCONNECTED"
                 /\ abort(c).local_client = NoPcb
                 /\ abort(c).local_server = FALSE
                 /\ abort(c).connect_timeout = c.connect_timeout
                 /\ abort(c).fflush_timeout = c.fflush_timeout
                 /\ abort(c).rflush_timeout = c.rflush_timeout
<1>1. 0 \in 0..QCap
      BY ForwarderAssumption
<1>2. abort(c) \in Forwarder
      BY <1>1 DEF abort, tcp_err, Forwarder, State
<1>3. CASE c.state \in {"CONNECTING", "CONNECTED"}
  <2> DEFINE d == [tcp_err(c) EXCEPT !.local_client = NoPcb,
                                    !.forward_queue = 0, !.reply_queue = 0]
  <2>1. abort(c) = d
        BY <1>3 DEF abort, is_connected, is_connecting
  <2>2. /\ d.state = "DISCONNECTED" /\ d.local_client = NoPcb
        /\ d.local_server = FALSE
        /\ d.connect_timeout = c.connect_timeout
        /\ d.fflush_timeout = c.fflush_timeout
        /\ d.rflush_timeout = c.rflush_timeout
        BY DEF tcp_err, Forwarder
  <2> QED BY <1>2, <2>1, <2>2
<1> QED BY <1>2, <1>3

\* abort() of a set of forwarders frees their own blocks and no other.
LEMMA AbortSetInv ==
    ASSUME FwInv, NEW F \in SUBSET Slot, AbortSet(F),
           \A f \in F : /\ pf[f].state \in {"CONNECTING", "CONNECTED"}
                        /\ f \notin dns
    PROVE  FwInv' /\ Calm
<1>1. dns' = dns
      BY DEF AbortSet
<1>2. ASSUME NEW f \in F
      PROVE  /\ pf'[f] \in Forwarder
             /\ pf'[f].state = "DISCONNECTED" /\ pf'[f].local_client = NoPcb
             /\ pf'[f].local_server = FALSE
             /\ pf'[f].connect_timeout = pf[f].connect_timeout
             /\ pf'[f].fflush_timeout = pf[f].fflush_timeout
             /\ pf'[f].rflush_timeout = pf[f].rflush_timeout
  <2>1. pf[f] \in Forwarder /\ pf'[f] = abort(pf[f])
        BY DEF AbortSet, FwInv, FwType
  <2>2. pf[f].state \in {"CONNECTING", "CONNECTED"}
        OBVIOUS
  <2> QED BY <2>1, <2>2, AbortType
<1>3. \A f \in Slot \ F : pf'[f] = pf[f]
      BY DEF AbortSet
<1>4. ASSUME NEW f \in F PROVE \E s \in {"SYN_SENT", "ESTABLISHED"} : Owns(f, s)
      BY DEF FwInv, ForwarderOK
<1>5. ASSUME NEW p \in Pcb
      PROVE  IF \E f \in F : pf[f].local_client = p
             THEN pcb'[p] = FreePcb ELSE pcb'[p] = pcb[p]
      BY DEF AbortSet
<1>6. FwType'
  <2>1. \A f \in Slot : pf'[f] \in Forwarder
        BY <1>2, <1>3 DEF FwInv, FwType
  <2>2. \A p \in Pcb : pcb'[p] \in ControlBlock
        BY <1>5, FreePcbType DEF FwInv, FwType
  <2>3. pf' \in [Slot -> Forwarder] /\ pcb' \in [Pcb -> ControlBlock]
        BY <2>1, <2>2 DEF AbortSet
  <2> QED BY <2>3, <1>1 DEF FwInv, FwType
<1>7. ASSUME NEW g \in Slot PROVE ForwarderOK(g)'
  <2>1. CASE g \in F
        BY <2>1, <1>1, <1>2 DEF ForwarderOK
  <2>2. CASE g \notin F
    <3>1. ForwarderOK(g) /\ pf'[g] = pf[g]
          BY <2>2, <1>3 DEF FwInv
    <3>2. g \in dns => Waits(g)'
      <4>1. ASSUME Waits(g), NEW f \in F PROVE pf[f].local_client # pf[g].local_client
            BY <4>1, <1>4 DEF Waits, Owns
      <4> QED BY <3>1, <4>1, <1>5 DEF ForwarderOK, Waits
    <3>3. ASSUME NEW s \in {"SYN_SENT", "ESTABLISHED"}, Owns(g, s)
          PROVE  Owns(g, s)'
      <4>1. ASSUME NEW f \in F PROVE pf[f].local_client # pf[g].local_client
            BY <2>2, <3>3, <1>4 DEF Owns
      <4> QED BY <3>1, <3>3, <4>1, <1>5 DEF Owns
    <3> QED BY <3>1, <3>2, <3>3, <1>1 DEF ForwarderOK
  <2> QED BY <2>1, <2>2
<1>8. ASSUME NEW g \in Slot PROVE TimerOK(pf[g])'
  <2>1. TimerOK(pf[g])
        BY DEF FwInv
  <2>2. CASE g \in F
        BY <2>1, <2>2, <1>2 DEF TimerOK
  <2> QED BY <2>1, <2>2, <1>3 DEF TimerOK
<1>9. ASSUME NEW q \in Pcb PROVE BlockOK(q)' /\ (Attached(q)' => Attached(q))
  <2>1. CASE \E f \in F : pf[f].local_client = q
        BY <2>1, <1>5, FreePcbType DEF BlockOK, Attached
  <2>2. CASE ~ \E f \in F : pf[f].local_client = q
    <3>1. BlockOK(q) /\ pcb'[q] = pcb[q]
          BY <2>2, <1>5 DEF FwInv
    <3>2. Attached(q) => pcb[q].arg \in Slot \ F
          BY <3>1, <2>2 DEF BlockOK
    <3> QED BY <3>1, <3>2, <1>3 DEF BlockOK, Attached
  <2> QED BY <2>1, <2>2
<1>10. DnsUnique'
       BY <1>1, <1>3 DEF FwInv, DnsUnique
<1>11. Calm
       BY <1>1, <1>2, <1>3, <1>9 DEF Calm, NoneOpens
<1> QED BY <1>6, <1>7, <1>8, <1>9, <1>10, <1>11 DEF FwInv

-----------------------------------------------------------------------------
\* OutputQueue::write never overfills the send buffer.
LEMMA WritableType ==
    ASSUME FwInv, NEW f \in Slot, NEW p \in Pcb, pf[f].local_client = p
    PROVE  /\ Writable(f) \in Nat
           /\ \A n \in 0..Writable(f) :
                 /\ pf[f].forward_queue - n \in 0..QCap
                 /\ pcb[p].unacked + n \in 0..SndBuf
<1>1. pf[f].forward_queue \in 0..QCap /\ pcb[p].unacked \in 0..SndBuf
      BY DEF FwInv, FwType, Forwarder, ControlBlock
<1> QED BY <1>1, ForwarderAssumption DEF Writable

\* n chunks move from the forward queue to the send buffer.
LEMMA ForwardedType ==
    ASSUME FwInv, NEW f \in Slot, NEW p \in Pcb, pf[f].local_client = p,
           NEW n \in 0..Writable(f)
    PROVE  /\ forwarded(f, n) \in Forwarder
           /\ SameControl(forwarded(f, n), pf[f])
           /\ [pcb[p] EXCEPT !.unacked = @ + n] \in ControlBlock
           /\ SameBlock([pcb[p] EXCEPT !.unacked = @ + n], pcb[p])
<1>1. pf[f] \in Forwarder /\ pcb[p] \in ControlBlock
      BY DEF FwInv, FwType
<1>2. /\ pf[f].forward_queue - n \in 0..QCap
      /\ pcb[p].unacked + n \in 0..SndBuf
      BY WritableType
<1>3. forwarded(f, n) \in Forwarder
      BY <1>1, <1>2 DEF forwarded, Forwarder
<1>4. SameControl(forwarded(f, n), pf[f])
      BY <1>1 DEF forwarded, Forwarder, SameControl
<1>5. [pcb[p] EXCEPT !.unacked = @ + n] \in ControlBlock
      BY <1>1, <1>2 DEF ControlBlock
<1>6. SameBlock([pcb[p] EXCEPT !.unacked = @ + n], pcb[p])
      BY <1>1 DEF ControlBlock, SameBlock
<1> QED BY <1>3, <1>4, <1>5, <1>6

\* Such a transfer preserves the invariant.
LEMMA TransferInv ==
    ASSUME FwInv, NEW f \in Slot, NEW p \in Pcb, pf[f].local_client = p,
           pf[f].state # "NONE", NEW c \in Forwarder, SameControl(c, pf[f]),
           NEW t \in ControlBlock, SameBlock(t, pcb[p]),
           pf' = [pf EXCEPT ![f] = c], pcb' = [pcb EXCEPT ![p] = t], dns' = dns
    PROVE  FwInv' /\ Calm
<1>1. /\ FwType'
      /\ \A q \in Pcb : pcb'[q] = IF q = p THEN t ELSE pcb[q]
      /\ \A g \in Slot : pf'[g] = IF g = f THEN c ELSE pf[g]
      BY DEF FwInv, FwType
<1>2. \A q \in Pcb : SameBlock(pcb'[q], pcb[q])
      BY <1>1 DEF SameBlock
<1>3. \A g \in Slot : SameControl(pf'[g], pf[g])
      BY <1>1 DEF SameControl
<1> QED BY <1>1, <1>2, <1>3, DataUpdate

\* forward(), followed by disconnect() when it fails.
LEMMA ForwardInv ==
    ASSUME FwInv, NEW f \in Slot, pf[f].state = "CONNECTED", Forward(f)
    PROVE  FwInv' /\ Calm
<1>1. ForwarderOK(f) /\ TimerOK(pf[f]) /\ dns' = dns
      BY DEF FwInv, Forward
<1>2. Owns(f, "ESTABLISHED") /\ f \notin dns
      BY <1>1 DEF ForwarderOK, Waits
<1>3. PICK p \in Pcb : /\ p = pf[f].local_client
                       /\ pcb[p].state = "ESTABLISHED" /\ pcb[p].arg = f
      BY <1>2 DEF Owns
<1>4. Writable(f) \in 0..Writable(f)
      BY <1>3, WritableType
<1>5. CASE /\ pf' = [pf EXCEPT ![f] = forwarded(f, Writable(f))]
           /\ pcb' = [pcb EXCEPT ![p].unacked = @ + Writable(f)]
  <2> DEFINE c == forwarded(f, Writable(f))
             t == [pcb[p] EXCEPT !.unacked = @ + Writable(f)]
  <2>1. /\ c \in Forwarder /\ SameControl(c, pf[f])
        /\ t \in ControlBlock /\ SameBlock(t, pcb[p])
        BY <1>3, <1>4, ForwardedType
  <2>2. pf' = [pf EXCEPT ![f] = c] /\ pcb' = [pcb EXCEPT ![p] = t]
        BY <1>5
  <2> HIDE DEF c, t
  <2> QED BY <1>1, <1>3, <2>1, <2>2, TransferInv
<1>6. ASSUME NEW n \in 0..Writable(f),
             pf' = [pf EXCEPT ![f] = disconnect(forwarded(f, n))],
             pcb' = [pcb EXCEPT ![p].unacked = @ + n]
      PROVE  FwInv' /\ Calm
  <2> DEFINE b == forwarded(f, n)
             t == [pcb[p] EXCEPT !.unacked = @ + n]
  <2>1. /\ b \in Forwarder /\ SameControl(b, pf[f])
        /\ t \in ControlBlock /\ SameBlock(t, pcb[p])
        BY <1>3, ForwardedType
  <2>2. PICK c \in Forwarder : c = disconnect(b) /\ Left(c, b)
        BY <2>1, DisconnectType DEF SameControl
  <2>3. pf' = [pf EXCEPT ![f] = c] /\ pcb' = [pcb EXCEPT ![p] = t]
        BY <1>6, <2>2
  <2> HIDE DEF b, t
  <2>4. Left(c, pf[f])
        BY <2>1, <2>2 DEF Left, SameControl
  <2>5. pf'[f] = c /\ pcb'[p] = t
        BY <2>3 DEF FwInv, FwType
  <2>6. TimerOK(c)
        BY <1>1, <2>4 DEF TimerOK, Left
  <2>7. BlockOK(p) /\ Attached(p)
        BY <1>3 DEF FwInv, Attached
  <2>8. ForwarderOK(f)'
    <3>1. Owns(f, "ESTABLISHED")'
          BY <1>3, <2>1, <2>4, <2>5 DEF Owns, Left, SameBlock
    <3> QED BY <3>1, <1>1, <1>2, <1>3, <2>4, <2>5, ForwarderAssumption
            DEF ForwarderOK, Left
  <2>9. BlockOK(p)'
        BY <1>3, <2>1, <2>4, <2>5, <2>7 DEF BlockOK, Attached, SameBlock, Left
  <2>10. FwInv'
         BY <1>1, <1>2, <1>3, <2>1, <2>3, <2>6, <2>8, <2>9, PairUpdate
  <2>11. Calm
         BY <1>1, <2>1, <2>3, <2>4, <2>7, PairCalm DEF Left
  <2> QED BY <2>10, <2>11
<1> QED BY <1>3, <1>5, <1>6 DEF Forward

\* flush_forward_queue(): the block is detached before it is forgotten.
LEMMA FlushForwardInv ==
    ASSUME FwInv, NEW f \in Slot, pf[f].state = "DISCONNECTING",
           pf[f].local_client # NoPcb, FlushForward(f)
    PROVE  FwInv' /\ Calm
<1>1. /\ ForwarderOK(f) /\ TimerOK(pf[f]) /\ dns' = dns
      /\ pf[f] \in Forwarder
      BY DEF FwInv, FwType, FlushForward
<1>2. Owns(f, "ESTABLISHED") /\ f \notin dns
      BY <1>1 DEF ForwarderOK, Waits
<1>3. PICK p \in Pcb : /\ p = pf[f].local_client
                       /\ pcb[p].state = "ESTABLISHED" /\ pcb[p].arg = f
      BY <1>2 DEF Owns
<1>4. Writable(f) \in 0..Writable(f)
      BY <1>3, WritableType
<1>5. CASE /\ pf' = [pf EXCEPT ![f] = forwarded(f, Writable(f))]
           /\ pcb' = [pcb EXCEPT ![p] = [pcb[p] EXCEPT !.unacked = @ + Writable(f)]]
  <2> DEFINE c == forwarded(f, Writable(f))
             t == [pcb[p] EXCEPT !.unacked = @ + Writable(f)]
  <2>1. /\ c \in Forwarder /\ SameControl(c, pf[f])
        /\ t \in ControlBlock /\ SameBlock(t, pcb[p])
        BY <1>3, <1>4, ForwardedType
  <2>2. pf' = [pf EXCEPT ![f] = c] /\ pcb' = [pcb EXCEPT ![p] = t]
        BY <1>5
  <2> HIDE DEF c, t
  <2> QED BY <1>1, <1>3, <2>1, <2>2, TransferInv
<1> DEFINE c == [pf[f] EXCEPT !.forward_queue = 0, !.local_client = NoPcb,
                              !.state = "DISCONNECTED"]
<1>6. c \in Forwarder
  <2>1. 0 \in 0..QCap
        BY ForwarderAssumption
  <2> QED BY <1>1, <2>1 DEF Forwarder, State
<1>7. /\ c.state = "DISCONNECTED" /\ c.local_client = NoPcb
      /\ c.local_server = pf[f].local_server
      /\ c.connect_timeout = pf[f].connect_timeout
      /\ c.fflush_timeout = pf[f].fflush_timeout
      /\ c.rflush_timeout = pf[f].rflush_timeout
      BY <1>1 DEF Forwarder
<1>8. ASSUME NEW n \in 0..Writable(f), pf' = [pf EXCEPT ![f] = c],
             pcb' = [pcb EXCEPT ![p] =
                        close_client([pcb[p] EXCEPT !.unacked = @ + n])]
      PROVE  FwInv' /\ Calm
  <2> DEFINE u == [pcb[p] EXCEPT !.unacked = @ + n]
  <2>1. u \in ControlBlock /\ SameBlock(u, pcb[p])
        BY <1>3, ForwardedType
  <2>2. u.state = "ESTABLISHED"
        BY <1>3, <2>1 DEF SameBlock
  <2>3. PICK t \in ControlBlock : /\ t = close_client(u)
                                  /\ t.state \in {"FREE", "CLOSING"}
                                  /\ t.cbs \cap {"err", "recv"} = {}
        BY <2>1, <2>2, CloseClientType
  <2>4. pcb' = [pcb EXCEPT ![p] = t]
        BY <1>8, <2>3
  <2> HIDE DEF u, c
  <2>5. pf'[f] = c /\ pcb'[p] = t
        BY <1>8, <2>4 DEF FwInv, FwType
  <2>6. TimerOK(c)
        BY <1>1, <1>7 DEF TimerOK
  <2>7. Attached(p)
        BY <1>3 DEF Attached
  <2>8. ForwarderOK(f)'
        BY <1>1, <1>2, <1>7, <2>5 DEF ForwarderOK
  <2>9. BlockOK(p)'
        BY <2>3, <2>5 DEF BlockOK, Attached
  <2>10. FwInv'
         BY <1>1, <1>2, <1>3, <1>6, <1>8, <2>4, <2>6, <2>8, <2>9, PairUpdate
  <2>11. Calm
         BY <1>1, <1>7, <1>8, <2>3, <2>4, <2>7, PairCalm
  <2> QED BY <2>10, <2>11
<1> QED BY <1>3, <1>5, <1>8 DEF FlushForward

\* Forwarders without an attached block may be deleted.
LEMMA DeleteInv ==
    ASSUME FwInv, NEW D \in SUBSET Slot, Delete(D),
           \A p \in Pcb : Attached(p) => pcb[p].arg \notin D
    PROVE  /\ FwInv'
           /\ \A f \in Slot : pf'[f] = pf[f] \/ pf'[f] = NoForwarder
           /\ \A p \in Pcb : Attached(p)' => Attached(p)
           /\ dns \cap D = {} => dns' = dns
<1>1. /\ \A f \in Slot : pf'[f] = IF f \in D THEN NoForwarder ELSE pf[f]
      /\ dns' = (dns \ D) \cup (IF dns \cap D # {} THEN {Gone} ELSE {})
      BY DEF Delete, destroyed
<1>2. ASSUME NEW p \in Pcb
      PROVE  /\ pcb'[p] \in ControlBlock
             /\ pcb'[p].state = pcb[p].state /\ pcb'[p].cbs = pcb[p].cbs
             /\ pcb[p].arg \notin D => pcb'[p] = pcb[p]
  <2>1. pcb[p] \in ControlBlock
        BY DEF FwInv, FwType
  <2>2. CASE pcb[p].arg \in D
    <3>1. pcb'[p] = [pcb[p] EXCEPT !.arg = Gone]
          BY <2>2 DEF Delete
    <3>2. pcb'[p] \in ControlBlock
          BY <2>1, <3>1 DEF ControlBlock
    <3> QED BY <2>1, <2>2, <3>1, <3>2 DEF ControlBlock
  <2>3. CASE pcb[p].arg \notin D
        BY <2>1, <2>3 DEF Delete
  <2> QED BY <2>2, <2>3
<1>3. FwType'
  <2>1. \A f \in Slot : pf'[f] \in Forwarder
        BY <1>1, NoForwarderType DEF FwInv, FwType
  <2>2. pf' \in [Slot -> Forwarder] /\ pcb' \in [Pcb -> ControlBlock]
        BY <2>1, <1>2 DEF Delete
  <2> QED BY <2>2, <1>1 DEF FwInv, FwType
<1>4. \A f \in Slot : f \in dns' <=> f \in dns /\ f \notin D
      BY <1>1, ForwarderAssumption
<1>5. ASSUME NEW g \in Slot PROVE ForwarderOK(g)'
  <2>1. CASE g \in D
        BY <2>1, <1>1, <1>4, NoForwarderType DEF ForwarderOK
  <2>2. CASE g \notin D
    <3>1. ForwarderOK(g) /\ pf'[g] = pf[g] /\ (g \in dns' <=> g \in dns)
          BY <2>2, <1>1, <1>4 DEF FwInv
    <3>2. g \in dns => Waits(g)'
          BY <3>1, <1>2 DEF ForwarderOK, Waits
    <3>3. ASSUME NEW s \in {"SYN_SENT", "ESTABLISHED"}, Owns(g, s)
          PROVE  Owns(g, s)'
          BY <2>2, <3>1, <3>3, <1>2 DEF Owns
    <3> QED BY <3>1, <3>2, <3>3 DEF ForwarderOK
  <2> QED BY <2>1, <2>2
<1>6. ASSUME NEW g \in Slot PROVE TimerOK(pf[g])'
      BY <1>1, NoForwarderType DEF FwInv, TimerOK
<1>7. ASSUME NEW q \in Pcb PROVE BlockOK(q)' /\ (Attached(q)' => Attached(q))
  <2>1. BlockOK(q)
        BY DEF FwInv
  <2>2. CASE Attached(q)
    <3>1. pcb'[q] = pcb[q] /\ pcb[q].arg \in Slot \ D
          BY <2>1, <2>2, <1>2 DEF BlockOK
    <3> QED BY <2>1, <2>2, <3>1, <1>1 DEF BlockOK, Attached
  <2>3. CASE ~Attached(q)
        BY <2>1, <2>3, <1>2 DEF BlockOK, Attached
  <2> QED BY <2>2, <2>3
<1>8. DnsUnique'
      BY <1>1, <1>4 DEF FwInv, DnsUnique
<1> QED BY <1>1, <1>3, <1>5, <1>6, <1>7, <1>8 DEF FwInv

-----------------------------------------------------------------------------
\* A step that opens nothing adds no connecting and no connected forwarder.
LEMMA CalmCounts ==
    ASSUME FwInv, NoneOpens
    PROVE  /\ Connecting' \subseteq Connecting
           /\ connected_count < MaxClients => connected_count' < MaxClients
<1>1. Connecting' \subseteq Connecting /\ Connected' \subseteq Connected
      BY DEF NoneOpens, Connecting, Connected, is_connecting, is_connected
<1>2. IsFiniteSet(Connected)
      BY SlotAssumption, FS_Subset DEF Connected
<1>3. /\ Cardinality(Connected) \in Nat /\ Cardinality(Connected') \in Nat
      /\ Cardinality(Connected') <= Cardinality(Connected)
      BY <1>1, <1>2, FS_Subset, FS_CardinalityType
<1>4. connected_count = Cardinality(Connected)
      /\ connected_count' = Cardinality(Connected')
      BY DEF connected_count
<1> QED BY <1>1, <1>3, <1>4, MaxClientsAssumption

\* A calm step preserves the invariant when the loop variables allow it.
LEMMA CalmInv ==
    ASSUME IInv, FwInv', Calm, LoopType',
           ppp' # "up" => ppp # "up",
           state' = "DISCONNECTING" =>
               state = "DISCONNECTING" /\ ppp' \in {ppp, "terminate", "dead"},
           pc' = "stop" => state' = "DISCONNECTING",
           connecting' = connecting \/ connecting' = still_connecting,
           pc' \in {"send", "recv", "accept"} /\ listen_set' =>
               pc \in {"send", "recv", "accept"} /\ listen_set,
           pc' \in {"start", "done"} => pc \in {"start", "done"} /\ ppp' = ppp
    PROVE  IInv'
<1>1. LinkInv'
      BY DEF IInv, LinkInv, Calm
<1>2. AdmitInv'
  <2>1. /\ Connecting' \subseteq Connecting
        /\ connected_count < MaxClients => connected_count' < MaxClients
        BY CalmCounts DEF IInv, Calm
  <2>2. ~connecting' => Connecting' = {}
        BY <2>1 DEF IInv, AdmitInv, still_connecting, has_connecting_forwarders
  <2> QED BY <2>1, <2>2 DEF IInv, AdmitInv
<1>3. RestInv'
      BY DEF IInv, RestInv, Calm, NoneOpens
<1> QED BY <1>1, <1>2, <1>3 DEF IInv

\* A step that leaves forwarders, blocks and requests alone is calm.
LEMMA FrameInv ==
    ASSUME FwInv, UNCHANGED fwvars
    PROVE  FwInv' /\ Calm
<1>1. pf' = pf /\ pcb' = pcb /\ dns' = dns
      BY DEF fwvars
<1>2. FwType' /\ DnsUnique'
      BY <1>1 DEF FwInv, FwType, DnsUnique
<1>3. \A f \in Slot : ForwarderOK(f)' /\ TimerOK(pf[f])'
      BY <1>1 DEF FwInv, ForwarderOK, Waits, Owns
<1>4. \A p \in Pcb : BlockOK(p)' /\ (Attached(p)' <=> Attached(p))
      BY <1>1 DEF FwInv, BlockOK, Attached
<1>5. Calm
      BY <1>1, <1>4 DEF Calm, NoneOpens
<1> QED BY <1>2, <1>3, <1>4, <1>5 DEF FwInv

\* The steps that leave forwarders, blocks and requests alone.
Still ==
    \/ Terminate \/ Start \/ SelectError \/ SkipSelect
    \/ Send \/ RecvReturns \/ NoAccept \/ IODone
    \/ ForwardDone \/ TimersDone \/ SwitchConnecting \/ SwitchRunning
    \/ SwitchDisconnecting \/ FireAbortTimeout \/ FireDisconnectTimeout \/ PppUp
    \/ PppDead

\* The steps of the loop that only move control.
LEMMA StillInv ==
    ASSUME IInv, Still
    PROVE  IInv' /\ Calm
<1>0. UNCHANGED fwvars
      BY DEF Still, Terminate, Start, SelectError, SkipSelect, Send,
         RecvReturns, NoAccept, IODone, ForwardDone, TimersDone,
             SwitchConnecting, SwitchRunning, SwitchDisconnecting,
             FireAbortTimeout, FireDisconnectTimeout, PppUp, PppDead
<1>1. FwInv' /\ Calm
      BY <1>0, FrameInv DEF IInv
<1>2. active_port_forwarders \subseteq Slot /\ active_port_forwarders' \subseteq Slot
      BY DEF active_port_forwarders
<1> DEFINE Goal ==
      /\ LoopType'
      /\ ppp' # "up" => ppp # "up"
      /\ state' = "DISCONNECTING" =>
            state = "DISCONNECTING" /\ ppp' \in {ppp, "terminate", "dead"}
      /\ pc' = "stop" => state' = "DISCONNECTING"
      /\ connecting' = connecting \/ connecting' = still_connecting
      /\ pc' \in {"send", "recv", "accept"} /\ listen_set' =>
            pc \in {"send", "recv", "accept"} /\ listen_set
      /\ pc' \in {"start", "done"} => pc \in {"start", "done"} /\ ppp' = ppp
<1>3. ASSUME Terminate PROVE Goal
      BY <1>3, <1>2
         DEF Terminate, IInv, LoopType, LinkInv, Timer, loopvars, setvars
<1>4. ASSUME Start PROVE Goal
      BY <1>4, <1>2 DEF Start, IInv, LoopType, LinkInv, Timer, loopvars, setvars
<1>5. ASSUME SelectError PROVE Goal
      BY <1>5, <1>2
         DEF SelectError, IInv, LoopType, LinkInv, Timer, loopvars, setvars
<1>6. ASSUME SkipSelect PROVE Goal
      BY <1>6, <1>2
         DEF SkipSelect, IInv, LoopType, LinkInv, Timer, loopvars, setvars
<1>7. ASSUME Send PROVE Goal
  <2>1. tunnel' \in BOOLEAN /\ terminate' \in BOOLEAN
    <3>1. CASE UNCHANGED <<tunnel, terminate>>
          BY <3>1 DEF IInv, LoopType
    <3>2. CASE tunnel' = FALSE /\ terminate' = TRUE
          BY <3>2
    <3> QED BY <1>7, <3>1, <3>2 DEF Send
  <2>2. /\ pc' = "recv" /\ pc = "send"
        /\ UNCHANGED <<state, todo, ppp, loopvars, setvars>>
        BY <1>7 DEF Send
  <2> QED BY <2>1, <2>2 DEF IInv, LoopType, LinkInv, loopvars, setvars
<1>8. ASSUME RecvReturns PROVE Goal
  <2>1. tunnel' \in BOOLEAN /\ terminate' \in BOOLEAN
    <3>1. CASE UNCHANGED <<tunnel, terminate>>
          BY <3>1 DEF IInv, LoopType
    <3>2. CASE tunnel' = FALSE /\ terminate' = TRUE
          BY <3>2
    <3> QED BY <1>8, <3>1, <3>2 DEF RecvReturns
  <2>2. /\ pc' = "accept" /\ pc = "recv"
        /\ UNCHANGED <<state, todo, ppp, loopvars, setvars>>
        BY <1>8 DEF RecvReturns
  <2> QED BY <2>1, <2>2 DEF IInv, LoopType, LinkInv, loopvars, setvars
<1>9. ASSUME NoAccept PROVE Goal
      BY <1>9, <1>2 DEF NoAccept, IInv, LoopType, LinkInv, Timer, loopvars,
         setvars, ToIO
<1>10. ASSUME IODone PROVE Goal
      BY <1>10, <1>2
         DEF IODone, IInv, LoopType, LinkInv, Timer, loopvars, setvars
<1>11. ASSUME ForwardDone PROVE Goal
      BY <1>11, <1>2
         DEF ForwardDone, IInv, LoopType, LinkInv, Timer, loopvars, setvars
<1>12. ASSUME TimersDone PROVE Goal
      BY <1>12, <1>2
         DEF TimersDone, IInv, LoopType, LinkInv, Timer, loopvars, setvars
<1>13. ASSUME SwitchConnecting PROVE Goal
      BY <1>13, <1>2 DEF SwitchConnecting, IInv, LoopType, LinkInv, Timer,
         loopvars, setvars, NextIteration
<1>14. ASSUME SwitchRunning PROVE Goal
      BY <1>14, <1>2 DEF SwitchRunning, IInv, LoopType, LinkInv, Timer,
         loopvars, setvars, NextIteration, still_connecting,
             has_connecting_forwarders
<1>15. ASSUME SwitchDisconnecting PROVE Goal
      BY <1>15, <1>2 DEF SwitchDisconnecting, IInv, LoopType, LinkInv, Timer,
         loopvars, setvars
<1>16. ASSUME FireAbortTimeout PROVE Goal
      BY <1>16, <1>2 DEF FireAbortTimeout, IInv, LoopType, LinkInv, Timer,
         loopvars, setvars
<1>17. ASSUME FireDisconnectTimeout PROVE Goal
      BY <1>17, <1>2 DEF FireDisconnectTimeout, IInv, LoopType, LinkInv,
         Timer, loopvars, setvars
<1>18. ASSUME PppUp PROVE Goal
      BY <1>18, <1>2
         DEF PppUp, IInv, LoopType, LinkInv, Timer, loopvars, setvars
<1>19. ASSUME PppDead PROVE Goal
      BY <1>19, <1>2
         DEF PppDead, InLwip, IInv, LoopType, LinkInv, Timer, loopvars, setvars
<1>20. Goal
      BY <1>3, <1>4, <1>5, <1>6, <1>7, <1>8, <1>9, <1>10, <1>11, <1>12, <1>13,
         <1>14, <1>15, <1>16, <1>17, <1>18, <1>19 DEF Still
<1> QED BY <1>1, <1>20, CalmInv

\* A calm step inside a phase.
LEMMA QuietInv ==
    ASSUME IInv, FwInv', Calm,
           UNCHANGED <<state, pc, terminate, tunnel, ppp, loopvars, setvars>>,
           todo' \subseteq Slot
    PROVE  IInv'
<1>1. LoopType'
      BY DEF IInv, LoopType, loopvars, setvars
<1> QED BY <1>1, CalmInv DEF IInv, LinkInv, loopvars, setvars

\* The select phase decides on the listener from the state it sees.
LEMMA SelectInv ==
    ASSUME IInv, Select
    PROVE  IInv' /\ Calm
<1>1. UNCHANGED <<fwvars, state, todo, terminate, tunnel, ppp, loopvars>>
      BY DEF Select
<1>2. FwInv' /\ Calm
      BY <1>1, FrameInv DEF IInv
<1>3. LoopType'
  <2>1. listen_set' \in BOOLEAN
        BY DEF Select, listener_ready, if4_up, IInv, LoopType
  <2>2. read_set' \subseteq Slot /\ write_set' \subseteq Slot /\ pc' = "send"
        BY DEF Select, Connected
  <2> QED BY <1>1, <2>1, <2>2 DEF IInv, LoopType, loopvars
<1>4. LinkInv'
      BY <1>1, <1>2 DEF IInv, LinkInv, Calm, Select
<1>5. /\ Connecting' \subseteq Connecting
      /\ connected_count < MaxClients => connected_count' < MaxClients
      BY <1>2, CalmCounts DEF Calm, IInv
<1>6. listen_set' => ~connecting /\ connected_count < MaxClients
      BY DEF Select, listener_ready
<1>7. AdmitInv'
      BY <1>1, <1>5, <1>6 DEF IInv, AdmitInv, loopvars
<1>8. RestInv'
      BY DEF RestInv, Select
<1> QED BY <1>2, <1>3, <1>4, <1>7, <1>8 DEF IInv

\* A client is accepted; a route exists only if the link is up.
LEMMA AcceptInv ==
    ASSUME IInv, NEW f \in Slot, NEW p \in Pcb, Accept(f, p)
    PROVE  IInv' /\ Orphans
<1>1. /\ pf[f].state = "NONE" /\ pc = "accept" /\ connecting' = TRUE
      /\ pc' = "io" /\ todo' \subseteq Slot
      /\ UNCHANGED <<state, terminate, tunnel, ppp, abort_timeout,
                     disconnect_timeout, setvars>>
      BY DEF Accept, ToIO, active_port_forwarders
<1>2. if4_up \in BOOLEAN
      BY DEF if4_up
<1>3. FwInv'
      BY <1>1, <1>2, ConnectResolvingInv, ConnectResolvedInv DEF IInv, Accept
<1>4. LoopType'
      BY <1>1 DEF IInv, LoopType, setvars
<1>5. LinkInv'
  <2>1. ASSUME ppp # "up", NEW q \in Pcb PROVE ~Attached(q)'
    <3>1. ~Attached(q)
          BY <2>1 DEF IInv, LinkInv
    <3>2. PICK t \in ControlBlock : /\ pcb' = [pcb EXCEPT ![p] = t]
                                    /\ t.state \in {"FREE", "CLOSED"}
      <4>1. CASE ConnectResolving(f, p)
        <5> DEFINE t == [FreePcb EXCEPT !.state = "CLOSED"]
        <5>1. t \in ControlBlock /\ t.state = "CLOSED"
              BY FreePcbType DEF ControlBlock
        <5>2. pcb' = [pcb EXCEPT ![p] = t]
              BY <4>1 DEF ConnectResolving
        <5> QED BY <5>1, <5>2
      <4>2. CASE ConnectResolved(f, p, if4_up)
        <5>1. pcb' = [pcb EXCEPT ![p] = FreePcb]
              BY <2>1, <4>2 DEF ConnectResolved, if4_up
        <5> QED BY <5>1, FreePcbType
      <4> QED BY <4>1, <4>2 DEF Accept
    <3>3. pcb'[q] = IF q = p THEN t ELSE pcb[q]
          BY <3>2 DEF IInv, FwInv, FwType
    <3> QED BY <3>1, <3>2, <3>3 DEF Attached
  <2> QED BY <1>1, <2>1 DEF IInv, LinkInv
<1>6. AdmitInv'
      BY <1>1 DEF AdmitInv
<1>7. RestInv'
      BY <1>1 DEF RestInv
<1>8. Orphans
      BY ForwarderAssumption
         DEF Orphans, Accept, ConnectResolving, ConnectResolved
<1> QED BY <1>3, <1>4, <1>5, <1>6, <1>7, <1>8 DEF IInv

\* Requests of deleted forwarders come and go without a trace.
LEMMA GoneFails ==
    ASSUME FwInv, pf' = pf, pcb' = pcb,
           dns' \in {dns, dns \cup {Gone}, dns \ {Gone}}
    PROVE  FwInv' /\ NoneOpens /\ \A p \in Pcb : Attached(p)' => Attached(p)
<1>1. \A f \in Slot : f \in dns' <=> f \in dns
      BY ForwarderAssumption
<1>2. FwType'
      BY DEF FwInv, FwType
<1>3. DnsUnique'
      BY <1>1 DEF FwInv, DnsUnique
<1>4. \A f \in Slot : ForwarderOK(f)' /\ TimerOK(pf[f])'
      BY <1>1 DEF FwInv, ForwarderOK, Waits, Owns
<1>5. \A p \in Pcb : BlockOK(p)' /\ (Attached(p)' <=> Attached(p))
      BY DEF FwInv, BlockOK, Attached
<1> QED BY <1>2, <1>3, <1>4, <1>5 DEF FwInv, NoneOpens

\* connect() fails and the forwarder is deleted by its caller.
LEMMA AcceptFailsInv ==
    ASSUME IInv, AcceptFails
    PROVE  IInv' /\ NoneOpens /\ Orphans
<1>1. /\ pc = "accept" /\ connecting' = connecting
      /\ pc' = "io" /\ todo' \subseteq Slot
      /\ UNCHANGED <<state, terminate, tunnel, ppp, abort_timeout,
                     disconnect_timeout, setvars>>
      BY DEF AcceptFails, ToIO, active_port_forwarders
<1>2. /\ pf' = pf /\ pcb' = pcb
      /\ \/ dns' = dns
         \/ "tcp_new" \in Faults /\ Allocatable = {} /\ dns' = dns \cup {Gone}
      BY DEF AcceptFails, ConnectFails
<1>3. FwInv' /\ NoneOpens /\ \A p \in Pcb : Attached(p)' => Attached(p)
      BY <1>2, GoneFails DEF IInv
<1>4. LoopType'
      BY <1>1 DEF IInv, LoopType, setvars
<1>5. LinkInv'
      BY <1>1, <1>3 DEF IInv, LinkInv
<1>6. AdmitInv'
      BY <1>1, <1>2 DEF IInv, AdmitInv, Connecting
<1>7. RestInv'
      BY <1>1 DEF RestInv
<1>8. Orphans
      BY <1>1, <1>2 DEF Orphans, LeftBehind
<1> QED BY <1>3, <1>4, <1>5, <1>6, <1>7, <1>8 DEF IInv

\* The io phase.
LEMMA ForwarderIOInv ==
    ASSUME IInv, NEW f \in Slot, ForwarderIO(f)
    PROVE  IInv' /\ Calm
<1>1. PICK c \in Visited(f) : pf' = [pf EXCEPT ![f] = c]
      BY DEF ForwarderIO
<1>2. /\ pcb' = pcb /\ dns' = dns
      /\ UNCHANGED <<state, pc, terminate, tunnel, ppp, loopvars, setvars>>
      /\ todo' \subseteq Slot
      BY DEF ForwarderIO, IInv, LoopType
<1>3. FwInv' /\ Calm
      BY <1>1, <1>2, VisitInv DEF IInv
<1> QED BY <1>2, <1>3, QuietInv

\* The forward phase: abort() is only reached once the DNS answer has come.
LEMMA ForwarderStepInv ==
    ASSUME IInv, NEW f \in Slot, ForwarderStep(f)
    PROVE  IInv' /\ Calm
<1>1. /\ UNCHANGED <<state, pc, terminate, tunnel, ppp, loopvars, setvars>>
      /\ todo' \subseteq Slot
      BY DEF ForwarderStep, IInv, LoopType
<1>2. \/ has_connection_timed_out(pf[f]) /\ AbortSet({f})
      \/ is_connected(pf[f]) /\ Forward(f)
      \/ is_disconnecting(pf[f]) /\ can_flush_forward_queue(pf[f]) /\ FlushForward(f)
      \/ UNCHANGED fwvars
      BY DEF ForwarderStep
<1>3. CASE has_connection_timed_out(pf[f]) /\ AbortSet({f})
  <2>1. pf[f].state = "CONNECTING" /\ f \notin dns
        BY <1>3 DEF has_connection_timed_out, is_connecting, IInv, FwInv,
                    ForwarderOK, Waits
  <2> QED BY <1>1, <1>3, <2>1, AbortSetInv, QuietInv DEF IInv
<1>4. CASE is_connected(pf[f]) /\ Forward(f)
      BY <1>1, <1>4, ForwardInv, QuietInv DEF is_connected, IInv
<1>5. CASE /\ is_disconnecting(pf[f]) /\ can_flush_forward_queue(pf[f])
           /\ FlushForward(f)
      BY <1>1, <1>5, FlushForwardInv, QuietInv
         DEF is_disconnecting, can_flush_forward_queue, IInv
<1>6. CASE UNCHANGED fwvars
      BY <1>1, <1>6, FrameInv, QuietInv DEF IInv
<1> QED BY <1>2, <1>3, <1>4, <1>5, <1>6

\* The delete phase: no finished forwarder is attached or awaited.
LEMMA DeleteForwardersInv ==
    ASSUME IInv, DeleteForwarders
    PROVE  IInv' /\ Calm
<1>1. Delete(Finished) /\ pc = "delete" /\ pc' = "switch"
      /\ UNCHANGED <<state, todo, terminate, tunnel, ppp, loopvars, setvars>>
      BY DEF DeleteForwarders
<1>2. Finished \in SUBSET Slot
      BY DEF Finished
<1>3. ASSUME NEW p \in Pcb, Attached(p) PROVE pcb[p].arg \notin Finished
  <2>1. BlockOK(p)
        BY DEF IInv, FwInv
  <2> QED BY <1>3, <2>1
             DEF BlockOK, Attached, Finished, has_failed, is_disconnected
<1>4. dns \cap Finished = {}
      BY DEF IInv, FwInv, ForwarderOK, Waits, Finished, has_failed,
         is_disconnected
<1>5. /\ FwInv'
      /\ \A f \in Slot : pf'[f] = pf[f] \/ pf'[f] = NoForwarder
      /\ \A p \in Pcb : Attached(p)' => Attached(p)
      /\ dns' = dns
      BY <1>1, <1>2, <1>3, <1>4, DeleteInv DEF IInv
<1>6. Calm
      BY <1>5, NoForwarderType DEF Calm, NoneOpens
<1>7. LoopType'
      BY <1>1 DEF IInv, LoopType, loopvars, setvars
<1> QED BY <1>1, <1>5, <1>6, <1>7, CalmInv DEF loopvars, setvars

-----------------------------------------------------------------------------
\* terminate() aborts the connected forwarders.
LEMMA SwitchTerminateInv ==
    ASSUME IInv, SwitchTerminate
    PROVE  IInv' /\ Calm
<1>1. /\ AbortSet(Connected) /\ state' = "CLOSING" /\ pc' = "select"
      /\ UNCHANGED <<todo, terminate, tunnel, ppp, connecting,
                     disconnect_timeout, setvars>>
      /\ abort_timeout' \in {"armed", "off"}
      BY DEF SwitchTerminate, abort_all, NextIteration
<1>2. Connected \in SUBSET Slot
      BY DEF Connected
<1>3. ASSUME NEW f \in Connected
      PROVE  pf[f].state \in {"CONNECTING", "CONNECTED"} /\ f \notin dns
  <2>1. ForwarderOK(f) /\ pf[f].state = "CONNECTED"
        BY DEF IInv, FwInv, Connected, is_connected
  <2> QED BY <2>1 DEF ForwarderOK, Waits
<1>4. FwInv' /\ Calm
      BY <1>1, <1>2, <1>3, AbortSetInv DEF IInv
<1>5. LoopType'
      BY <1>1 DEF IInv, LoopType, setvars, Timer
<1> QED BY <1>1, <1>4, <1>5, CalmInv

\* The address is removed: every connection is given up.
LEMMA InterfaceDownInv ==
    ASSUME FwInv, InterfaceDown
    PROVE  FwInv' /\ Calm /\ \A p \in Pcb : ~Attached(p)'
<1> DEFINE P == {p \in Pcb : Connection(p)}
<1>1. P \in SUBSET Pcb /\ (\A p \in P : Connection(p)) /\ TcpErr(P)
      BY DEF InterfaceDown
<1>2. FwInv' /\ Calm /\ \A p \in P : ~Attached(p)'
      BY <1>1, TcpErrInv
<1>3. \A p \in Pcb : Attached(p) => p \in P
      BY DEF Attached, Connection
<1> HIDE DEF P
<1> QED BY <1>2, <1>3 DEF Calm

\* PppDown and PppClose: whatever state the link was in, no connection is left.
LEMMA LinkGoesDown ==
    ASSUME IInv, IF if4_up THEN InterfaceDown ELSE UNCHANGED fwvars
    PROVE  FwInv' /\ Calm /\ \A p \in Pcb : ~Attached(p)'
<1>1. CASE if4_up
      BY <1>1, InterfaceDownInv DEF IInv
<1>2. CASE ~if4_up
  <2>1. FwInv' /\ Calm
        BY <1>2, FrameInv DEF IInv
  <2> QED BY <1>2, <2>1 DEF Calm, IInv, LinkInv, if4_up
<1> QED BY <1>1, <1>2

\* The step that takes the link down preserves the invariant.
LEMMA DownInv ==
    ASSUME IInv, FwInv', Calm, \A p \in Pcb : ~Attached(p)', LoopType',
           state' = "DISCONNECTING" => ppp' \in {"terminate", "dead"},
           pc' \notin {"stop", "start", "done"},
           connecting' = connecting,
           pc' \in {"send", "recv", "accept"} /\ listen_set' =>
               pc \in {"send", "recv", "accept"} /\ listen_set
    PROVE  IInv'
<1>1. LinkInv'
      BY DEF LinkInv
<1>2. AdmitInv'
  <2>1. /\ Connecting' \subseteq Connecting
        /\ connected_count < MaxClients => connected_count' < MaxClients
        BY CalmCounts DEF IInv, Calm
  <2> QED BY <2>1 DEF IInv, AdmitInv
<1>3. RestInv'
      BY DEF RestInv
<1> QED BY <1>1, <1>2, <1>3 DEF IInv

\* The peer ends the link.
LEMMA PppDownInv ==
    ASSUME IInv, PppDown
    PROVE  IInv' /\ Calm
<1>1. /\ pc \in {"recv", "timers"}
      /\ ppp' = "terminate" \/ (ppp = "up" /\ ppp' = "establish")
      /\ IF if4_up THEN InterfaceDown ELSE UNCHANGED fwvars
      /\ UNCHANGED <<state, pc, todo, terminate, tunnel, loopvars, setvars>>
      BY DEF PppDown, InLwip, if4_up
<1>2. FwInv' /\ Calm /\ \A p \in Pcb : ~Attached(p)'
      BY <1>1, LinkGoesDown
<1>3. LoopType'
      BY <1>1 DEF IInv, LoopType, loopvars, setvars
<1>4. state' = "DISCONNECTING" => ppp' \in {"terminate", "dead"}
      BY <1>1 DEF IInv, LinkInv
<1> QED BY <1>1, <1>2, <1>3, <1>4, DownInv DEF loopvars, setvars

\* PPInterface::close.
LEMMA SwitchClosingInv ==
    ASSUME IInv, SwitchClosing
    PROVE  IInv' /\ Calm
<1>1. /\ pc = "switch" /\ pc' = "select" /\ state = "CLOSING"
      /\ UNCHANGED <<terminate, tunnel, connecting, abort_timeout, todo, setvars>>
      BY DEF SwitchClosing, NextIteration
<1>2. CASE PppClose /\ StartDisconnectTimer /\ state' = "DISCONNECTING"
  <2>1. IF if4_up THEN InterfaceDown ELSE UNCHANGED fwvars
        BY <1>2 DEF PppClose
  <2>2. FwInv' /\ Calm /\ \A p \in Pcb : ~Attached(p)'
        BY <2>1, LinkGoesDown
  <2>3. ppp' \in {"terminate", "dead"}
        BY <1>2 DEF PppClose, IInv, LoopType
  <2>4. LoopType'
        BY <1>1, <1>2, <2>3
           DEF IInv, LoopType, setvars, Timer, StartDisconnectTimer
  <2> QED BY <1>1, <2>2, <2>3, <2>4, DownInv
<1>3. CASE UNCHANGED <<fwvars, state, ppp, disconnect_timeout>>
  <2>1. FwInv' /\ Calm
        BY <1>3, FrameInv DEF IInv
  <2>2. LoopType'
        BY <1>1, <1>3 DEF IInv, LoopType, setvars
  <2> QED BY <1>1, <1>3, <2>1, <2>2, CalmInv
<1> QED BY <1>2, <1>3 DEF SwitchClosing

\* The end of run(): nothing is attached, so the forwarders can be destroyed.
LEMMA StopInv ==
    ASSUME IInv, Stop
    PROVE  IInv' /\ NoneOpens /\ Orphans
<1>1. /\ pc = "stop" /\ pc' = "done" /\ ppp' = "dead" /\ state' = "STOPPED"
      /\ abort_timeout' = "off" /\ disconnect_timeout' = "off" /\ tunnel' = FALSE
      /\ UNCHANGED <<todo, terminate, connecting, setvars>>
      /\ Delete(active_port_forwarders)
      BY DEF Stop
<1>2. active_port_forwarders \in SUBSET Slot
      BY DEF active_port_forwarders
<1>3. \A p \in Pcb : ~Attached(p)
      BY <1>1 DEF IInv, LinkInv
<1>4. /\ FwInv'
      /\ \A f \in Slot : pf'[f] = pf[f] \/ pf'[f] = NoForwarder
      /\ \A p \in Pcb : Attached(p)' => Attached(p)
      BY <1>1, <1>2, <1>3, DeleteInv DEF IInv
<1>5. NoneOpens
      BY <1>4, NoForwarderType DEF NoneOpens
<1>6. LoopType'
  <2>1. tunnel' \in BOOLEAN
        BY <1>1
  <2> QED BY <1>1, <2>1 DEF IInv, LoopType, setvars, Timer
<1>7. LinkInv'
      BY <1>1, <1>3, <1>4 DEF LinkInv
<1>8. AdmitInv'
      BY <1>1, <1>4, <1>5, CalmCounts DEF IInv, AdmitInv
<1>9. RestInv'
  <2>1. \A f \in Slot :
           pf'[f] = IF f \in active_port_forwarders THEN NoForwarder ELSE pf[f]
        BY <1>1 DEF Delete, destroyed
  <2>2. \A f \in Slot : f \in active_port_forwarders <=> pf[f].state # "NONE"
        BY DEF active_port_forwarders
  <2> QED BY <1>1, <2>1, <2>2, NoForwarderType DEF RestInv
<1>10. Orphans
  <2>1. ASSUME Gone \in dns' \ dns PROVE Connecting \cap dns # {}
    <3>1. PICK f \in Slot : f \in dns
          BY <1>1, <1>2, <2>1 DEF Delete
    <3>2. f \in Connecting
          BY <3>1 DEF IInv, FwInv, ForwarderOK, Waits, Connecting, is_connecting
    <3> QED BY <3>1, <3>2
  <2> QED BY <1>1, <2>1 DEF Orphans, LeftBehind
<1> QED BY <1>4, <1>5, <1>6, <1>7, <1>8, <1>9, <1>10 DEF IInv

\* The next tunneler: everything that the last session left is at rest.
LEMMA NextTunnelerInv ==
    ASSUME IInv, NextTunneler
    PROVE  IInv' /\ Calm
<1>1. /\ pc = "done" /\ UNCHANGED fwvars
      /\ state' = "READY" /\ pc' = "start" /\ todo' = {}
      /\ ppp' = "establish" /\ connecting' = FALSE
      /\ abort_timeout' = "off" /\ disconnect_timeout' = "off"
      /\ read_set' = {} /\ write_set' = {}
      BY DEF NextTunneler
<1>2. /\ terminate' \in BOOLEAN /\ tunnel' \in BOOLEAN
      /\ connecting' \in BOOLEAN /\ listen_set' \in BOOLEAN
      BY DEF NextTunneler
<1>3. FwInv' /\ Calm
      BY <1>1, FrameInv DEF IInv
<1>4. LoopType'
      BY <1>1, <1>2 DEF LoopType, Timer
<1>5. LinkInv'
      BY <1>1, <1>3 DEF IInv, RestInv, LinkInv, Calm
<1>6. \A f \in Slot : pf'[f].state = "NONE"
      BY <1>1 DEF IInv, RestInv, fwvars
<1>7. AdmitInv'
      BY <1>1, <1>6 DEF AdmitInv, Connecting, is_connecting
<1>8. RestInv'
      BY <1>1, <1>6 DEF RestInv
<1> QED BY <1>3, <1>4, <1>5, <1>7, <1>8 DEF IInv

-----------------------------------------------------------------------------
\* tcp_connected_cb, in the loop: never while the listener has said yes.
LEMMA OpensInv ==
    ASSUME IInv, NEW p \in Pcb, Input, TcpConnected(p),
           UNCHANGED <<state, pc, todo, terminate, tunnel, ppp, loopvars, setvars>>
    PROVE  /\ IInv' /\ dns' = dns
           /\ \E f \in Slot :
                 /\ pf[f].state = "CONNECTING" /\ pf'[f].state = "CONNECTED"
                 /\ \A g \in Slot \ {f} : pf'[g] = pf[g]
<1>1. /\ FwInv'
      /\ \A q \in Pcb : Attached(q)' => Attached(q)
      /\ dns' = dns
      BY TcpConnectedInv DEF IInv
<1>2. PICK f \in Slot :
         /\ pf[f].state = "CONNECTING" /\ pf'[f].state = "CONNECTED"
         /\ \A g \in Slot \ {f} : pf'[g] = pf[g]
      BY TcpConnectedInv DEF IInv
<1>3. f \in Connecting /\ Connecting' \subseteq Connecting
      BY <1>2 DEF Connecting, is_connecting
<1>4. LoopType'
      BY DEF IInv, LoopType, loopvars, setvars
<1>5. LinkInv'
      BY <1>1 DEF IInv, LinkInv
<1>6. AdmitInv'
      BY <1>3 DEF IInv, AdmitInv, loopvars, setvars
<1>7. RestInv'
      BY DEF RestInv, Input
<1> QED BY <1>1, <1>2, <1>4, <1>5, <1>6, <1>7 DEF IInv

\* dns_found_cb, in the loop: it needs the link.
LEMMA ResolvesInv ==
    ASSUME IInv, NEW f \in Slot, Input, DnsFound(f),
           UNCHANGED <<state, pc, todo, terminate, tunnel, ppp, loopvars, setvars>>
    PROVE  IInv' /\ NoneOpens /\ dns' \subseteq dns
<1>1. FwInv' /\ NoneOpens /\ dns' \subseteq dns
      BY DnsFoundInv DEF IInv
<1>2. LoopType'
      BY DEF IInv, LoopType, loopvars, setvars
<1>3. LinkInv'
      BY DEF IInv, LinkInv, Input, if4_up
<1>4. AdmitInv'
      BY <1>1, CalmCounts DEF IInv, AdmitInv, loopvars, setvars
<1>5. RestInv'
      BY DEF RestInv, Input
<1> QED BY <1>1, <1>2, <1>3, <1>4, <1>5 DEF IInv

\* The two other kinds of steps: one connection is established, one client is
\* accepted.
Opens ==
    \E f \in Slot : /\ pf[f].state = "CONNECTING" /\ pf'[f].state = "CONNECTED"
                    /\ \A g \in Slot \ {f} : pf'[g] = pf[g]

Admits == \E f \in Slot, p \in Pcb : Accept(f, p)

\* Every lwIP callback.
LEMMA CallbacksInv ==
    ASSUME IInv, LwipCallback
    PROVE  IInv' /\ (NoneOpens \/ Opens) /\ dns' \subseteq dns
<1> DEFINE Frame ==
      UNCHANGED <<state, pc, todo, terminate, tunnel, ppp, loopvars, setvars>>
<1>1. Frame /\ todo' \subseteq Slot
      BY DEF LwipCallback, IInv, LoopType
<1>2. ASSUME FwInv' /\ Calm PROVE IInv' /\ NoneOpens /\ dns' \subseteq dns
      BY <1>1, <1>2, QuietInv DEF Calm
<1>3. CASE \E f \in Slot : Input /\ DnsFound(f)
      BY <1>1, <1>3, ResolvesInv
<1>4. CASE \E f \in Slot : DnsNotFound(f)
      BY <1>2, <1>4, DnsNotFoundInv DEF IInv
<1>5. CASE \E p \in Pcb : Input /\ TcpConnected(p)
      BY <1>1, <1>5, OpensInv DEF Opens
<1>6. CASE \E p \in Pcb : Connection(p) /\ TcpErr({p})
  <2>1. PICK p \in Pcb : Connection(p) /\ TcpErr({p})
        BY <1>6
  <2>2. {p} \in SUBSET Pcb /\ \A q \in {p} : Connection(q)
        BY <2>1
  <2> QED BY <1>2, <2>1, <2>2, TcpErrInv DEF IInv
<1>7. CASE \E p \in Pcb, n \in 1..SndBuf : TcpSent(p, n)
      BY <1>2, <1>7, TcpSentInv DEF IInv
<1>8. CASE \E p \in Pcb : TcpRecvData(p)
      BY <1>2, <1>8, TcpRecvDataInv DEF IInv
<1>9. CASE \E p \in Pcb : TcpRecvEof(p)
      BY <1>2, <1>9, TcpRecvEofInv DEF IInv
<1>10. CASE \E p \in Pcb : TcpRecvRest(p)
       BY <1>2, <1>10, TcpRecvRestInv DEF IInv
<1> QED BY <1>3, <1>4, <1>5, <1>6, <1>7, <1>8, <1>9, <1>10
        DEF LwipCallback, Callbacks, Connection

\* Every step preserves the invariant, and is of one of three kinds.
LEMMA StepInv ==
    ASSUME IInv, [Next]_vars
    PROVE  IInv' /\ (NoneOpens \/ Opens \/ Admits) /\ Orphans
<1>0. dns' \subseteq dns => Orphans
      BY DEF Orphans
<1>1. CASE Still
      BY <1>0, <1>1, StillInv DEF Calm
<1>2. CASE Select
      BY <1>0, <1>2, SelectInv DEF Calm
<1>3. CASE Admits
      BY <1>3, AcceptInv DEF Admits
<1>4. CASE AcceptFails
      BY <1>4, AcceptFailsInv
<1>5. CASE \E f \in Slot : ForwarderIO(f)
      BY <1>0, <1>5, ForwarderIOInv DEF Calm
<1>6. CASE \E f \in Slot : ForwarderStep(f)
      BY <1>0, <1>6, ForwarderStepInv DEF Calm
<1>7. CASE DeleteForwarders
      BY <1>0, <1>7, DeleteForwardersInv DEF Calm
<1>8. CASE SwitchTerminate
      BY <1>0, <1>8, SwitchTerminateInv DEF Calm
<1>9. CASE SwitchClosing
      BY <1>0, <1>9, SwitchClosingInv DEF Calm
<1>10. CASE Stop
       BY <1>10, StopInv
<1>11. CASE LwipCallback
       BY <1>0, <1>11, CallbacksInv
<1>12. CASE \E f \in Slot : DnsGivesUp(f)
  <2>1. PICK f \in Slot : DnsGivesUp(f)
        BY <1>12
  <2>2. /\ DnsNotFound(f) /\ todo' \subseteq Slot
        /\ UNCHANGED <<state, pc, terminate, tunnel, ppp, loopvars, setvars>>
        BY <2>1 DEF DnsGivesUp, IInv, LoopType
  <2> QED BY <1>0, <2>2, DnsNotFoundInv, QuietInv DEF IInv, Calm
<1>13. CASE \E p \in Pcb : TcpGivesUp(p)
  <2>1. PICK p \in Pcb : TcpGivesUp(p)
        BY <1>13
  <2>2. /\ Connection(p) /\ TcpErr({p}) /\ todo' \subseteq Slot
        /\ UNCHANGED <<state, pc, terminate, tunnel, ppp, loopvars, setvars>>
        BY <2>1 DEF TcpGivesUp, IInv, LoopType
  <2>3. {p} \in SUBSET Pcb /\ \A q \in {p} : Connection(q)
        BY <2>2
  <2>4. FwInv' /\ Calm
        BY <2>2, <2>3, TcpErrInv DEF IInv
  <2> QED BY <1>0, <2>2, <2>4, QuietInv DEF Calm
<1>14. CASE \E f \in Slot, k \in TimerKind : FireForwarderTimer(f, k)
  <2>1. PICK f \in Slot, k \in TimerKind : FireForwarderTimer(f, k)
        BY <1>14
  <2>2. /\ TimeoutCb(f, k) /\ todo' \subseteq Slot
        /\ UNCHANGED <<state, pc, terminate, tunnel, ppp, loopvars, setvars>>
        BY <2>1 DEF FireForwarderTimer, IInv, LoopType
  <2> QED BY <1>0, <2>2, TimeoutCbInv, QuietInv DEF IInv, Calm
<1>15. CASE PppDown
       BY <1>0, <1>15, PppDownInv DEF Calm
<1>16. CASE UNCHANGED vars
  <2>1. FwInv' /\ Calm
        BY <1>16, FrameInv DEF vars, IInv
  <2>2. /\ UNCHANGED <<state, pc, terminate, tunnel, ppp, loopvars, setvars>>
        /\ todo' \subseteq Slot
        BY <1>16 DEF vars, IInv, LoopType
  <2> QED BY <1>0, <2>1, <2>2, QuietInv DEF Calm
<1>17. CASE DnsCallsDeleted
  <2>1. /\ pf' = pf /\ pcb' = pcb /\ dns' = dns \ {Gone} /\ todo' \subseteq Slot
        /\ UNCHANGED <<state, pc, terminate, tunnel, ppp, loopvars, setvars>>
        BY <1>17 DEF DnsCallsDeleted, DnsDeleted, IInv, LoopType
  <2>2. FwInv' /\ Calm
        BY <2>1, GoneFails DEF IInv, Calm
  <2> QED BY <1>0, <2>1, <2>2, QuietInv DEF Calm
<1>18. CASE NextTunneler
       BY <1>0, <1>18, NextTunnelerInv DEF Calm
<1> QED BY <1>1, <1>2, <1>3, <1>4, <1>5, <1>6, <1>7, <1>8, <1>9, <1>10, <1>11,
           <1>12, <1>13, <1>14, <1>15, <1>16, <1>17, <1>18
        DEF Next, LoopStep, Environment, Done, Still, Admits

\* The initial state.
LEMMA InitInv == Init => IInv
<1> SUFFICES ASSUME Init PROVE IInv
    OBVIOUS
<1>1. /\ \A f \in Slot : pf[f] = NoForwarder
      /\ \A p \in Pcb : pcb[p] = FreePcb
      /\ dns = {}
      BY DEF Init, Init_Forwarders
<1>2. FwType
      BY <1>1, NoForwarderType, FreePcbType DEF FwType, Init, Init_Forwarders
<1>3. ASSUME NEW f \in Slot PROVE ForwarderOK(f) /\ TimerOK(pf[f])
      BY <1>1, NoForwarderType DEF ForwarderOK, TimerOK
<1>4. ASSUME NEW p \in Pcb PROVE BlockOK(p) /\ ~Attached(p)
      BY <1>1, FreePcbType DEF BlockOK, Attached
<1>5. DnsUnique
      BY <1>1 DEF DnsUnique
<1>6. LoopType
  <2>1. terminate \in BOOLEAN /\ tunnel \in BOOLEAN /\ connecting \in BOOLEAN
        /\ listen_set \in BOOLEAN
        BY DEF Init
  <2> QED BY <2>1 DEF Init, LoopType, Timer
<1>7. LinkInv /\ RestInv
      BY <1>1, <1>4, NoForwarderType DEF Init, LinkInv, RestInv
<1>8. AdmitInv
      BY <1>1, NoForwarderType DEF Init, AdmitInv, Connecting, is_connecting
<1> QED BY <1>2, <1>3, <1>4, <1>5, <1>6, <1>7, <1>8 DEF IInv, FwInv

-----------------------------------------------------------------------------
\* The inductive invariant holds for every value of the constants.
THEOREM Invariance == Spec => []IInv
<1>1. Init => IInv
      BY InitInv
<1>2. IInv /\ [Next]_vars => IInv'
      BY StepInv
<1> QED BY <1>1, <1>2, PTL DEF Spec

\* Every variable keeps its type: no queue and no send buffer overflows.
THEOREM TypeCorrect == Spec => []TypeOK
<1>1. IInv => TypeOK
      BY DEF IInv, FwInv, FwType, LoopType, TypeOK
<1> QED BY <1>1, Invariance, PTL

\* No method or callback of a forwarder uses a control block that lwIP freed or
\* gave to another forwarder.
THEOREM ClientsAlive == Spec => []ClientAlive
<1>1. IInv => ClientAlive
  <2> SUFFICES ASSUME IInv, NEW f \in Slot
               PROVE  /\ is_connecting(pf[f]) =>
                            /\ pf[f].local_client # NoPcb
                            /\ IF f \in dns
                               THEN pcb[pf[f].local_client].state = "CLOSED"
                               ELSE /\ pcb[pf[f].local_client].state = "SYN_SENT"
                                    /\ pcb[pf[f].local_client].arg = f
                                    /\ "err" \in pcb[pf[f].local_client].cbs
                      /\ is_connected(pf[f]) => pf[f].local_client # NoPcb
                      /\ \/ is_connected(pf[f])
                         \/ is_disconnecting(pf[f]) /\ pf[f].local_client # NoPcb
                         => /\ pcb[pf[f].local_client].state = "ESTABLISHED"
                            /\ pcb[pf[f].local_client].arg = f
                            /\ "err" \in pcb[pf[f].local_client].cbs
      BY DEF ClientAlive
  <2>1. ForwarderOK(f)
        BY DEF IInv, FwInv
  <2>2. ASSUME NEW s \in {"SYN_SENT", "ESTABLISHED"}, Owns(f, s)
        PROVE  /\ pf[f].local_client # NoPcb
               /\ "err" \in pcb[pf[f].local_client].cbs
    <3>1. BlockOK(pf[f].local_client)
          BY <2>2 DEF IInv, FwInv, Owns
    <3> QED BY <2>2, <3>1, ForwarderAssumption
            DEF Owns, BlockOK, Attached, Callback
  <2>3. CASE f \in dns
        BY <2>1, <2>3, ForwarderAssumption
           DEF ForwarderOK, Waits, is_connecting, is_connected, is_disconnecting
  <2>4. CASE f \notin dns
        BY <2>1, <2>2, <2>4
           DEF ForwarderOK, Owns, is_connecting, is_connected, is_disconnecting
  <2> QED BY <2>3, <2>4
<1> QED BY <1>1, Invariance, PTL

\* A control block that can call tcp_err_cb or tcp_recv_cb belongs to a forwarder
\* that exists and uses that very block, and a DNS request is never pending for
\* a forwarder that exists and does not wait for it; across the sessions of the
\* process.
THEOREM CallbackOwners == Spec => []CallbacksReachOwner
<1>1. IInv => CallbacksReachOwner
  <2> SUFFICES ASSUME IInv PROVE CallbacksReachOwner
      OBVIOUS
  <2>1. ASSUME NEW p \in Pcb, pcb[p].cbs \cap {"err", "recv"} # {}
        PROVE  /\ pcb[p].arg \in Slot
               /\ pf[pcb[p].arg].local_client = p
               /\ pf[pcb[p].arg].state \in
                     {"CONNECTING", "CONNECTED", "DISCONNECTING"}
    <3>1. BlockOK(p)
          BY DEF IInv, FwInv
    <3> QED BY <2>1, <3>1 DEF BlockOK, Attached
  <2>2. ASSUME NEW a \in dns \ {Gone} PROVE is_connecting(pf[a])
    <3>1. a \in Slot
          BY DEF IInv, FwInv, FwType
    <3>2. ForwarderOK(a)
          BY <3>1 DEF IInv, FwInv
    <3> QED BY <3>2 DEF ForwarderOK, Waits, is_connecting
  <2> QED BY <2>1, <2>2 DEF CallbacksReachOwner
<1> QED BY <1>1, Invariance, PTL

\* A forwarder is deleted with its DNS request pending in two places only: in
\* connect() when tcp_new fails, and at the end of the thread.
THEOREM OrphanedRequests == Spec => RequestsLeftBehind
<1>1. IInv /\ [Next]_vars => [(Gone \in dns' \ dns) => LeftBehind]_vars
      BY StepInv DEF Orphans
<1> QED BY <1>1, Invariance, PTL DEF Spec, RequestsLeftBehind

\* A forwarder that disconnects has exactly one side left to flush.
THEOREM FlushSides == Spec => []OneSideLeft
<1>1. IInv => OneSideLeft
      BY DEF IInv, FwInv, ForwarderOK, OneSideLeft, is_disconnecting
<1> QED BY <1>1, Invariance, PTL

\* A timer runs only in the phase it limits, one per forwarder at most.
THEOREM TimersMatch == Spec => []TimerMatchesState
<1>1. IInv => TimerMatchesState
  <2> SUFFICES ASSUME IInv, NEW f \in Slot
               PROVE  /\ pf[f].connect_timeout # "off" =>
                            pf[f].state \in {"CONNECTING", "DISCONNECTED"}
                      /\ pf[f].fflush_timeout # "off" =>
                            /\ pf[f].state \in {"DISCONNECTING", "DISCONNECTED"}
                            /\ ~pf[f].local_server
                      /\ pf[f].rflush_timeout # "off" =>
                            /\ pf[f].state \in {"DISCONNECTING", "DISCONNECTED"}
                            /\ pf[f].local_client = NoPcb
                      /\ Cardinality({k \in TimerKind : pf[f][k] # "off"}) <= 1
      BY DEF TimerMatchesState
  <2>1. TimerOK(pf[f])
        BY DEF IInv, FwInv
  <2> DEFINE K == {k \in TimerKind : pf[f][k] # "off"}
  <2>2. \A j, k \in K : j = k
        BY <2>1 DEF TimerOK, TimerKind
  <2>3. K = {} \/ \E k \in K : K = {k}
        BY <2>2
  <2>4. Cardinality(K) <= 1
        BY <2>3, FS_EmptySet, FS_Singleton
  <2> QED BY <2>1, <2>4 DEF TimerOK
<1> QED BY <1>1, Invariance, PTL

-----------------------------------------------------------------------------
\* The phases of the clients, as ClientPool sees them.
LEMMA PhaseType ==
    ASSUME FwType, NEW f \in Slot
    PROVE  /\ phase(f) \in {"idle", "pending", "open", "closing"}
           /\ phase(f) = "idle" <=> pf[f].state = "NONE"
           /\ phase(f) = "pending" <=> pf[f].state = "CONNECTING"
           /\ phase(f) = "open" <=> pf[f].state = "CONNECTED"
BY DEF phase, is_connecting, is_connected

\* A step that opens nothing releases clients, or does nothing.
LEMMA ReleaseStep ==
    ASSUME FwType, FwType', NoneOpens
    PROVE  Pool!Release
<1>1. ASSUME NEW f \in Slot
      PROVE  phase(f)' \in Pool!Later(phase(f)) /\ phase(f)' \in Pool!Phase
  <2>1. /\ phase(f) \in {"idle", "pending", "open", "closing"}
        /\ phase(f) = "idle" <=> pf[f].state = "NONE"
        /\ phase(f) = "pending" <=> pf[f].state = "CONNECTING"
        /\ phase(f) = "open" <=> pf[f].state = "CONNECTED"
        BY PhaseType
  <2>2. /\ phase(f)' \in {"idle", "pending", "open", "closing"}
        /\ phase(f)' = "idle" <=> pf'[f].state = "NONE"
        /\ phase(f)' = "pending" <=> pf'[f].state = "CONNECTING"
        /\ phase(f)' = "open" <=> pf'[f].state = "CONNECTED"
        BY DEF phase, is_connecting, is_connected
  <2>3. /\ pf[f].state = "NONE" => pf'[f].state = "NONE"
        /\ pf'[f].state \in {"CONNECTING", "CONNECTED"}
              => pf'[f].state = pf[f].state
        BY DEF NoneOpens
  <2> QED BY <2>1, <2>2, <2>3 DEF Pool!Later, Pool!Phase
<1> QED BY <1>1 DEF Pool!Release

\* A step that establishes a connection opens a pending client.
LEMMA OpenStep ==
    ASSUME FwType, FwType', Opens
    PROVE  \E f \in Slot : Pool!Open(f)
<1>1. PICK f \in Slot :
         /\ pf[f].state = "CONNECTING" /\ pf'[f].state = "CONNECTED"
         /\ \A g \in Slot \ {f} : pf'[g] = pf[g]
      BY DEF Opens
<1>2. phase(f) = "pending" /\ phase(f)' = "open"
      BY <1>1 DEF phase, is_connecting, is_connected
<1>3. \A g \in Slot \ {f} : phase(g)' = phase(g)
      BY <1>1 DEF phase, is_connecting, is_connected
<1> QED BY <1>2, <1>3 DEF Pool!Open

\* The instance counts as Tunneler does.
LEMMA PoolCardinality ==
    ASSUME NEW S
    PROVE  Pool!Cardinality(S) = Cardinality(S)
BY DEF Pool!Cardinality, Cardinality

\* A step that accepts a client admits it, with room for it.
LEMMA AdmitStep ==
    ASSUME IInv, FwType', Admits
    PROVE  \E f \in Slot : Pool!Admit(f)
<1>1. PICK f \in Slot, p \in Pcb : Accept(f, p)
      BY DEF Admits
<1>2. /\ pf[f].state = "NONE" /\ pc = "accept" /\ listen_set
      /\ ConnectResolving(f, p) \/ ConnectResolved(f, p, if4_up)
      BY <1>1 DEF Accept
<1>3. Connecting = {} /\ Cardinality(Connected) < MaxClients
      BY <1>2 DEF IInv, AdmitInv, connected_count
<1>4. \A g \in Slot : /\ phase(g) = "pending" <=> g \in Connecting
                      /\ phase(g) = "open" <=> g \in Connected
      BY PhaseType
         DEF IInv, FwInv, Connecting, Connected, is_connecting, is_connected
<1>5. Pool!HasRoom
  <2>1. Pool!In({"pending"}) = {}
        BY <1>3, <1>4 DEF Pool!In
  <2>2. Pool!In({"open"}) = Connected
        BY <1>4 DEF Pool!In, Connected
  <2> QED BY <1>3, <2>1, <2>2, PoolCardinality DEF Pool!HasRoom
<1>6. /\ pf'[f].state \in {"CONNECTING", "FAILED"}
      /\ \A g \in Slot \ {f} : pf'[g] = pf[g]
  <2> DEFINE a == Accepted(p)
  <2>1. a \in Forwarder /\ a.state = "CONNECTING"
        BY AcceptedType
  <2>2. PICK c : pf' = [pf EXCEPT ![f] = c] /\ c \in {a, tcp_connect_ok(a), tcp_connect_failed(a)}
        BY <1>2 DEF ConnectResolving, ConnectResolved
  <2> HIDE DEF a
  <2>3. c.state \in {"CONNECTING", "FAILED"}
        BY <2>1, <2>2, ConnectOkType, ConnectFailedType
  <2> QED BY <2>2, <2>3 DEF IInv, FwInv, FwType
<1>7. phase(f) = "idle" /\ phase(f)' \in {"pending", "closing"}
      BY <1>2, <1>6 DEF phase, is_connecting, is_connected
<1>8. \A g \in Slot \ {f} : phase(g)' = phase(g)
      BY <1>6 DEF phase, is_connecting, is_connected
<1> QED BY <1>5, <1>7, <1>8 DEF Pool!Admit

\* The tunneler implements the admission of ClientPool: at most max_clients open
\* connections, one attempt at a time, although accept acts on a decision taken
\* before select and lwIP callbacks run in between.
THEOREM PoolImplemented == Spec => ImplementsPool
<1>1. Init => Pool!Init
  <2> SUFFICES ASSUME Init PROVE \A f \in Slot : phase(f) = "idle"
      BY DEF Pool!Init
  <2>1. \A f \in Slot : pf[f].state = "NONE"
        BY NoForwarderType DEF Init, Init_Forwarders
  <2> QED BY <2>1 DEF phase, is_connecting, is_connected
<1>2. IInv /\ IInv' /\ [Next]_vars => [Pool!Next]_[f \in Slot |-> phase(f)]
  <2> SUFFICES ASSUME IInv, IInv', [Next]_vars PROVE Pool!Next
      OBVIOUS
  <2>1. FwType /\ FwType'
        BY DEF IInv, FwInv
  <2> QED BY <2>1, StepInv, ReleaseStep, OpenStep, AdmitStep DEF Pool!Next
<1> QED BY <1>1, <1>2, Invariance, PTL DEF Spec, ImplementsPool, Pool!Spec
=============================================================================
