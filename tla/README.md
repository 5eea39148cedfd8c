# FortiRDP: TLA+ models, checks and proofs

FortiRDP (`src/src/`) opens a FortiGate SSL-VPN tunnel without a network driver:
it logs on to the firewall portal over HTTPS, runs PPP over the TLS connection,
runs the lwIP TCP/IP stack on top of that PPP link inside its own process, and
forwards TCP connections of local programs (normally the remote desktop client)
into it.  This directory holds TLA+ modules for the parts of it where errors are
hard to find by testing, the TLC configurations that check them on small
instances, and TLAPS proofs for the parts where "every value" matters.

Source references are to the repository; `net/`, `ui/`, ... abbreviate
`src/src/net/`, `src/src/ui/`, ...

## 1. Inventory

### 1.1 Components

| component | source | state it keeps | operations | status |
|---|---|---|---|---|
| byte queues | `util/PBufQueue`, `net/OutputQueue` | chain of lwIP pbufs, offset in the first, capacity | push, pop, clear, get_cblock, move, write to a socket, write to a TCP control block | modelled, proved |
| port forwarder | `net/PortForwarder`, `net/PortForwarders`, `net/DnsClient` | state, local socket, TCP control block, three timers, forward and reply queue | connect, disconnect, abort, recv, reply, forward, two flushes, the lwIP callbacks | modelled, proved |
| tunneler thread | `net/Tunneler` | state, terminate flag, flag `connecting`, two timers, list of forwarders | start, terminate, the loop of run | modelled, proved |
| lwIP | `src/lib/lwip` (vendored) | control blocks, refused data, DNS table, timeout list | callbacks, tcp_new/connect/write/close/abort | what its user observes |
| PPP interface, framing | `net/PPInterface`, `net/pppossl.c` | PPP phase, partial frame, output queue | open, close, send, recv, input | modelled, proved |
| sockets and TLS | `net/Socket`, `TcpSocket`, `TlsSocket`, `TlsContext`, `Listener` | descriptor, TLS context | connect, send, receive, shutdown | what HttpsClient and PPInterface see of it |
| session control | `ui/AsyncController`, `ui/Sync*`, `ui/ConnectDialog` | action, two events, portal client, tunnel, task, state of the buttons | connect, create_tunnel, start_task, disconnect, terminate; window messages | modelled, proved |
| portal client | `fw/FirewallClient`, `fw/FirewallTunnel`, `fw/CrtDigest` | authenticated or not, realm, cookies, certificate digest | open, login variants, logout, get_info, get_config, tunnel start | modelled but for the tunnel start, proved |
| HTTP client | `http/HttpsClient`, `http/Answer`, ... | connection state, cookie jar, body being read | connect, send_and_receive, recv of chunks | modelled but for the text, proved |
| SAML dialog | `ui/SamlAuthDialog` | cookies | WebView2 callbacks | not modelled |
| dialogs, settings | `ui/*Dialog`, `ui/RegistrySettings`, `ui/CmdlineParams` | form fields | input and output | not modelled |
| utilities | `util/*` | - | Windows wrappers, strings | where used |

### 1.2 How they interact

* The **UI thread** (ConnectDialog) asks the **controller thread**
  (AsyncController::run) for one action at a time through a mutex, a "ready"
  and a "request" event; the controller answers with window messages, posted
  or sent (sent ones block it until the UI thread handles them).
* The controller starts the **tunneler thread** (Tunneler::run) and stops it by
  setting `_terminate`; it waits for it with time limits.
* The tunneler thread owns PPP, lwIP, the listener and every forwarder.  lwIP
  is single-threaded (`NO_SYS`): its callbacks run inside that thread, while it
  hands input to lwIP (`PPInterface::recv`) or runs the timers
  (`sys_check_timeouts`).  What is concurrent here is therefore not threads but
  *events between phases of a loop*: a callback changes the state of a forwarder
  after the fd sets were built from it and before they are used.
* A forwarder holds a raw pointer to a lwIP control block; lwIP holds raw
  pointers to the forwarder (callback argument, DNS argument, timer argument).
  Either side can disappear first.

### 1.3 What is hard, and what makes each part correct

* Byte queues: partial writes across pbuf boundaries, retries, lengths kept in
  several places, an unsigned subtraction.  *Bytes leave in order, none lost,
  none twice; lengths stay exact; a retried block is the same block.*
* Forwarders: life times of two objects that point to each other; two sides that
  close in either order; three timers that race late answers.  *No pointer is
  used after its target is freed; a closing forwarder always has exactly one
  side left to flush; a timer never outlives its phase; every attempt and every
  flush ends.*
* Tunneler: admission decided from a count and a flag kept in different phases;
  termination requested by another thread at any time.  *At most max_clients
  clients; the thread stops.*
* Session control: two threads that wait for each other; results that arrive
  after what they are about is gone.  *No request is lost or overwritten; nobody
  waits for ever; a session is not ended by the previous one's task.*
* PPP framing: frames cut anywhere by TLS records and reads, a payload that is
  allocated in one read and completed in another, a header that cannot be, data
  inside mbedtls that select() cannot see, a link that must be dead before it is
  freed.  *PPP gets the frames whole and in order; every payload is freed or given
  away once; nothing that has arrived is forgotten.*
* Portal client: a connection that the server may close between any two requests,
  answers that come late, reconnections in the middle of a dialogue.  *An answer
  belongs to its request; a request goes to the certificate that was accepted; every
  procedure ends; no session cookie survives a disconnection.*

The complete list, each at its line, is `hazards` in `PROJECT.json`.

## 2. Modules

```
PBufQueue ── OutputQueue ── OutputQueue_proofs
PortForwarder ── Tunneler ── MCTunneler          ClientPool (abstract)
                    ├── INSTANCE ClientPool (refinement)
                    └── Tunneler_proofs
AsyncController ── AsyncController_proofs
PBufQueue ── PPInterface ── PPInterface_proofs   PppStream (abstract)
                 └── INSTANCE PppStream (refinement)
HttpsClient ── FirewallClient ── FirewallClient_proofs
```

### PBufQueue, OutputQueue

A queue is the record `[chain, offset]`; a pbuf is `[first, len, tot, push]`.
The payload is abstracted to `first`, the position of its first byte in the
stream of all bytes offered to the queue, so order, loss and duplication can be
stated.  Operators carry the names of the methods.  `get_cblock` keeps the code's
`flags && PBUF_FLAG_PUSH` ("some flag is set").  `remaining_space()` is computed
modulo 2^16 as a stand-in for the unsigned type; the proofs only use that a
negative difference becomes large.

`OutputQueue` is the queue with the code around it.  The variable `kind`, chosen
initially, says which of the two queues of a forwarder it is: a `forward` queue is
filled by `PortForwarder::recv` and drained by `write(tcp_pcb*)`; a `reply` queue is
filled by `tcp_recv_cb` (with lwIP keeping what is refused and offering it again) and
drained by `write(TcpSocket&)`.  `RecvFails` is every way in which `recv` returns false,
the failed `pbuf_alloc` included.  One iteration of a write loop is one action.  Ghost
variables: `next` and `sent` count the stream, `retry` remembers the block a socket
could not take.

### PortForwarder

All forwarder objects (`pf`, one record per slot of `active_port_forwarders`),
lwIP's pool of control blocks (`pcb`) and the pending DNS requests (`dns`).  A
callback argument is a slot, `NoOne` before `tcp_arg`, or `Gone` when it points
to a deleted object: a dangling pointer is a value the properties can see.  A
timer is one of `off`, `armed` (in lwIP's list), `fired` (flag set).  Queues are
counted in chunks.  Local methods are operators from a record to the set of
records they may leave; the callbacks and what touches lwIP are actions.  `TcpRecvRest`
is `tcp_process_refused_data`, called from lwIP's input or from its fast timer: refused
data that is taken at last, with the end of the stream behind it.

### Tunneler

`run()` as a loop with an explicit phase `pc`.  The socket sets built by the
select phase are variables, because they are used later, after callbacks.
`Terminate` is the other thread.  The environment actions (callbacks, timers, PPP
events) are enabled in the phases in which the code hands control to lwIP.
`Faults` selects what the environment may do wrong, so that a violation
run can be made without any fault.  TcpGivesUp, DnsGivesUp and PppDead model
lwIP's own retry limits.  `PppDown` is the peer that ends the link or negotiates it anew.

The behaviour does not end with the thread.  `NextTunneler` is the next
`create_tunnel()` of the process: everything the tunneler owns is new, and lwIP, which
is initialised once (`ui/fortirdp.cpp:93`), keeps its control blocks and its DNS table.
`Stop` destroys the forwarders that are left when `run()` ends, one that waits for DNS
among them; its request then has the argument `Gone`, and `DnsCallsDeleted` is
`dns_found_cb` called with it, in this session or the next.  `Gone` stands for any freed
object: that its memory may have been given to another forwarder, and what the write to
it does, are not modelled.

### ClientPool

The abstract view of a local client: `idle`, `pending`, `open`, `closing`; admission
needs a free place and nobody pending.  `Tunneler` instantiates it with
`client[f]` computed from the state of the forwarder.

### AsyncController

Two threads.  The window thread is in the message loop (`ui = "pump"`), in the loop
of a modal dialog, or leaving the program; `uireq # "NONE"` means that it is inside
`request_action`, waiting for `_readyEvent`, and `cont` says what its handler does
afterwards.  The controller goes through `top` (set the ready event), `ready`,
`wait` (WaitForMultipleObjects), `proc` (a procedure runs) and `send` (it is in
SendMessage).  Both events are auto-reset and are the Booleans `ready` and
`request`.  A posted message waits in `posted`; the window thread handles a sent one
when it retrieves messages, before posted ones.

Portal clients, tunnels and tasks are numbered in order of creation; the window
thread replaces them without a lock (`connect`, `create_tunnel`, `start_task`), and a
procedure keeps the numbers it was given in `held`, so a reference to a deleted
object is one that is not the current number.  `handle` is the task whose process
handle is in `hEvents[1]`.  Time limits are choices: the 5 seconds for the tunnel
after a logout may or may not be enough, the 25 seconds after `terminate()` are, unless
the fault `stuck` is on.  Waiting on the handle of a deleted task fails, or waits for
the new process when the system gave its handle the same value; waiting on that of a
task whose process could not be created fails.

`Monitor` is the case of one client with an application to run, where the end of the
application ends the session; `Clicks` lets the user click Disconnect.  `Faults`:
`close` (WM_CLOSE from outside at any time; the user's own ways to close need an
enabled Quit button), `task_start` (CreateProcess fails), `stuck`, `expire` (the
authentication cookie reaches its expiry date), `exception` (a procedure throws).

### PppStream, PPInterface

`PppStream` is what the framing promises: the frames of the peer are handed to PPP
whole, in order and one by one, until the tunnel breaks; nothing beyond a frame that
cannot be accepted.

In `PPInterface` byte *n* of the peer's stream is the number *n*, so a payload is a
sequence of positions, and a byte that is lost, doubled or misplaced is seen.  A frame
is its first position, its payload size, and whether the three fields of its header
agree; the parser does not know frames, it stores bytes in `in.header` and `in.data`
as `pppossl_input` does, and finds the size through the stored header.  The peer cuts
the stream in TLS records (`records` holds their ends); `fetched` is how far mbedtls has
decrypted, `s` and `l` are the position and the length of what `recv()` still has to
hand to the loop.  The difference between `fetched` and `s` is data that select()
cannot see.  One iteration of the loop is one action.  The phases of PPP are
nondeterministic (negotiation succeeds or fails, the peer terminates the link or
negotiates it anew, which takes `running` back to `establish`); a frame to be sent may find no
memory for its pbuf; `disc` and
`term` count ticks of 25 seconds for `disconnect_timeout` and LCP's retransmissions.
`q` is the output queue, with the operators of `PBufQueue`; `idle` stands for
`last_xmit` being 0 or older than `PPP_MAXIDLE`.

### HttpsClient, FirewallClient

`HttpsClient` is one exchange on a connection that may be kept alive.  What the server
sends is a sequence of units (headers, block of the body, chunk size, end of line), each
with a mark the client cannot see: whether it answers the last request or an earlier
one, and which block it is.  The server answers, closes, or stays silent as it likes;
every read may time out.  `ex` is the step of the exchange, `rd` the answer as far
as it has been read, `count`, `max`, `timeout` and `ka` are the fields of the class.

`FirewallClient` is the dialogue of SyncConnect and SyncDisconnect.  `pc` is the point
the controller thread has reached, `call` the request in progress with the redirects
it may still follow.  The status of an answer, its effect on the session cookie and
the result of a login check are chosen when the answer has been read.  `digest` is the
certificate accepted by `open()`; `jar` the session cookie.  Time passes (`Tick`, and
`CookieExpires`) at every point, in the dialogs as during a request.  `configured` is a
history variable.

## 3. Runs

| run | bounds | shows |
|---|---|---|
| `OutputQueue_queues` | both kinds; capacity 4, reads and pbufs up to 3, chains of 2, stream of 8, send buffer 3 | types, order, exact totals, `recv` never overfills the queue, nothing is chained behind a buffer that has overrun it, a retry presents the same block, refused data gets in |
| `Tunneler_safety` | 2 forwarder objects, 3 control blocks, 1 allowed client, every fault, any number of sessions | pointers, callbacks, the DNS requests of forwarders that exist, timers, refinement of ClientPool (2.2 million states) |
| `Tunneler_liveness` | 1 forwarder, 1 control block, so the pool can run dry | attempts, flushes and the shutdown of PPP end |
| `Tunneler_sent_callback` | 1 forwarder | **violation**, see section 6 |
| `Session_multi` | 3 sessions, no task monitored, no fault | the ready event is never set while the controller is busy; no procedure uses a deleted object; the buttons match the session; each tunnel is stopped, and over before its object is deleted; the user always gets a button back |
| `Session_single` | 3 sessions, monitored task, the user does not click Disconnect | no mutual wait; the end of the application is noticed and ends its own session; the controller thread lives on |
| `Session_monitor` | 3 sessions, monitored task, clicks and every fault | types; a dialog is open only while the procedure whose stack holds its data waits for it |
| `Session_deadlock` | 1 session, monitored task, clicks, no fault | **violation**, see section 6 |
| `PPInterface_stream` | 2 frames, stream of 6 bytes, headers of 2, payloads up to 2 accepted (one more is sent), records up to 3, reads up to 2, queue of 3 | types; refinement of PppStream; one owner per payload; the parser in step; the link is dead when it is freed; data is forgotten nowhere but inside mbedtls; a silent link sends a keep-alive |
| `PPInterface_record` | one frame, headers of 1 | **violation**, see section 6 |
| `FirewallClient_session` | 2 certificates, keep-alive of 0 or 1 tick and 1 or 2 requests, bodies up to 3 blocks of which 2 are kept | an answer belongs to its request; requests go to the accepted certificate; `connect()` only on a closed socket; no cookie left; every procedure ends |
| `FirewallClient_config` | 1 certificate, bodies of at most 1 block | **violation**, see section 6 |

Why the bounds are enough.  A queue distinguishes the first pbuf, its successor
and the rest; the stream bounds give chains of three and more pbufs, partial
writes inside and at the end of a pbuf, and a chain longer than the capacity (two
pbufs of 3, for 4).  For the tunneler, `MaxClients = 1` with two forwarder objects is
the smallest instance in which a closing forwarder coexists with the next
connection and in which one client too many can be admitted; three control blocks
allow one to linger in CLOSING and one to be leaked.  Queues and send buffer of one
chunk are empty or full, which are the cases the code tests for.  Session control
carries over from one session to the next what the previous one left (a tunnel, a
task, a late message); two sessions show every such pair and three that nothing
accumulates.  For the framing, headers of two bytes can be cut, payloads of two bytes can
be cut, a read (2) can end in a header, in a payload or at a frame boundary, and a
record (3) is longer than a read; the parser is reset after a frame, so that two frames
show whatever one leaves behind.  A stream of 7 bytes was checked too (three minutes),
and the theorems cover every size.  For the portal, two certificates are the accepted
one and another; a connection that serves one request or two, and a timer that is
elapsed at once or after a tick, give every combination of reuse and reconnection, with
the timer running out before, during or after a request.

Deadlock is checked in all passing runs but `Session_monitor`, where the program really
can hang (that is what `Session_deadlock` shows), and
`PPInterface_stream`, where a link that has been released has nothing left to do.  In `Tunneler` the
stopped thread that has no successor, and in `AsyncController` the ended process, is the explicit action `Done`; `Rest` is
the window thread waiting for a message, so a state without successor is one in which
it is blocked.

### Fairness

`OutputQueue`: the thread finishes a write call; `write` is called as long as there
is data; the peer of the socket does not stop reading for ever (strong fairness of
`SocketSendOk`, assumed only for `RefusedEventuallyQueued`, which is false
without it); lwIP offers refused data again from its fast timer; a failed queue
is cleared.

`Tunneler`: weak fairness of the loop: it has no blocking call (select has a
timeout).  Strong fairness of each timer: `sys_check_timeouts` is called in every
iteration and time passes, so a timer that stays in the list fires.  The same for
lwIP's own give-ups.  *Nothing* is assumed of the firewall, the remote host or the
local client.

`PPInterface`: the tunneler runs `pppossl_input` to its end, reads when select() reports
the tunnel readable, calls `send_keep_alive` in every turn, and the gateway does not stop
reading for ever; timers expire.  For `SilenceEnds` the fair step is a keep-alive that
finds room: the queue drains, so there is room again and again.  Nothing is assumed of
what the gateway sends.

`FirewallClient`: weak fairness of the steps of the controller thread that do not wait
for the user (`Client`).  Every connection and every read has a timeout, so one of them
is always enabled inside a request; nothing is assumed of the portal or the user.

`AsyncController`: weak fairness of the two threads, which includes that a modal dialog
is answered; strong fairness of the return of SyncConnect (the user does not mistype
a password for ever); a tunneler that was told to terminate ends.  Nothing is assumed
of what the user does otherwise, nor that an application ends.

## 4. Proofs

`OutputQueue_proofs` proves for **every** capacity in 1..65535, every read size,
pbuf length, send buffer and stream length (the named assumptions
`CapacityAssumption` and `OutputQueueAssumption`):

| theorem | statement |
|---|---|
| `TypeCorrect` | `Spec => []TypeOK` |
| `OrderPreserved` | `Spec => []BytesInOrder` |
| `TotalsExact` | `Spec => []TotLenExact` |
| `ReadFits` | `Spec => []RecvAlwaysFits` |
| `RetryIsStable` | `Spec => []RetrySameBlock` |
| `OverrunLimited` | `Spec => []OverrunBounded` |

None of these is inductive alone.  Order cannot be kept by `move` unless the
offset is inside the first pbuf (part of `TotLenExact`); `RecvAlwaysFits` needs
that a *forward* queue never exceeds its capacity, which only holds because
`recv` is its only producer; `RetrySameBlock` needs the retried block to be the
head block, with pushes only behind it; and a refused buffer has to be known to be
well formed and to start at `next` when it is pushed later.  The inductive
invariant is

```
IInv == TypeOK /\ QueueAt(q, sent, next) /\ (refused well formed, starting at next)
        /\ RetrySameBlock /\ KindInv
```

where `QueueAt` combines `BytesInOrder` and `TotLenExact` for an arbitrary queue.
The argument has three layers: facts about the operators (`ChainLemma`,
`PushLemma`, `MoveLemma`, `BlockLemma`), one lemma per action (`RecvInv`,
`DeliverInv`, `SocketSendOkInv`, ...), and `NextInv`, which combines them.  TLC
checked `IInv` on both kinds before the proof.

`PPInterface_proofs` proves for **every** size of headers, frames, records, reads and
queue (`PPInterfaceAssumption`), and every number and content of frames:

| theorem | statement |
|---|---|
| `TypeCorrect` | `Spec => []TypeOK` |
| `Framing` | `Spec => FrameStream`, the refinement of `PppStream` |
| `WholeFrames` | `Spec => []FramesWhole`, its state part |
| `StepKept` | `Spec => []ParserInStep` |
| `PayloadOwned` | `Spec => []PayloadOwnedOnce` |
| `LinkReleased` | `Spec => []NeverLeaked` |

That the parser is in step is not inductive: `FInv` adds that the bytes stored so far are
the beginning of the header (`InHeader`) or of the payload (`InData`) of the next frame,
that nothing is read that was not sent and nothing sent that is not part of a frame
(`Sent`), and that the frames lie behind one another without a gap (`Layout`), so that a
complete header determines its frame (`HeaderIdentifies`).  `PayloadOwnedOnce` needs
`FInv` to know that there is no payload while a header is read.  `NeverLeaked` has an
invariant of its own, `LinkInv`: once the timeout is armed, LCP is terminating or dead,
and it is dead after the first of the two ticks.

`FirewallClient_proofs` proves, for every set of certificates, every Keep-Alive
parameter and every bound on bodies:

| theorem | statement |
|---|---|
| `PeerConfirmed` | `Spec => []ConfirmedPeer` |
| `ConnectsClosed` | `Spec => []ConnectOnClosed` |
| `CookieGone` | `Spec => []NoCookieLeft` |
| `AnswersMatch` | `Spec => []AnswerMatches` |

The invariant `PInv` follows the connection outside the requests too: wherever another
request may come, the digest is that of an accepted certificate and an open descriptor
belongs to it (`DigestInv`); a failed exchange, which leaves a descriptor of unknown
certificate, always closes it before the next one.

`AnswersMatch` has an invariant of its own, `AInv`, on top of `PInv`.  Between two
exchanges no answer is owed, and what waits on the connection is at most the unread
blocks of a message without a length (`QuietInv`), which cannot be taken for a status
line; hence at most one request is ever unanswered.  While a body is read, the units
that wait are successive units of one message (`Linked`), the first is the one the
exchange expects, and the blocks kept are the first ones of the body (`BodyInv`,
`ChunkInv`).  That a message is `Linked` for every number of blocks (`MessageLinked`) is a
statement about positions, `3 * j - 1`, `3 * j`, `3 * j + 1` for chunk `j`, so that no
induction is needed.

`Tunneler_proofs` proves, for **every** number of forwarders (finite,
`SlotAssumption`), control blocks and allowed clients, every queue size and every set of
faults:

| theorem | statement |
|---|---|
| `TypeCorrect` | `Spec => []TypeOK` |
| `ClientsAlive` | `Spec => []ClientAlive` |
| `CallbackOwners` | `Spec => []CallbacksReachOwner` |
| `OrphanedRequests` | `Spec => RequestsLeftBehind` |
| `FlushSides` | `Spec => []OneSideLeft` |
| `TimersMatch` | `Spec => []TimerMatchesState` |
| `PoolImplemented` | `Spec => ImplementsPool`, the refinement of `ClientPool` |

The properties follow a pointer in one direction: from the forwarder to its block, or
from the block's argument to the forwarder.  A callback needs the other direction, so the
inductive invariant `IInv` has both, and that they agree: `ForwarderOK` (what the state of
a forwarder says of its block), `BlockOK` (what the state of a block says of its
forwarder), `TimerOK`, `DnsUnique` (two pending requests have two blocks).  `LinkInv` says
that no block is attached when PPP is down, which is why the forwarders may be destroyed
at the end of `run()`.  `AdmitInv` carries the decision to listen from before `select` to
`accept`: as long as the listener is in the fd set nobody is connecting and there is room.
`CallbacksReachOwner` is about the DNS requests of forwarders that exist, and
`OrphanedRequests` about the others: a request loses its forwarder in two places only,
both real, `connect()` when lwIP has no control block left (the query has been sent),
and the end of `run()` with a name unresolved.  `RestInv` says that between two sessions
the link is down and no forwarder is left; it carries the theorems from one session of the
process to the next.  No theorem here has a hypothesis on the faults.

`AsyncController_proofs` proves, for every number of sessions and, where nothing else is
said, with or without clicks and a monitored task and for **every set of faults**:

| theorem | under | statement |
|---|---|---|
| `TypeCorrect` | | `Spec => []TypeOK` |
| `DialogsAnswered` | | `Spec => []DialogHasCaller` |
| `IdleWhenReady` | `~Monitor` | `Spec => []ReadyMeansIdle` |
| `SessionInvariance` | `Regime` | `Spec => []SessionInv` |
| `ProceduresAlive` | `Regime` | `Spec => []HeldAlive` |
| `ButtonsRight` | `Regime` | `Spec => []ButtonsMatchSession` |
| `EndedOnRequest` | `Regime`, no `exception` | `Spec => []EndsOnRequest` |
| `NeverBothWaiting` | `Regime`, no `close` | `Spec => []NoMutualWait` |
| `TunnelsStopped` | `Regime`, no `expire` | `Spec => []DisconnectStopsTunnel` |

`Regime` is `~Monitor \/ ~Clicks`: several clients, or one client whose application is
the only thing that ends the session.  With both, and no fault at
all, TLC refutes every property stated under `Regime` within three sessions.  The excluded
faults are needed as well: each of them, alone and without a monitored task, refutes its
property within two sessions (section 6 has the behaviours; an `exception` ends the
controller thread by itself, and `close` is the `QuitEnds` row).

Two invariants are used.  `Handshake` (for `IdleWhenReady`) says that a pending request
finds the controller before or in its wait, that the wait is for the request event alone,
and that the controller is in SendMessage while a dialog is shown.  `SessionInv` is the
argument for all the others: a session is carried by **one token**, which is a call of
`request_action`, then the pending action, then the procedure, then the message with its
result, whose handler makes the next call (`OneToken`).  The buttons are enabled only
when there is no token (`ButtonInv`); so what the window thread replaces is never in use by
a procedure (`ProcedureInv`).  A monitored task is the one of the current session, and the
ready event is still set when its end is reported (`TaskInv`), because nobody else made
a request: this is what a click on Disconnect breaks.  WM_DESTROY is the exception to the
single token (`WindowInv`).  `TunnelInv` adds what is known of the
tunnel thread at each stage.  TLC checked `SessionInv` with 3 sessions, in both
regimes and with all faults, before the proof.

Model-checked only, because liveness and ENABLED are outside the prover's reach:
`RefusedEventuallyQueued`, `ConnectingEnds`, `ForwardFlushEnds`, `DisconnectingStops`,
`ControlsReturn`, `TaskEndDisconnects`, `FramesRead`, `SilenceEnds`, `RequestEnds`.  Every
safety property that a passing run checks is also the subject of a theorem, except
`TaskEndsOwnSession` and `TunnelOutlivesThread`: they hold only in the configurations of
their runs, without clicks and with a tunneler that ends in time, and the code guarantees
neither, so a theorem under these assumptions would say little.  In the same way
`EndsOnRequest` and `DisconnectStopsTunnel` exclude the clicks and the expired cookie that
refute them; section 6 has these cases.

## 5. Plan

Done: byte queues, framing, forwarders, tunneler and admission, session control, portal
client and HTTP client are modelled and checked, and the safety properties of all of
them are proved.  Next, in this order:

1. **Weaker hypotheses for session control**: which of the theorems under `Regime` hold
   with clicks and a monitored task in the first session, where the deadlock of section 6
   is the only thing that goes wrong.
2. **Safety parts of the liveness arguments**: the facts on which `ConnectingEnds`,
   `DisconnectingStops` and `RequestEnds` rest and which are invariants (a timer is
   armed in every state it has to end, a request has a bounded number of redirections).

## 6. Disagreements between the code and what it says

Each of these is a `finding` with a violation run:

1. The sent callback is not removed with the others: it may be called with a deleted
   forwarder (`Tunneler_sent_callback`).
2. The user clicks Disconnect just as the end of the monitored application is noticed.
   The click takes the ready event, SyncWaitTask sends its message, and the handler waits
   for the event again: both threads wait for ever (`Session_deadlock`).
3. `PPInterface::recv` reads 4096 bytes once per select(); the rest of a longer TLS record
   waits inside mbedtls, and the tunneler sleeps although data has arrived
   (`PPInterface_record`).  `FramesRead` shows that this is the only place where data
   waits, and that whatever the gateway sends next brings it out.
4. When `get_info` or `get_config` fails while the connection stays up, SyncConnect shows
   an error and reports the session as connected (`FirewallClient_config`).

The following properties are stated in the modules and refuted by TLC in the instance
given, with no run kept for them:

| property | constants | behaviour |
|---|---|---|
| `WithinCapacity` | those of `OutputQueue_queues` | `push()` lets an empty queue exceed its capacity; `RefusedEventuallyQueued` shows that this exception is needed |
| `ReplyFlushed` | 1 forwarder, `QCap = 2`, no fault | `PortForwarder.cpp:370` tests the wrong queue: the reply flush ends after one write and drops the rest |
| `TerminateStops` (under `ReadySpec`) | 1 forwarder, no fault | a forwarder that is connecting when `terminate()` is called can keep the thread in CLOSING, although local clients read what they are sent |
| `ReplyFlushEnds` | those of `Tunneler_liveness` | the reply flush has no fixed delay: its timer is only looked at when the socket is writable |
| `NoDnsToDeleted` | those of `Tunneler_safety`; for the second behaviour also without any fault | without a free control block `connect()` fails after the DNS query was sent, and the request keeps a pointer to the deleted forwarder; and the end of `run()` (`Tunneler.cpp:339-355`) destroys a forwarder whose name is unresolved, while its request stays in lwIP's table, so that `sys_check_timeouts` or an answer calls `dns_found_cb` with the deleted object during the next session |
| `NoPcbLost` | those of `Tunneler_liveness` | a failed DNS resolution leaks its control block |
| `GracefulDisconnect` | those of `Tunneler_safety` | a completed flush can end in a RST when refused data is pending |
| `ClosingClosesAll` | those of `Tunneler_safety` | PPP is shut down with connections left |
| `EndsOnRequest` | `Monitor = TRUE`, `Clicks = TRUE`, 2 sessions, no fault | the user disconnects while the application runs, and connects again: `start_task` deletes the Task whose handle the controller waits on, the wait fails and the controller thread ends |
| `ButtonsMatchSession`, `TaskEndsOwnSession`, `HeldAlive`, `DisconnectStopsTunnel`, `TunnelOutlivesThread` | the same, 3 sessions | a click and the end of the application disconnect twice; the second result comes during the next session, or an old application ends it |
| `DisconnectStopsTunnel`, `TunnelOutlivesThread` | `Monitor = FALSE`, 2 sessions, `Faults = {"expire"}` | once the cookie has expired, SyncDisconnect leaves the tunnel running, and the next session deletes it |
| `TunnelOutlivesThread` | `Monitor = FALSE`, 2 sessions, `Faults = {"stuck"}` | SyncDisconnect waits 30 seconds, the tunneler's own timer runs 50 (`Tunneler.cpp:314-319`): one that is slow to end is deleted while its thread runs |
| `NoMutualWait`, `QuitEnds` (under `FairSpec`) | `Monitor = FALSE`, `Faults = {"close"}` | closing the window while SyncConnect asks for something blocks both threads |
| `ReuseWithinTimeout` | those of `FirewallClient_session` | the keep-alive timer is started before the answer's Keep-Alive header is read (`HttpsClient.cpp:122`): a shorter timeout takes effect one request late, and the request that meets the closed connection is not repeated |
| `BodyComplete` | those of `FirewallClient_session` | a chunked body beyond MAX_BODY_SIZE is cut without an error (`Answer.cpp:322`), one with a Content-Length is refused |

## 7. Not modelled

* **Sockets and TLS** are wrappers; what they do to their users (a connection that
  fails, times out or closes, a record held inside mbedtls) is part of `HttpsClient` and
  `PPInterface`.  Partial progress inside one TLS read or write is not.
* **Portal client**: the start of the tunnel (`FirewallTunnel`) is a request followed by the
  hand-over of the socket to the tunneler; it is not a step of `FirewallClient`.  The
  text of pages and documents is abstracted to the results of their parsing, URLs, form
  encoding and realms are left out.
* **HTTP**: interim answers (1xx), trailers after the last chunk, a bare CR in a line and
  compressed bodies are left out.  The code never repeats a request, nor does the model.
* **SAML dialog**: driven by a browser control outside the repository; it returns with a
  cookie or without one.
* **Dialogs, settings, command line, logging, string utilities** have no protocol.
* **mbedTLS, zlib, pugixml, json11 and lwIP** are third-party, and are by far the largest
  part of the repository.  What the program observes of lwIP and mbedTLS is modelled
  where it is used.
* In the modelled parts, byte counters and trace output are left out, as they do not
  influence control.  In session control the checks of addresses and files before
  `connect()`, the activity display and the options dialog are left out.
