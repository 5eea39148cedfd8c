--------------------------- MODULE AsyncController ---------------------------
(***************************************************************************)
(* Session control (src/src/ui): the window thread of ConnectDialog and    *)
(* the thread of ui::AsyncController, which runs the blocking procedures   *)
(* SyncConnect, SyncWaitTunnel, SyncDisconnect and SyncWaitTask.           *)
(*                                                                         *)
(* The window thread hands over one action at a time (request_action): it  *)
(* waits for _readyEvent without a time limit, writes _action, and sets    *)
(* _requestEvent.  The controller answers with window messages.  A posted  *)
(* one waits in the queue of the window.  A sent one blocks the controller *)
(* until the window thread, in a message loop, has handled it.             *)
(*                                                                         *)
(* Objects are numbered in the order of their creation, 0 being the null   *)
(* pointer: session is _portal_client, tunnel is _tunnel and task is       *)
(* _task.  An older number is an object that has been deleted.             *)
(***************************************************************************)
EXTENDS Integers, Sequences

CONSTANTS
    Monitor,        \* one client allowed, and an application to run
    MaxSessions,    \* bound: number of times the user connects
    Clicks,         \* the user may click Disconnect during a session
    Faults          \* what may go wrong

FaultNames == {"close", "task_start", "stuck", "expire", "exception"}

ASSUME ControllerAssumption ==
    /\ Monitor \in BOOLEAN
    /\ MaxSessions \in Nat \ {0}
    /\ Clicks \in BOOLEAN
    /\ Faults \subseteq FaultNames

VARIABLES
    ui,                  \* "pump", "modal", "quit", "join" or "done"
    uireq, cont,         \* the call of request_action, and what follows it
    connect_shown,       \* Connect is visible and enabled, so is Quit
    disconnect_enabled,  \* Disconnect is enabled
    posted,              \* the posted messages
    pc, proc, held,      \* the controller: step, procedure, its references
    action, ready, request,
    wait_eot, handle,    \* handle: the task whose handle is in hEvents[1]
    session, authenticated,
    tunnel, tunnels,     \* tunnels: the thread of each tunnel
    task, tasks          \* tasks: the process of each task, and its session

uivars == <<ui, uireq, cont, connect_shown, disconnect_enabled>>
eventvars == <<action, ready, request>>
taskvars == <<task, tasks>>
tunnelvars == <<tunnel, tunnels>>
portalvars == <<session, authenticated>>
vars == <<uivars, posted, pc, proc, held, eventvars, wait_eot, handle,
          portalvars, tunnelvars, taskvars>>

Id == 1..MaxSessions
NoTask == [state |-> "none", session |-> 0]
NothingHeld == [portal |-> 0, tunnel |-> 0, task |-> 0]

Init ==
    /\ ui = "pump" /\ uireq = "NONE" /\ cont = "pump"
    /\ connect_shown = TRUE /\ disconnect_enabled = TRUE
    /\ posted = <<>>
    /\ pc = "top" /\ proc = "NONE" /\ held = NothingHeld
    /\ action = "NONE" /\ ready = FALSE /\ request = FALSE
    /\ wait_eot = FALSE /\ handle = 0
    /\ session = 0 /\ authenticated = FALSE
    /\ tunnel = 0 /\ tunnels = [t \in Id |-> "none"]
    /\ task = 0 /\ tasks = [k \in Id |-> NoTask]

-----------------------------------------------------------------------------
(***************************************************************************)
(* The window thread                                                       *)
(***************************************************************************)

\* A message loop (of the program, or of a modal dialog) takes a posted
\* message or an input.  Messages sent by the controller are handled first.
Pumping ==
    /\ uireq = "NONE"
    /\ ui = "modal" \/ (ui = "pump" /\ pc # "send")

\* The beginning of request_action; RequestAction is its end.
Call(a, c) == uireq' = a /\ cont' = c

\* ConnectDialog::disconnect
Disconnect(c) ==
    /\ disconnect_enabled' = FALSE
    /\ Call("DISCONNECT", c)
    /\ UNCHANGED <<ui, connect_shown>>

\* Mutant: the Connect button stays.
DisableControls_NoConnect ==
    disconnect_enabled' = FALSE /\ connect_shown' = connect_shown

DisableControls == disconnect_enabled' = FALSE /\ connect_shown' = FALSE

\* ConnectDialog::connect and AsyncController::connect.  A modal dialog
\* disables the window, so the user reaches its buttons only without one.
Connect ==
    /\ Pumping /\ ui = "pump"
    /\ connect_shown
    /\ session < MaxSessions
    /\ DisableControls
    /\ session' = session + 1 /\ authenticated' = FALSE
    /\ Call("CONNECT", "pump")
    /\ UNCHANGED <<ui, posted, pc, proc, held, eventvars, wait_eot, handle,
                   tunnelvars, taskvars>>

ClickDisconnect ==
    /\ Pumping /\ ui = "pump"
    /\ Clicks
    /\ ~connect_shown /\ disconnect_enabled
    /\ Disconnect("pump")
    /\ UNCHANGED <<posted, pc, proc, held, eventvars, wait_eot, handle,
                   portalvars, tunnelvars, taskvars>>

\* WM_DESTROY, after the Quit button or SC_CLOSE, or after WM_CLOSE, which
\* another program may send at any time.
Destroy ==
    /\ Pumping
    /\ (ui = "pump" /\ connect_shown) \/ "close" \in Faults
    /\ Disconnect("quit")
    /\ UNCHANGED <<posted, pc, proc, held, eventvars, wait_eot, handle,
                   portalvars, tunnelvars, taskvars>>

\* onConnectedEvent: the tunnel is created (the previous one is deleted
\* first), or the session is given up.
OnConnected ==
    /\ Pumping
    /\ posted # <<>> /\ Head(posted).event = "Connected"
    /\ posted' = Tail(posted)
    /\ IF Head(posted).success
       THEN /\ tunnel' = tunnel + 1
            /\ tunnels' = [tunnels EXCEPT ![tunnel + 1] = "ready"]
            /\ Call("TUNNEL", ui)
            /\ UNCHANGED <<ui, connect_shown, disconnect_enabled>>
       ELSE Disconnect(ui) /\ UNCHANGED tunnelvars
    /\ UNCHANGED <<pc, proc, held, eventvars, wait_eot, handle, portalvars,
                   taskvars>>

must_monitor(started) == started

\* onTunnelListeningEvent, startTask and start_task.  Without a monitored
\* task the application that is started has no effect on the controller.
OnTunnelListening ==
    /\ Pumping
    /\ posted # <<>> /\ Head(posted).event = "TunnelListening"
    /\ posted' = Tail(posted)
    /\ UNCHANGED <<ui, connect_shown>>
    /\ \/ /\ ~Head(posted).success
          /\ disconnect_enabled' = FALSE
          /\ Call("DISCONNECT", ui)
          /\ UNCHANGED taskvars
       \/ /\ Head(posted).success
          /\ ~Monitor
          /\ disconnect_enabled' = TRUE
          /\ UNCHANGED <<uireq, cont, taskvars>>
       \/ /\ Head(posted).success
          /\ Monitor
          /\ disconnect_enabled' = TRUE
          /\ task' = task + 1
          /\ \E started \in {TRUE} \union {x \in {FALSE} : "task_start" \in Faults} :
                /\ tasks' = [tasks EXCEPT ![task + 1] =
                               [state |-> IF started THEN "running" ELSE "failed",
                                session |-> session]]
                /\ IF must_monitor(started)
                   THEN Call("MONITOR_TASK", ui)
                   ELSE UNCHANGED <<uireq, cont>>
    /\ UNCHANGED <<pc, proc, held, eventvars, wait_eot, handle, portalvars,
                   tunnelvars>>

\* onDisconnectedEvent
OnDisconnected ==
    /\ Pumping
    /\ posted # <<>> /\ Head(posted).event = "Disconnected"
    /\ posted' = Tail(posted)
    /\ connect_shown' = TRUE /\ disconnect_enabled' = TRUE
    /\ UNCHANGED <<ui, uireq, cont, pc, proc, held, eventvars, wait_eot, handle,
                   portalvars, tunnelvars, taskvars>>

\* A message of SyncConnect: the user is shown a modal dialog.
ShowDialog ==
    /\ ui = "pump" /\ uireq = "NONE"
    /\ pc = "send" /\ proc = "SyncConnect"
    /\ ui' = "modal"
    /\ UNCHANGED <<uireq, cont, connect_shown, disconnect_enabled, posted, pc,
                   proc, held, eventvars, wait_eot, handle, portalvars,
                   tunnelvars, taskvars>>

AnswerDialog ==
    /\ ui = "modal" /\ uireq = "NONE"
    /\ ui' = "pump"
    /\ pc' = "proc"
    /\ UNCHANGED <<uireq, cont, connect_shown, disconnect_enabled, posted,
                   proc, held, eventvars, wait_eot, handle, portalvars,
                   tunnelvars, taskvars>>

\* DisconnectFromFirewallRequest, sent by SyncWaitTask.
OnDisconnectRequest ==
    /\ ui = "pump" /\ uireq = "NONE"
    /\ pc = "send" /\ proc = "SyncWaitTask"
    /\ Disconnect("reply")
    /\ UNCHANGED <<posted, pc, proc, held, eventvars, wait_eot, handle,
                   portalvars, tunnelvars, taskvars>>

\* Mutant: a time limit on the wait, which is then ignored.
may_request_TimedWait == TRUE

may_request == ready

\* Mutant: the handler of a sent message does not return to the loop.
after_NoReturn(c) == c

\* Where the window thread is after the handler.
after(c) == IF c = "reply" THEN "pump" ELSE c

\* The end of request_action, and of the handler that called it: the reply to
\* the message being handled, the end of the window (pending messages are
\* dropped and a blocked SendMessage returns), or nothing.
RequestAction ==
    /\ uireq # "NONE"
    /\ may_request
    /\ ready' = FALSE
    /\ action' = uireq
    /\ request' = TRUE
    /\ uireq' = "NONE" /\ cont' = "pump"
    /\ ui' = after(cont)
    /\ posted' = IF cont = "quit" THEN <<>> ELSE posted
    /\ IF pc = "send" /\ (cont = "reply" \/ (cont = "quit" /\ proc = "SyncWaitTask"))
       THEN pc' = "top" /\ proc' = "NONE" /\ held' = NothingHeld
       ELSE /\ pc' = IF pc = "send" /\ cont = "quit" THEN "proc" ELSE pc
            /\ UNCHANGED <<proc, held>>
    /\ UNCHANGED <<connect_shown, disconnect_enabled, wait_eot, handle,
                   portalvars, tunnelvars, taskvars>>

\* The message loop is left and ~ConnectDialog calls terminate() ...
LeaveLoop ==
    /\ ui = "quit" /\ uireq = "NONE"
    /\ Call("TERMINATE", "join")
    /\ UNCHANGED <<ui, connect_shown, disconnect_enabled, posted, pc, proc,
                   held, eventvars, wait_eot, handle, portalvars, tunnelvars,
                   taskvars>>

\* ... and waits for the thread, a second at most: too short for a procedure
\* that blocks.
Join ==
    /\ ui = "join"
    /\ \/ pc = "ended"
       \/ pc = "proc" /\ (proc = "SyncWaitTask" => tasks[held.task].state = "running")
    /\ ui' = "done"
    /\ UNCHANGED <<uireq, cont, connect_shown, disconnect_enabled, posted, pc,
                   proc, held, eventvars, wait_eot, handle, portalvars,
                   tunnelvars, taskvars>>

-----------------------------------------------------------------------------
(***************************************************************************)
(* AsyncController::run                                                    *)
(***************************************************************************)
Alive == ui # "done"
WindowExists == ui \in {"pump", "modal"}

\* Mutant: not ready while a task is monitored.
SetReady_NoTask == ready' = (ready \/ ~wait_eot)

SetReady == ready' = TRUE

Top ==
    /\ Alive /\ pc = "top"
    /\ SetReady
    /\ pc' = "ready"
    /\ UNCHANGED <<uivars, posted, proc, held, action, request, wait_eot,
                   handle, portalvars, tunnelvars, taskvars>>

\* WaitForMultipleObjects is called.  It fails on the handle of a task that was
\* not started, and on that of a task that has been deleted unless the system
\* gave its value to the new process.
EnterWait ==
    /\ Alive /\ pc = "ready"
    /\ IF wait_eot /\ (handle # task \/ tasks[task].state = "failed")
       THEN \/ pc' = "ended" /\ UNCHANGED handle
            \/ /\ tasks[task].state # "failed"
               /\ pc' = "wait" /\ handle' = task
       ELSE pc' = "wait" /\ UNCHANGED handle
    /\ UNCHANGED <<uivars, posted, proc, held, eventvars, wait_eot, portalvars,
                   tunnelvars, taskvars>>

Run(p, refs) == pc' = "proc" /\ proc' = p /\ held' = refs

\* The request event: a procedure is made for the action.
StartAction ==
    /\ Alive /\ pc = "wait"
    /\ request
    /\ request' = FALSE
    /\ CASE action = "CONNECT" /\ session # 0 ->
              /\ Run("SyncConnect", [NothingHeld EXCEPT !.portal = session])
              /\ UNCHANGED <<wait_eot, handle>>
         [] action = "TUNNEL" /\ tunnel # 0 ->
              /\ Run("SyncWaitTunnel", [NothingHeld EXCEPT !.tunnel = tunnel])
              /\ UNCHANGED <<wait_eot, handle>>
         [] action = "DISCONNECT" /\ session # 0 ->
              /\ Run("SyncDisconnect", [portal |-> session, tunnel |-> tunnel,
                                        task |-> 0])
              /\ UNCHANGED <<wait_eot, handle>>
         [] action = "MONITOR_TASK" ->
              /\ pc' = "top" /\ wait_eot' = TRUE /\ handle' = task
              /\ UNCHANGED <<proc, held>>
         [] action = "TERMINATE" ->
              /\ pc' = "ended"
              /\ UNCHANGED <<proc, held, wait_eot, handle>>
         [] OTHER ->
              /\ pc' = "top"
              /\ UNCHANGED <<proc, held, wait_eot, handle>>
    /\ UNCHANGED <<uivars, posted, action, ready, portalvars, tunnelvars,
                   taskvars>>

\* Mutant: waits for one event only.
signalled_Never(k) == FALSE

signalled(k) == tasks[k].state = "ended"

\* Mutant: the task is still waited for.
wait_eot_after_task_Kept == TRUE

wait_eot_after_task == FALSE

\* The task handle is signalled (the request event comes first).
TaskEnded ==
    /\ Alive /\ pc = "wait"
    /\ ~request
    /\ wait_eot /\ signalled(handle)
    /\ wait_eot' = wait_eot_after_task
    /\ Run("SyncWaitTask", [NothingHeld EXCEPT !.task = task])
    /\ UNCHANGED <<uivars, posted, eventvars, handle, portalvars, tunnelvars,
                   taskvars>>

\* The result of a procedure is posted to the window, if there is still one.
Finish(event, success) ==
    /\ pc' = "top" /\ proc' = "NONE" /\ held' = NothingHeld
    /\ posted' = IF WindowExists
                 THEN Append(posted, [event |-> event, success |-> success])
                 ELSE posted

\* Mutant: SendMessage returns before the message is handled.
Running_NoReply(p) == Alive /\ pc \in {"proc", "send"} /\ proc = p

Running(p) == Alive /\ pc = "proc" /\ proc = p

\* SyncConnect asks the user: certificate, credentials, code, or an error.
SyncConnectAsks ==
    /\ Running("SyncConnect")
    /\ WindowExists
    /\ pc' = "send"
    /\ UNCHANGED <<uivars, posted, proc, held, eventvars, wait_eot, handle,
                   portalvars, tunnelvars, taskvars>>

\* A failure may come before the login or after it (get_info, get_config).
SyncConnectReturns ==
    /\ Running("SyncConnect")
    /\ \E success \in BOOLEAN :
          /\ Finish("Connected", success)
          /\ \/ authenticated' = (authenticated \/ held.portal = session)
             \/ ~success /\ UNCHANGED authenticated
    /\ UNCHANGED <<uivars, eventvars, wait_eot, handle, session, tunnelvars,
                   taskvars>>

\* The tunnel is started or not, and listens within 7 seconds or not.
SyncWaitTunnelReturns ==
    /\ Running("SyncWaitTunnel")
    /\ \/ Finish("TunnelListening", FALSE) /\ UNCHANGED tunnels
       \/ /\ \E success \in BOOLEAN : Finish("TunnelListening", success)
          /\ tunnels' = [tunnels EXCEPT ![held.tunnel] = "running"]
    /\ UNCHANGED <<uivars, eventvars, wait_eot, handle, portalvars, tunnel,
                   taskvars>>

(***************************************************************************)
(* SyncDisconnect: logout, which forgets the cookies even if it fails,     *)
(* then 5 seconds for the tunnel to end by itself, then terminate() and 25 *)
(* seconds.  Only the first wait counts for the result.                    *)
(***************************************************************************)
IsAuthenticated == held.portal = session /\ authenticated

\* Mutant: the tunnel is left alone after a successful logout.
must_wait_NotAfterLogout(ok) == ~ok /\ held.tunnel # 0

must_wait(ok) == held.tunnel # 0

\* Mutant: the cookies are kept when the request fails.
logged_in_after_KeepCookies(ok) == ~ok

logged_in_after(ok) == FALSE

Logout ==
    /\ Running("SyncDisconnect")
    /\ IsAuthenticated
    /\ \E ok \in BOOLEAN :
        /\ authenticated' = logged_in_after(ok)
        /\ IF must_wait(ok)
           THEN /\ proc' = IF ok THEN "WaitTunnel" ELSE "TerminateTunnel"
                /\ tunnels' = IF ~ok /\ tunnels[held.tunnel] = "running"
                              THEN [tunnels EXCEPT ![held.tunnel] = "terminating"]
                              ELSE tunnels
                /\ UNCHANGED <<pc, held, posted>>
           ELSE Finish("Disconnected", ok) /\ UNCHANGED tunnels
    /\ UNCHANGED <<uivars, eventvars, wait_eot, handle, session, tunnel,
                   taskvars>>

\* The tunnel is looked at only by a client that is still authenticated.
NoLogout ==
    /\ Running("SyncDisconnect")
    /\ ~IsAuthenticated
    /\ Finish("Disconnected", FALSE)
    /\ UNCHANGED <<uivars, eventvars, wait_eot, handle, portalvars, tunnelvars,
                   taskvars>>

WaitTunnel ==
    /\ Running("WaitTunnel")
    /\ IF tunnels[held.tunnel] = "ended"
       THEN Finish("Disconnected", TRUE) /\ UNCHANGED tunnels
       ELSE /\ proc' = "TerminateTunnel"
            /\ tunnels' = IF tunnels[held.tunnel] = "running"
                          THEN [tunnels EXCEPT ![held.tunnel] = "terminating"]
                          ELSE tunnels
            /\ UNCHANGED <<pc, held, posted>>
    /\ UNCHANGED <<uivars, eventvars, wait_eot, handle, portalvars, tunnel,
                   taskvars>>

\* Mutant: waits for a thread that was never started.
gives_up_Never(t) == tunnels[t] = "ended"

\* 25 seconds are enough for a tunneler that works; the thread of a tunnel
\* that was never started never ends.
gives_up(t) == tunnels[t] \in {"ready", "ended"} \/ "stuck" \in Faults

TerminateTunnel ==
    /\ Running("TerminateTunnel")
    /\ gives_up(held.tunnel)
    /\ Finish("Disconnected", FALSE)
    /\ UNCHANGED <<uivars, eventvars, wait_eot, handle, portalvars, tunnelvars,
                   taskvars>>

\* SyncWaitTask waits for the task it was given, which is over unless _task was
\* replaced, and sends its message.  Waiting for a task that did not start fails.
SyncWaitTaskReturns ==
    /\ Running("SyncWaitTask")
    /\ tasks[held.task].state # "running"
    /\ IF WindowExists
       THEN pc' = "send" /\ UNCHANGED <<proc, held>>
       ELSE pc' = "top" /\ proc' = "NONE" /\ held' = NothingHeld
    /\ UNCHANGED <<uivars, posted, eventvars, wait_eot, handle, portalvars,
                   tunnelvars, taskvars>>

\* An exception leaves a procedure: the thread ends.
ProcedureThrows ==
    /\ "exception" \in Faults
    /\ Alive /\ pc = "proc"
    /\ pc' = "ended" /\ proc' = "NONE" /\ held' = NothingHeld
    /\ UNCHANGED <<uivars, posted, eventvars, wait_eot, handle, portalvars,
                   tunnelvars, taskvars>>

-----------------------------------------------------------------------------
(***************************************************************************)
(* The tunneler thread, the application and the firewall                   *)
(***************************************************************************)
TunnelEnds(t) ==
    /\ Alive
    /\ tunnels[t] \in {"running", "terminating"}
    /\ tunnels' = [tunnels EXCEPT ![t] = "ended"]
    /\ UNCHANGED <<uivars, posted, pc, proc, held, eventvars, wait_eot, handle,
                   portalvars, tunnel, taskvars>>

TaskExits(k) ==
    /\ Alive
    /\ tasks[k].state = "running"
    /\ tasks' = [tasks EXCEPT ![k].state = "ended"]
    /\ UNCHANGED <<uivars, posted, pc, proc, held, eventvars, wait_eot, handle,
                   portalvars, tunnelvars, task>>

\* The authentication cookie reaches its expiry date.
CookieExpires ==
    /\ Alive
    /\ "expire" \in Faults
    /\ authenticated
    /\ authenticated' = FALSE
    /\ UNCHANGED <<uivars, posted, pc, proc, held, eventvars, wait_eot, handle,
                   session, tunnelvars, taskvars>>

-----------------------------------------------------------------------------
UiStep ==
    \/ OnConnected \/ OnTunnelListening \/ OnDisconnected
    \/ ShowDialog \/ AnswerDialog \/ OnDisconnectRequest
    \/ RequestAction \/ LeaveLoop \/ Join

User == Connect \/ ClickDisconnect \/ Destroy

Controller ==
    \/ Top \/ EnterWait \/ StartAction \/ TaskEnded
    \/ SyncConnectReturns \/ SyncWaitTunnelReturns
    \/ Logout \/ NoLogout \/ WaitTunnel \/ TerminateTunnel
    \/ SyncWaitTaskReturns

Environment ==
    \/ SyncConnectAsks
    \/ ProcedureThrows
    \/ \E t \in Id : TunnelEnds(t)
    \/ \E k \in Id : TaskExits(k)
    \/ CookieExpires

\* The process has exited.
Done == ui = "done" /\ UNCHANGED vars

\* The window thread waits for a message.  A state without a successor is thus
\* one in which it is blocked for ever.
Rest == Pumping /\ posted = <<>> /\ UNCHANGED vars

Next == UiStep \/ User \/ Controller \/ Environment \/ Done \/ Rest

Spec == Init /\ [][Next]_vars

(***************************************************************************)
(* Both threads run; dialogs are answered; a login is not repeated for     *)
(* ever; a tunneler that was told to terminate ends.  Nothing is assumed   *)
(* of what the user does otherwise.                                        *)
(***************************************************************************)
Fairness ==
    /\ WF_vars(UiStep)
    /\ WF_vars(Controller)
    /\ SF_vars(SyncConnectReturns)
    /\ \A t \in Id : WF_vars(tunnels[t] = "terminating" /\ TunnelEnds(t))

FairSpec == Spec /\ Fairness

-----------------------------------------------------------------------------
(***************************************************************************)
(* Safety                                                                  *)
(***************************************************************************)
Action == {"NONE", "CONNECT", "TUNNEL", "DISCONNECT", "MONITOR_TASK", "TERMINATE"}
Procedure == {"NONE", "SyncConnect", "SyncWaitTunnel", "SyncDisconnect",
              "WaitTunnel", "TerminateTunnel", "SyncWaitTask"}
Message == [event : {"Connected", "TunnelListening", "Disconnected"},
            success : BOOLEAN]

\* Every variable keeps its type.
TypeOK ==
    /\ ui \in {"pump", "modal", "quit", "join", "done"}
    /\ uireq \in Action
    /\ cont \in {"pump", "modal", "reply", "quit", "join"}
    /\ connect_shown \in BOOLEAN /\ disconnect_enabled \in BOOLEAN
    /\ posted \in Seq(Message)
    /\ pc \in {"top", "ready", "wait", "proc", "send", "ended"}
    /\ proc \in Procedure
    /\ held \in [portal : Nat, tunnel : Nat, task : Nat]
    /\ action \in Action
    /\ ready \in BOOLEAN /\ request \in BOOLEAN
    /\ wait_eot \in BOOLEAN /\ handle \in Nat
    /\ session \in 0..MaxSessions /\ authenticated \in BOOLEAN
    /\ tunnel \in Nat
    /\ tunnels \in [Id -> {"none", "ready", "running", "terminating", "ended"}]
    /\ task \in Nat
    /\ tasks \in [Id -> [state : {"none", "failed", "running", "ended"},
                         session : Nat]]

\* _readyEvent is set only while the controller can take an action: it is in
\* the wait, or about to be, and no action is pending.  So no request is
\* overwritten, and none is made behind a procedure that is still running.
ReadyMeansIdle == ready => pc \in {"ready", "wait"} /\ ~request

\* A procedure that runs in the controller thread never refers to a portal
\* client, a tunnel or a task that the window thread has replaced, and so
\* deleted (connect, create_tunnel, start_task take no lock).
HeldAlive ==
    /\ held.portal \in {0, session}
    /\ held.tunnel \in {0, tunnel}
    /\ held.task \in {0, task}

SessionInProgress ==
    \/ uireq \in {"CONNECT", "TUNNEL"}
    \/ request /\ action \in {"CONNECT", "TUNNEL"}
    \/ proc \in {"SyncConnect", "SyncWaitTunnel"}
    \/ authenticated
    \/ \E i \in 1..Len(posted) : posted[i].event # "Disconnected"

\* The Connect and Quit buttons are enabled only when no session is being set
\* up or in use, although they are switched by messages that are handled some
\* time after what they report ("Disable all controls on this dialog",
\* ConnectDialog.cpp:373).
ButtonsMatchSession == connect_shown => ~SessionInProgress

\* create_tunnel deletes the previous tunnel object only after its thread ended
\* (it is waited for in SyncDisconnect: "15 seconds should be enough",
\* SyncDisconnect.cpp:49).
TunnelOutlivesThread ==
    [][tunnel' # tunnel /\ tunnel # 0
          => tunnels[tunnel] \notin {"running", "terminating"}]_vars

\* Once the user can connect again, the tunnel of the last session has ended or
\* has been told to ("close the tunnel and disconnecting from the firewall
\* portal", AsyncController.h:120).
DisconnectStopsTunnel == connect_shown => \A t \in Id : tunnels[t] # "running"

\* The window thread is never in request_action, waiting for a controller that
\* is itself in SendMessage and waits for the window thread ("As a deadlock
\* could occurs if SendMessage is sent while processing another message, we use
\* PostMessage", AsyncMessage.h:28).
NoMutualWait == ~(uireq # "NONE" /\ ~ready /\ pc = "send")

\* The controller thread ends only when it is told to: the handle it waits on
\* is that of the "task monitored at a previous iteration of the wait loop"
\* (AsyncController.cpp:285).
EndsOnRequest == pc = "ended" => action = "TERMINATE"

\* A dialog is open only while the SyncConnect that asked for it waits for the
\* answer: the object the dialog fills in is on the stack of its thread
\* (SyncConnect::ask_credentials passes its address with the message), whatever
\* the other messages handled meanwhile make the window thread do.
DialogHasCaller ==
    ui = "modal" \/ cont = "modal"
       => pc = "send" /\ proc = "SyncConnect"

\* "the application closes the tunnel as soon as the local application is
\* stopped" (ConnectDialog.cpp:755): the end of a task disconnects the session
\* the task was started for, never a later one.
TaskEndsOwnSession ==
    [][proc = "SyncWaitTask" /\ uireq = "NONE" /\ cont' = "reply"
          => connect_shown \/ tasks[handle].session = session]_vars

-----------------------------------------------------------------------------
(***************************************************************************)
(* Liveness                                                                *)
(***************************************************************************)

\* Whatever happens to a connection or a disconnection, the user gets a button
\* back: no result is lost between the two threads.
ControlsReturn ==
    ~connect_shown ~> connect_shown \/ disconnect_enabled \/ ui = "done"

\* The end of the monitored application ends the session.
TaskEndDisconnects ==
    wait_eot /\ tasks[handle].state = "ended" ~> connect_shown \/ ui = "done"

\* "Stop AsyncConnect if still running" (ConnectDialog.cpp:470): once the window
\* is being destroyed, the program ends.
QuitEnds == cont = "quit" ~> ui = "done"
=============================================================================
