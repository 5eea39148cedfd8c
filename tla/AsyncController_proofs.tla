----------------------- MODULE AsyncController_proofs -----------------------
(***************************************************************************)
(* Proofs about AsyncController, for every number of sessions.  The types  *)
(* and the dialogs are proved with everything that may happen.  The rest is*)
(* about a user who cannot click Disconnect while a task is monitored:     *)
(* either no task is monitored (several clients), or there are no clicks.  *)
(* With both, the two threads can block each other, and TLC finds how.     *)
(***************************************************************************)
EXTENDS AsyncController, SequenceTheorems, TLAPS

-----------------------------------------------------------------------------
(***************************************************************************)
(* Types                                                                   *)
(***************************************************************************)

\* The initial values have their types.
LEMMA TypeInit == Init => TypeOK
<1> SUFFICES ASSUME Init PROVE TypeOK
  OBVIOUS
<1>1. /\ posted \in Seq(Message) /\ held \in [portal : Nat, tunnel : Nat, task : Nat]
      /\ session \in 0..MaxSessions
  BY ControllerAssumption DEF Init, NothingHeld
<1>2. /\ tunnels \in [Id -> {"none", "ready", "running", "terminating", "ended"}]
      /\ tasks \in [Id -> [state : {"none", "failed", "running", "ended"},
                           session : Nat]]
  BY DEF Init, NoTask
<1> QED BY <1>1, <1>2 DEF Init, TypeOK, Action, Procedure

\* A step that changes nothing keeps the types.
LEMMA TypeStutter ==
  ASSUME TypeOK, UNCHANGED vars
  PROVE  TypeOK'
  BY DEF TypeOK, vars, uivars, eventvars, taskvars, tunnelvars, portalvars

\* The handlers of the window thread keep the types.
LEMMA TypeUi ==
  ASSUME TypeOK, UiStep
  PROVE  TypeOK'
<1>a. MaxSessions \in Nat
  BY ControllerAssumption
<1> USE <1>a DEF TypeOK, uivars, eventvars, taskvars, tunnelvars, portalvars,
            Call, Id
<1>0. posted # <<>> => Tail(posted) \in Seq(Message)
  OBVIOUS
<1>1. CASE OnConnected
  <2>1. tunnels' \in [Id -> {"none", "ready", "running", "terminating", "ended"}]
    BY <1>1 DEF OnConnected
  <2>2. tunnel' \in Nat /\ posted' \in Seq(Message)
    BY <1>0, <1>1 DEF OnConnected
  <2>3. /\ uireq' \in Action /\ cont' \in {"pump", "modal", "reply", "quit", "join"}
        /\ disconnect_enabled' \in BOOLEAN
        /\ UNCHANGED <<ui, connect_shown>>
    BY <1>1 DEF OnConnected, Disconnect, Pumping, Action
  <2> QED BY <1>1, <2>1, <2>2, <2>3 DEF OnConnected
<1>2. CASE OnTunnelListening
  <2>1. tasks' \in [Id -> [state : {"none", "failed", "running", "ended"},
                          session : Nat]]
    <3>1. session \in Nat
      OBVIOUS
    <3>2. \A b \in BOOLEAN :
             [state |-> IF b THEN "running" ELSE "failed", session |-> session]
                \in [state : {"none", "failed", "running", "ended"}, session : Nat]
      BY <3>1
    <3>3. \/ tasks' = tasks
          \/ \E b \in BOOLEAN : tasks' = [tasks EXCEPT ![task + 1] =
               [state |-> IF b THEN "running" ELSE "failed", session |-> session]]
      BY <1>2 DEF OnTunnelListening
    <3> QED BY <3>2, <3>3
  <2>2. task' \in Nat /\ posted' \in Seq(Message)
    <3>1. task' \in {task, task + 1} /\ posted' = Tail(posted) /\ posted # <<>>
      BY <1>2 DEF OnTunnelListening
    <3> QED BY <1>0, <3>1
  <2>3. /\ uireq' \in Action /\ cont' \in {"pump", "modal", "reply", "quit", "join"}
        /\ disconnect_enabled' \in BOOLEAN
        /\ UNCHANGED <<ui, connect_shown>>
    BY <1>2 DEF OnTunnelListening, Pumping, Action
  <2> QED BY <1>2, <2>1, <2>2, <2>3 DEF OnTunnelListening
<1>3. CASE OnDisconnected
  BY <1>0, <1>3 DEF OnDisconnected
<1>4. CASE ShowDialog
  BY <1>4 DEF ShowDialog
<1>5. CASE AnswerDialog
  BY <1>5 DEF AnswerDialog
<1>6. CASE OnDisconnectRequest
  BY <1>6 DEF OnDisconnectRequest, Disconnect, Action
<1>7. CASE RequestAction
  <2>1. after(cont) \in {"pump", "modal", "quit", "join", "done"}
    BY DEF after
  <2>2. posted' \in Seq(Message)
    BY <1>7 DEF RequestAction
  <2>3. /\ pc' \in {"top", "ready", "wait", "proc", "send", "ended"}
        /\ proc' \in Procedure
        /\ held' \in [portal : Nat, tunnel : Nat, task : Nat]
    BY <1>7 DEF RequestAction, Procedure, NothingHeld
  <2> QED BY <1>7, <2>1, <2>2, <2>3 DEF RequestAction, Action
<1>8. CASE LeaveLoop
  BY <1>8 DEF LeaveLoop, Action
<1>9. CASE Join
  BY <1>9 DEF Join
<1> QED BY <1>1, <1>2, <1>3, <1>4, <1>5, <1>6, <1>7, <1>8, <1>9 DEF UiStep

\* So do the clicks.
LEMMA TypeUser ==
  ASSUME TypeOK, User
  PROVE  TypeOK'
<1>a. MaxSessions \in Nat
  BY ControllerAssumption
<1> USE <1>a DEF TypeOK, uivars, eventvars, taskvars, tunnelvars, portalvars,
            Call
<1>1. CASE Connect
  <2>1. session' \in 0..MaxSessions
    BY <1>1 DEF Connect
  <2> QED BY <1>1, <2>1 DEF Connect, DisableControls, Action
<1>2. CASE ClickDisconnect
  BY <1>2 DEF ClickDisconnect, Disconnect, Action, Pumping
<1>3. CASE Destroy
  BY <1>3 DEF Destroy, Disconnect, Action, Pumping
<1> QED BY <1>1, <1>2, <1>3 DEF User

\* What Finish leaves behind has its type.
LEMMA TypeFinish ==
  ASSUME TypeOK, NEW event \in {"Connected", "TunnelListening", "Disconnected"},
         NEW success \in BOOLEAN, Finish(event, success)
  PROVE  /\ posted' \in Seq(Message)
         /\ pc' = "top" /\ proc' \in Procedure
         /\ held' \in [portal : Nat, tunnel : Nat, task : Nat]
<1>1. [event |-> event, success |-> success] \in Message
  BY DEF Message
<1> QED BY <1>1 DEF Finish, TypeOK, Procedure, NothingHeld

\* The steps of AsyncController::run keep the types.
LEMMA TypeController ==
  ASSUME TypeOK, Controller
  PROVE  TypeOK'
<1>a. MaxSessions \in Nat
  BY ControllerAssumption
<1> USE <1>a DEF TypeOK, uivars, eventvars, taskvars, tunnelvars, portalvars,
            Id
<1>1. CASE Top
  BY <1>1 DEF Top, SetReady
<1>2. CASE EnterWait
  BY <1>2 DEF EnterWait
<1>3. CASE StartAction
  <2>1. /\ pc' \in {"proc", "top", "ended"} /\ proc' \in Procedure
        /\ held' \in [portal : Nat, tunnel : Nat, task : Nat]
        /\ wait_eot' \in BOOLEAN /\ handle' \in Nat
    <3>1. session \in Nat
      OBVIOUS
    <3>2. /\ [NothingHeld EXCEPT !.portal = session]
                \in [portal : Nat, tunnel : Nat, task : Nat]
          /\ [NothingHeld EXCEPT !.tunnel = tunnel]
                \in [portal : Nat, tunnel : Nat, task : Nat]
          /\ [portal |-> session, tunnel |-> tunnel, task |-> 0]
                \in [portal : Nat, tunnel : Nat, task : Nat]
      BY <3>1 DEF NothingHeld
    <3> QED BY <1>3, <3>2 DEF StartAction, Run, Procedure
  <2> QED BY <1>3, <2>1 DEF StartAction
<1>4. CASE TaskEnded
  BY <1>4 DEF TaskEnded, Run, NothingHeld, Procedure, wait_eot_after_task
<1>5. CASE SyncConnectReturns
  <2>1. PICK success \in BOOLEAN : Finish("Connected", success)
    BY <1>5 DEF SyncConnectReturns
  <2>2. authenticated' \in BOOLEAN
    BY <1>5 DEF SyncConnectReturns
  <2> QED BY <1>5, <2>1, <2>2, TypeFinish DEF SyncConnectReturns
<1>6. CASE SyncWaitTunnelReturns
  <2>1. PICK success \in BOOLEAN : Finish("TunnelListening", success)
    BY <1>6 DEF SyncWaitTunnelReturns
  <2>2. tunnels' \in [Id -> {"none", "ready", "running", "terminating", "ended"}]
    BY <1>6 DEF SyncWaitTunnelReturns
  <2> QED BY <1>6, <2>1, <2>2, TypeFinish DEF SyncWaitTunnelReturns
<1>7. CASE Logout
  <2>1. \/ \E ok \in BOOLEAN : Finish("Disconnected", ok)
        \/ proc' \in {"WaitTunnel", "TerminateTunnel"} /\ UNCHANGED <<pc, held, posted>>
    BY <1>7 DEF Logout
  <2>2. tunnels' \in [Id -> {"none", "ready", "running", "terminating", "ended"}]
    BY <1>7 DEF Logout
  <2>3. authenticated' = FALSE
    BY <1>7 DEF Logout, logged_in_after
  <2>4. /\ posted' \in Seq(Message)
        /\ pc' \in {"top", "proc"} /\ proc' \in Procedure
        /\ held' \in [portal : Nat, tunnel : Nat, task : Nat]
    <3>1. CASE \E ok \in BOOLEAN : Finish("Disconnected", ok)
      <4> PICK ok \in BOOLEAN : Finish("Disconnected", ok)
        BY <3>1
      <4> QED BY TypeFinish
    <3>2. CASE /\ proc' \in {"WaitTunnel", "TerminateTunnel"}
               /\ UNCHANGED <<pc, held, posted>>
      BY <1>7, <3>2 DEF Logout, Running, Procedure
    <3> QED BY <2>1, <3>1, <3>2
  <2> QED BY <1>7, <2>2, <2>3, <2>4 DEF Logout
<1>8. CASE NoLogout
  <2>1. Finish("Disconnected", FALSE)
    BY <1>8 DEF NoLogout
  <2>2. /\ posted' \in Seq(Message)
        /\ pc' = "top" /\ proc' \in Procedure
        /\ held' \in [portal : Nat, tunnel : Nat, task : Nat]
    BY <2>1, TypeFinish
  <2> QED BY <1>8, <2>2 DEF NoLogout
<1>9. CASE WaitTunnel
  <2>1. \/ Finish("Disconnected", TRUE)
        \/ proc' = "TerminateTunnel" /\ UNCHANGED <<pc, held, posted>>
    BY <1>9 DEF WaitTunnel
  <2>2. tunnels' \in [Id -> {"none", "ready", "running", "terminating", "ended"}]
    BY <1>9 DEF WaitTunnel
  <2>3. /\ posted' \in Seq(Message)
        /\ pc' \in {"top", "proc"} /\ proc' \in Procedure
        /\ held' \in [portal : Nat, tunnel : Nat, task : Nat]
    <3>1. CASE Finish("Disconnected", TRUE)
      BY <3>1, TypeFinish
    <3>2. CASE proc' = "TerminateTunnel" /\ UNCHANGED <<pc, held, posted>>
      BY <1>9, <3>2 DEF WaitTunnel, Running, Procedure
    <3> QED BY <2>1, <3>1, <3>2
  <2> QED BY <1>9, <2>2, <2>3 DEF WaitTunnel
<1>10. CASE TerminateTunnel
  <2>1. Finish("Disconnected", FALSE)
    BY <1>10 DEF TerminateTunnel
  <2>2. /\ posted' \in Seq(Message)
        /\ pc' = "top" /\ proc' \in Procedure
        /\ held' \in [portal : Nat, tunnel : Nat, task : Nat]
    BY <2>1, TypeFinish
  <2> QED BY <1>10, <2>2 DEF TerminateTunnel
<1>11. CASE SyncWaitTaskReturns
  BY <1>11 DEF SyncWaitTaskReturns, NothingHeld, Procedure
<1> QED BY <1>1, <1>2, <1>3, <1>4, <1>5, <1>6, <1>7, <1>8, <1>9, <1>10, <1>11
        DEF Controller

\* So do the ends of tunnels and tasks, and the faults.
LEMMA TypeEnvironment ==
  ASSUME TypeOK, Environment
  PROVE  TypeOK'
<1>a. MaxSessions \in Nat
  BY ControllerAssumption
<1> USE <1>a DEF TypeOK, uivars, eventvars, taskvars, tunnelvars, portalvars,
            Id
<1>1. CASE SyncConnectAsks
  BY <1>1 DEF SyncConnectAsks
<1>2. CASE ProcedureThrows
  BY <1>2 DEF ProcedureThrows, NothingHeld, Procedure
<1>3. CASE \E t \in Id : TunnelEnds(t)
  BY <1>3 DEF TunnelEnds
<1>4. CASE \E k \in Id : TaskExits(k)
  <2> PICK k \in Id : TaskExits(k)
    BY <1>4
  <2>1. tasks' \in [Id -> [state : {"none", "failed", "running", "ended"},
                          session : Nat]]
    BY DEF TaskExits
  <2> QED BY <2>1 DEF TaskExits
<1>5. CASE CookieExpires
  <2>1. /\ authenticated' \in BOOLEAN
        /\ UNCHANGED <<uivars, posted, pc, proc, held, eventvars, wait_eot, handle,
                       session, tunnelvars, taskvars>>
    BY <1>5 DEF CookieExpires
  <2> QED BY <2>1
<1> QED BY <1>1, <1>2, <1>3, <1>4, <1>5 DEF Environment

\* Every variable of the two threads (ConnectDialog, AsyncController::run) keeps
\* its type, whatever the user does and whatever goes wrong; the number of a
\* session never exceeds MaxSessions.
THEOREM TypeCorrect == Spec => []TypeOK
<1>1. TypeOK /\ [Next]_vars => TypeOK'
  BY TypeUi, TypeUser, TypeController, TypeEnvironment, TypeStutter
     DEF Next, Done, Rest
<1> QED BY TypeInit, <1>1, PTL DEF Spec

-----------------------------------------------------------------------------
(***************************************************************************)
(* The ready event                                                         *)
(***************************************************************************)

\* What the handshake needs beyond ReadyMeansIdle when no task is monitored: a
\* pending request finds the controller before or in its wait, and the wait is
\* for the request event alone.  While a dialog is shown, the controller is in
\* SendMessage, so that the answer finds it there.
Handshake ==
    /\ ReadyMeansIdle
    /\ request => pc \in {"ready", "wait"}
    /\ ~wait_eot
    /\ uireq # "MONITOR_TASK" /\ action # "MONITOR_TASK"
    /\ uireq = "NONE" => cont = "pump"
    /\ ui = "modal" \/ cont = "modal" => pc = "send"

USE DEF ReadyMeansIdle, Handshake

\* The controller starts free, with no request.
LEMMA HandshakeInit == Init => Handshake
  BY DEF Init

\* A call of request_action for anything but a task keeps the handshake.
LEMMA CallKeeps ==
  ASSUME Handshake, NEW a, NEW c, a \notin {"NONE", "MONITOR_TASK"}, Call(a, c),
         c = "modal" => ui = "modal",
         UNCHANGED <<ui, pc, action, ready, request, wait_eot>>
  PROVE  Handshake'
  BY DEF Call

\* The handlers of the window thread keep the handshake.
LEMMA UiStepKeeps ==
  ASSUME ~Monitor, Handshake, UiStep
  PROVE  Handshake'
<1>1. CASE OnConnected
  <2>1. UNCHANGED <<ui, pc, action, ready, request, wait_eot>>
    BY <1>1 DEF OnConnected, Disconnect, eventvars
  <2>2. \/ Call("TUNNEL", ui)
        \/ Call("DISCONNECT", ui)
    BY <1>1 DEF OnConnected, Disconnect
  <2> QED BY <2>1, <2>2, CallKeeps
<1>2. CASE OnTunnelListening
  <2>1. UNCHANGED <<ui, pc, action, ready, request, wait_eot>>
    BY <1>2 DEF OnTunnelListening, eventvars
  <2>2. Call("DISCONNECT", ui) \/ UNCHANGED <<uireq, cont>>
    BY <1>2 DEF OnTunnelListening
  <2> QED BY <2>1, <2>2, CallKeeps
<1>3. CASE OnDisconnected
  BY <1>3 DEF OnDisconnected, eventvars
<1>4. CASE ShowDialog
  BY <1>4 DEF ShowDialog, eventvars
<1>5. CASE AnswerDialog
  \* The controller is in SendMessage, so it is not in its wait.
  BY <1>5 DEF AnswerDialog, eventvars
<1>6. CASE OnDisconnectRequest
  <2>1. UNCHANGED <<ui, pc, action, ready, request, wait_eot>>
    BY <1>6 DEF OnDisconnectRequest, Disconnect, eventvars
  <2> QED BY <1>6, <2>1, CallKeeps DEF OnDisconnectRequest, Disconnect
<1>7. CASE RequestAction
  BY <1>7 DEF RequestAction, may_request, after
<1>8. CASE LeaveLoop
  <2>1. UNCHANGED <<ui, pc, action, ready, request, wait_eot>>
    BY <1>8 DEF LeaveLoop, eventvars
  <2> QED BY <1>8, <2>1, CallKeeps DEF LeaveLoop
<1>9. CASE Join
  BY <1>9 DEF Join, eventvars
<1> QED BY <1>1, <1>2, <1>3, <1>4, <1>5, <1>6, <1>7, <1>8, <1>9 DEF UiStep

\* So do the clicks.
LEMMA UserKeeps ==
  ASSUME Handshake, User
  PROVE  Handshake'
<1>1. CASE Connect
  <2>1. UNCHANGED <<ui, pc, action, ready, request, wait_eot>>
    BY <1>1 DEF Connect, eventvars
  <2> QED BY <1>1, <2>1, CallKeeps DEF Connect
<1>2. CASE ClickDisconnect
  <2>1. UNCHANGED <<ui, pc, action, ready, request, wait_eot>>
    BY <1>2 DEF ClickDisconnect, Disconnect, eventvars
  <2> QED BY <1>2, <2>1, CallKeeps DEF ClickDisconnect, Disconnect
<1>3. CASE Destroy
  <2>1. UNCHANGED <<ui, pc, action, ready, request, wait_eot>>
    BY <1>3 DEF Destroy, Disconnect, eventvars
  <2> QED BY <1>3, <2>1, CallKeeps DEF Destroy, Disconnect
<1> QED BY <1>1, <1>2, <1>3 DEF User

\* A procedure runs or returns: nothing of the handshake is touched, and the
\* controller was not in its wait.
LEMMA ProcedureKeeps ==
  ASSUME Handshake, pc = "proc", pc' \in {"proc", "send", "top", "ended"},
         UNCHANGED <<uivars, eventvars, wait_eot>>
  PROVE  Handshake'
  BY DEF uivars, eventvars

\* So do the steps of AsyncController::run.
LEMMA ControllerKeeps ==
  ASSUME Handshake, Controller
  PROVE  Handshake'
<1>1. CASE Top
  BY <1>1 DEF Top, SetReady, uivars
<1>2. CASE EnterWait
  BY <1>2 DEF EnterWait, uivars, eventvars
<1>3. CASE StartAction
  \* The action is not MONITOR_TASK, so wait_eot stays FALSE.
  <2>1. UNCHANGED <<uivars, action, ready, wait_eot>> /\ ~request' /\ pc = "wait"
    BY <1>3 DEF StartAction
  <2>2. ~ready
    BY <1>3 DEF StartAction
  <2> QED BY <2>1, <2>2 DEF uivars
<1>4. CASE TaskEnded
  BY <1>4 DEF TaskEnded
<1>5. CASE SyncConnectReturns
  BY <1>5, ProcedureKeeps DEF SyncConnectReturns, Running, Finish
<1>6. CASE SyncWaitTunnelReturns
  BY <1>6, ProcedureKeeps DEF SyncWaitTunnelReturns, Running, Finish
<1>7. CASE Logout
  BY <1>7, ProcedureKeeps DEF Logout, Running, Finish
<1>8. CASE NoLogout
  BY <1>8, ProcedureKeeps DEF NoLogout, Running, Finish
<1>9. CASE WaitTunnel
  BY <1>9, ProcedureKeeps DEF WaitTunnel, Running, Finish
<1>10. CASE TerminateTunnel
  BY <1>10, ProcedureKeeps DEF TerminateTunnel, Running, Finish
<1>11. CASE SyncWaitTaskReturns
  BY <1>11, ProcedureKeeps DEF SyncWaitTaskReturns, Running
<1> QED BY <1>1, <1>2, <1>3, <1>4, <1>5, <1>6, <1>7, <1>8, <1>9, <1>10, <1>11
        DEF Controller

\* So do the ends of tunnels and tasks, and the faults.
LEMMA EnvironmentKeeps ==
  ASSUME Handshake, Environment
  PROVE  Handshake'
<1>1. CASE SyncConnectAsks
  BY <1>1, ProcedureKeeps DEF SyncConnectAsks, Running
<1>2. CASE ProcedureThrows
  BY <1>2, ProcedureKeeps DEF ProcedureThrows
<1>3. CASE \E t \in Id : TunnelEnds(t)
  BY <1>3 DEF TunnelEnds, uivars, eventvars
<1>4. CASE \E k \in Id : TaskExits(k)
  BY <1>4 DEF TaskExits, uivars, eventvars
<1>5. CASE CookieExpires
  BY <1>5 DEF CookieExpires, uivars, eventvars
<1> QED BY <1>1, <1>2, <1>3, <1>4, <1>5 DEF Environment

\* When no task is monitored, _readyEvent is set only while the controller
\* (AsyncController::run) is free and nothing is pending: request_action never
\* overwrites an action and never queues one behind a running procedure.
THEOREM IdleWhenReady ==
  ASSUME ~Monitor
  PROVE  Spec => []ReadyMeansIdle
<1>1. Init => Handshake
  BY HandshakeInit
<1>2. Handshake /\ [Next]_vars => Handshake'
  <2> SUFFICES ASSUME Handshake, [Next]_vars
               PROVE  Handshake'
    OBVIOUS
  <2>1. CASE UiStep
    BY <2>1, UiStepKeeps
  <2>2. CASE User
    BY <2>2, UserKeeps
  <2>3. CASE Controller
    BY <2>3, ControllerKeeps
  <2>4. CASE Environment
    BY <2>4, EnvironmentKeeps
  <2>5. CASE UNCHANGED vars
    BY <2>5 DEF vars, uivars, eventvars
  <2> QED BY <2>1, <2>2, <2>3, <2>4, <2>5 DEF Next, Done, Rest
<1>3. Handshake => ReadyMeansIdle
  OBVIOUS
<1> QED BY <1>1, <1>2, <1>3, PTL DEF Spec

HIDE DEF ReadyMeansIdle, Handshake

-----------------------------------------------------------------------------
(***************************************************************************)
(* Dialogs                                                                 *)
(***************************************************************************)

\* Beyond DialogHasCaller: the handler of a sent message runs in the loop of the
\* program, never in that of a dialog.
DialogInv ==
    /\ DialogHasCaller
    /\ uireq = "NONE" => cont = "pump"
    /\ cont = "reply" => ui = "pump"

\* No step of the controller is possible while it is in SendMessage.
LEMMA DialogStep ==
  ASSUME DialogInv, [Next]_vars
  PROVE  DialogInv'
<1> USE DEF DialogInv, DialogHasCaller, uivars, Call, Pumping
<1>1. CASE UiStep
  BY <1>1 DEF UiStep, OnConnected, Disconnect, OnTunnelListening, OnDisconnected,
     ShowDialog, AnswerDialog, OnDisconnectRequest, RequestAction, after,
     LeaveLoop, Join
<1>2. CASE User
  BY <1>2 DEF User, Connect, ClickDisconnect, Destroy, Disconnect
<1>3. CASE Controller
  <2>1. pc # "send" /\ UNCHANGED uivars
    BY <1>3 DEF Controller, Top, EnterWait, StartAction, TaskEnded,
       SyncConnectReturns, SyncWaitTunnelReturns, Logout, NoLogout, WaitTunnel,
       TerminateTunnel, SyncWaitTaskReturns, Running
  <2> QED BY <2>1
<1>4. CASE Environment
  BY <1>4 DEF Environment, SyncConnectAsks, Running, ProcedureThrows, TunnelEnds,
     TaskExits, CookieExpires
<1>5. CASE UNCHANGED vars
  BY <1>5 DEF vars
<1> QED BY <1>1, <1>2, <1>3, <1>4, <1>5 DEF Next, Done, Rest

\* Whatever the window thread does meanwhile, a dialog of SyncConnect is open
\* only while its SendMessage waits for the answer.
THEOREM DialogsAnswered == Spec => []DialogHasCaller
<1>1. Init => DialogInv
  BY DEF Init, DialogInv, DialogHasCaller
<1>2. DialogInv => DialogHasCaller
  BY DEF DialogInv
<1> QED BY <1>1, <1>2, DialogStep, PTL DEF Spec

-----------------------------------------------------------------------------
(***************************************************************************)
(* The session                                                             *)
(*                                                                         *)
(* A session is carried by one token: a call of request_action, then the   *)
(* pending action, then the procedure, then the message with its result,   *)
(* whose handler makes the next call.  In between the session is idle: the *)
(* Connect button is shown, or the tunnel is in use.  As no two of them    *)
(* exist at the same time, what the window thread replaces is never in use *)
(* by a procedure.  The one exception is the end of the window: its        *)
(* DISCONNECT and TERMINATE come on top.                                   *)
(***************************************************************************)
Regime == ~Monitor \/ ~Clicks

Closing == {"SyncDisconnect", "WaitTunnel", "TerminateTunnel"}
WindowGone == ui \in {"quit", "join", "done"}
Calling == uireq # "NONE" /\ cont # "quit"
Pending(a) == request /\ action = a
Posted(e) == posted # <<>> /\ Head(posted).event = e

\* The token is that of the connection, of the tunnel, of the task.
Opening ==
    \/ uireq = "CONNECT" \/ Pending("CONNECT")
    \/ proc = "SyncConnect" \/ Posted("Connected")
Starting == uireq = "TUNNEL" \/ Pending("TUNNEL") \/ proc = "SyncWaitTunnel"
Attaching == uireq = "MONITOR_TASK" \/ Pending("MONITOR_TASK")

\* The process of _task was created, for this session.
TaskStarted ==
    /\ task \in Id
    /\ tasks[task].state \in {"running", "ended"}
    /\ tasks[task].session = session

\* The references of a procedure are to the current objects.
ProcedureInv ==
    /\ proc # "NONE" <=> pc \in {"proc", "send"}
    /\ pc = "send" => proc \in {"SyncConnect", "SyncWaitTask"} /\ ~WindowGone
    /\ proc = "NONE" => held = NothingHeld
    /\ proc = "SyncConnect" => held = [NothingHeld EXCEPT !.portal = session]
    /\ proc = "SyncWaitTunnel" => held = [NothingHeld EXCEPT !.tunnel = tunnel]
    /\ proc \in Closing =>
          held = [portal |-> session, tunnel |-> tunnel, task |-> 0]
    /\ proc = "SyncWaitTask" => held = [NothingHeld EXCEPT !.task = task]

\* What the window thread is doing, and the end of the window.
WindowInv ==
    /\ uireq = "NONE" => cont = "pump"
    /\ cont \in {"quit", "reply"} => uireq = "DISCONNECT"
    /\ cont = "join" <=> uireq = "TERMINATE"
    /\ cont # "modal"
    /\ cont = "reply" => pc = "send" /\ proc = "SyncWaitTask"
    /\ ui = "modal" => pc = "send" /\ proc = "SyncConnect"
    /\ WindowGone => posted = <<>> /\ uireq \in {"NONE", "TERMINATE"}
    /\ uireq = "TERMINATE" => ui = "quit"
    /\ action = "TERMINATE" => ui \in {"join", "done"}
    /\ pc = "ended" => posted = <<>>

\* No two of: a call (other than that of WM_DESTROY), a pending action, a
\* procedure, a posted message.
OneToken ==
    /\ posted # <<>> => Len(posted) = 1 /\ proc = "NONE" /\ ~request /\ ~Calling
    /\ ~WindowGone /\ proc # "NONE" => ~request /\ (Calling => cont = "reply")
    /\ ~WindowGone /\ request => ~Calling
    /\ WindowGone /\ request => action \in {"DISCONNECT", "TERMINATE"}

\* A button is enabled only when there is no token.
ButtonInv ==
    /\ connect_shown =>
         /\ uireq \in {"NONE", "DISCONNECT", "TERMINATE"}
         /\ request => action \in {"DISCONNECT", "TERMINATE"}
         /\ proc \in {"NONE"} \union Closing
         /\ ~authenticated /\ posted = <<>> /\ ~wait_eot
         /\ ~WindowGone => ~request /\ proc = "NONE" /\ ~Calling
    /\ Clicks /\ ~connect_shown /\ disconnect_enabled /\ ~WindowGone =>
         ~Calling /\ ~request /\ proc = "NONE" /\ posted = <<>>
    /\ Posted("Disconnected") \/ proc \in {"WaitTunnel", "TerminateTunnel"} =>
         ~authenticated

\* The task that is monitored, about to be, or over is that of this session; and
\* the ready event is still set when the end of the task is reported.
TaskInv ==
    /\ pc \in {"ready", "wait"} => ready \/ request
    /\ wait_eot => /\ Monitor /\ handle = task /\ TaskStarted /\ posted = <<>>
                   /\ ~WindowGone => ~Calling /\ ~request /\ proc = "NONE"
    /\ Attaching => Monitor /\ TaskStarted
    /\ proc = "SyncWaitTask" =>
          /\ Monitor /\ handle = task /\ TaskStarted /\ ~wait_eot
          /\ ~WindowGone => ready

\* A session makes one tunnel and one task at most.
CountInv ==
    /\ tunnel <= session /\ task <= session
    /\ Opening => tunnel < session /\ task < session
    /\ Starting \/ Posted("TunnelListening") => task < session
    /\ Starting => tunnel # 0
    /\ proc \in {"WaitTunnel", "TerminateTunnel"} => tunnel # 0

SessionInv ==
    ProcedureInv /\ WindowInv /\ OneToken /\ ButtonInv /\ TaskInv /\ CountInv

\* The steps are short, but each may disturb any part: the parts, and the words
\* they are made of, are expanded in all the proofs below.
USE DEF SessionInv, ProcedureInv, WindowInv, OneToken, ButtonInv, TaskInv,
        CountInv, Closing, WindowGone, Calling, Pending, Posted, Opening,
        Starting, Attaching, TaskStarted, Regime,
        uivars, eventvars, taskvars, tunnelvars, portalvars

\* At the start the Connect button is shown and there is no token.
LEMMA SessionInit == Init => SessionInv
  BY ControllerAssumption DEF Init, NothingHeld

\* A handler of a posted message takes the only one there is.
LEMMA LastMessage ==
  ASSUME TypeOK, SessionInv, posted # <<>>
  PROVE  Tail(posted) = <<>>
<1>1. posted \in Seq(Message) /\ Len(posted) = 1
  BY DEF TypeOK
<1>2. Tail(posted) \in Seq(Message) /\ Len(Tail(posted)) = 0
  BY <1>1
<1> QED BY <1>2, EmptySeq

\* What the end of a procedure leaves.
Returned(event) ==
    /\ pc' = "top" /\ proc' = "NONE" /\ held' = NothingHeld
    /\ ~WindowExists => posted' = <<>>
    /\ WindowExists =>
         posted' # <<>> /\ Len(posted') = 1 /\ Head(posted').event = event

\* The message of a procedure is the only one in the queue.
LEMMA FinishReturns ==
  ASSUME SessionInv, proc # "NONE", NEW event, NEW success \in BOOLEAN,
         Finish(event, success)
  PROVE  posted = <<>> /\ Returned(event)
  BY DEF Finish, Returned

\* A task whose process was created is the task of this session.
LEMMA TaskIsStarted ==
  ASSUME TypeOK, SessionInv, OnTunnelListening,
         uireq' = "MONITOR_TASK" \/ task' # task
  PROVE  /\ Monitor /\ task' = task + 1 /\ task' \in Id
         /\ uireq' = "MONITOR_TASK" => TaskStarted'
<1>0. posted # <<>> /\ uireq = "NONE"
  BY DEF OnTunnelListening, Pumping
<1>1. task + 1 \in Id
  <2>1. Posted("TunnelListening")
    BY <1>0 DEF OnTunnelListening
  <2> QED BY <2>1, ControllerAssumption DEF TypeOK, Id
<1>2. PICK started \in BOOLEAN :
         /\ Monitor /\ task' = task + 1
         /\ tasks' = [tasks EXCEPT ![task + 1] =
                        [state |-> IF started THEN "running" ELSE "failed",
                         session |-> session]]
         /\ must_monitor(started) \/ UNCHANGED uireq
  BY <1>0 DEF OnTunnelListening, Call
<1>3. tasks'[task'] = [state |-> IF started THEN "running" ELSE "failed",
                       session |-> session]
  BY <1>1, <1>2 DEF TypeOK
<1>4. UNCHANGED session
  BY DEF OnTunnelListening
<1> QED BY <1>0, <1>1, <1>2, <1>3, <1>4 DEF must_monitor

\* The handlers of the window thread keep the token single: each takes a message
\* and makes at most one call.
LEMMA SessionUi ==
  ASSUME Regime, TypeOK, SessionInv, UiStep
  PROVE  SessionInv'
<1>0. MaxSessions \in Nat
  BY ControllerAssumption
<1>1. CASE OnConnected
  \* The tunnel is replaced while no procedure runs.
  <2>1. posted' = <<>> /\ posted # <<>>
    BY <1>1, LastMessage DEF OnConnected
  <2> QED BY <1>0, <1>1, <2>1
          DEF OnConnected, Disconnect, Call, Pumping, TypeOK, Id
<1>2. CASE OnTunnelListening
  <2>1. posted' = <<>> /\ posted # <<>>
    BY <1>2, LastMessage DEF OnTunnelListening
  <2>2. /\ UNCHANGED <<ui, connect_shown, pc, proc, held, eventvars, wait_eot,
                       handle, portalvars, tunnelvars>>
        /\ uireq = "NONE" /\ ui # "modal"
        /\ Posted("TunnelListening")
    BY <1>2, <2>1 DEF OnTunnelListening, Pumping
  <2>3. CASE uireq' = "MONITOR_TASK" \/ task' # task
    <3>1. /\ Monitor /\ task' = task + 1 /\ task' \in Id
          /\ uireq' = "MONITOR_TASK" => TaskStarted'
      BY <1>2, <2>3, TaskIsStarted
    <3>2. uireq' \in {"NONE", "MONITOR_TASK"} /\ cont' = "pump"
      BY <1>2, <2>2, <2>3, <3>1 DEF OnTunnelListening, Call, Pumping, TypeOK
    <3> QED BY <1>0, <2>1, <2>2, <3>1, <3>2 DEF TypeOK, Id
  <2>4. CASE uireq' # "MONITOR_TASK" /\ task' = task
    <3>1. /\ UNCHANGED taskvars
          /\ \/ UNCHANGED <<uireq, cont>>
             \/ uireq' = "DISCONNECT" /\ cont' = "pump" /\ ~disconnect_enabled'
      <4>1. task + 1 # task /\ ui = "pump"
        BY <2>2, <1>2 DEF TypeOK, OnTunnelListening, Pumping
      <4> QED BY <1>2, <2>2, <2>4, <4>1 DEF OnTunnelListening, Call
    <3> QED BY <1>0, <2>1, <2>2, <3>1 DEF TypeOK, Id
  <2> QED BY <2>3, <2>4
<1>3. CASE OnDisconnected
  <2>1. posted' = <<>> /\ posted # <<>>
    BY <1>3, LastMessage DEF OnDisconnected
  <2> QED BY <1>3, <2>1 DEF OnDisconnected, Pumping
<1>4. CASE ShowDialog
  BY <1>4 DEF ShowDialog
<1>5. CASE AnswerDialog
  BY <1>5 DEF AnswerDialog
<1>6. CASE OnDisconnectRequest
  BY <1>6 DEF OnDisconnectRequest, Disconnect, Call
<1>7. CASE RequestAction
  \* The call becomes the pending action; that of WM_DESTROY may replace one.
  BY <1>7 DEF RequestAction, after, NothingHeld, TypeOK
<1>8. CASE LeaveLoop
  BY <1>8 DEF LeaveLoop, Call
<1>9. CASE Join
  BY <1>9 DEF Join
<1> QED BY <1>1, <1>2, <1>3, <1>4, <1>5, <1>6, <1>7, <1>8, <1>9 DEF UiStep

\* A click makes a token only when there is none: the buttons are the guard.
LEMMA SessionUser ==
  ASSUME Regime, TypeOK, SessionInv, User
  PROVE  SessionInv'
<1>1. CASE Connect
  BY <1>1 DEF Connect, Pumping, DisableControls, Call, NothingHeld, TypeOK, Id
<1>2. CASE ClickDisconnect
  BY <1>2 DEF ClickDisconnect, Pumping, Disconnect, Call
<1>3. CASE Destroy
  BY <1>3 DEF Destroy, Pumping, Disconnect, Call
<1> QED BY <1>1, <1>2, <1>3 DEF User

\* The controller turns the pending action into a procedure and the procedure
\* into a message.
LEMMA SessionController ==
  ASSUME Regime, TypeOK, SessionInv, Controller
  PROVE  SessionInv'
<1>1. CASE Top
  BY <1>1 DEF Top, SetReady
<1>2. CASE EnterWait
  \* The handle that is waited on is that of the current task.
  BY <1>2 DEF EnterWait
<1>3. CASE StartAction
  BY <1>3 DEF StartAction, Run, NothingHeld, TypeOK
<1>4. CASE TaskEnded
  BY <1>4 DEF TaskEnded, Run, NothingHeld, wait_eot_after_task
<1>5. CASE SyncConnectReturns
  <2>1. posted = <<>> /\ Returned("Connected")
    BY <1>5, FinishReturns DEF SyncConnectReturns, Running
  <2> QED BY <1>5, <2>1 DEF SyncConnectReturns, Running, Returned, WindowExists
<1>6. CASE SyncWaitTunnelReturns
  <2>1. posted = <<>> /\ Returned("TunnelListening")
    BY <1>6, FinishReturns DEF SyncWaitTunnelReturns, Running
  <2> QED BY <1>6, <2>1
          DEF SyncWaitTunnelReturns, Running, Returned, WindowExists
<1>7. CASE Logout
  <2>1. posted = <<>> /\ ~authenticated'
    BY <1>7 DEF Logout, Running, logged_in_after
  <2>2. \/ Returned("Disconnected")
        \/ /\ proc' \in {"WaitTunnel", "TerminateTunnel"} /\ held.tunnel # 0
           /\ UNCHANGED <<pc, held, posted>>
    BY <1>7, FinishReturns DEF Logout, Running, must_wait
  <2>3. held.tunnel = tunnel
    BY <1>7 DEF Logout, Running
  <2> QED BY <1>7, <2>1, <2>2, <2>3
          DEF Logout, Running, Returned, WindowExists
<1>8. CASE NoLogout
  \* The client is the current one, so it has no session.
  <2>1. posted = <<>> /\ Returned("Disconnected")
    BY <1>8, FinishReturns DEF NoLogout, Running
  <2> QED BY <1>8, <2>1
          DEF NoLogout, Running, IsAuthenticated, Returned, WindowExists
<1>9. CASE WaitTunnel
  <2>1. \/ posted = <<>> /\ Returned("Disconnected")
        \/ proc' = "TerminateTunnel" /\ UNCHANGED <<pc, held, posted>>
    BY <1>9, FinishReturns DEF WaitTunnel, Running
  <2> QED BY <1>9, <2>1 DEF WaitTunnel, Running, Returned, WindowExists
<1>10. CASE TerminateTunnel
  <2>1. posted = <<>> /\ Returned("Disconnected")
    BY <1>10, FinishReturns DEF TerminateTunnel, Running
  <2> QED BY <1>10, <2>1 DEF TerminateTunnel, Running, Returned, WindowExists
<1>11. CASE SyncWaitTaskReturns
  BY <1>11 DEF SyncWaitTaskReturns, Running, WindowExists
<1> QED BY <1>1, <1>2, <1>3, <1>4, <1>5, <1>6, <1>7, <1>8, <1>9, <1>10, <1>11
        DEF Controller

\* Tunnels, tasks and faults end tokens and make none.
LEMMA SessionEnvironment ==
  ASSUME TypeOK, SessionInv, Environment
  PROVE  SessionInv'
<1>1. CASE SyncConnectAsks
  BY <1>1 DEF SyncConnectAsks, Running, WindowExists
<1>2. CASE ProcedureThrows
  BY <1>2 DEF ProcedureThrows
<1>3. CASE \E t \in Id : TunnelEnds(t)
  BY <1>3 DEF TunnelEnds
<1>4. CASE \E k \in Id : TaskExits(k)
  BY <1>4 DEF TaskExits, TypeOK
<1>5. CASE CookieExpires
  BY <1>5 DEF CookieExpires
<1> QED BY <1>1, <1>2, <1>3, <1>4, <1>5 DEF Environment

\* The token stays single: the invariant from which the theorems below follow.
THEOREM SessionInvariance ==
  ASSUME Regime
  PROVE  Spec => []SessionInv
<1>1. TypeOK /\ SessionInv /\ [Next]_vars => SessionInv'
  <2> SUFFICES ASSUME TypeOK, SessionInv, [Next]_vars
               PROVE  SessionInv'
    OBVIOUS
  <2>1. CASE UNCHANGED vars
    BY <2>1 DEF vars
  <2> QED BY <2>1, SessionUi, SessionUser, SessionController, SessionEnvironment
          DEF Next, Done, Rest
<1>2. Init => SessionInv
  BY SessionInit
<1> HIDE DEF SessionInv
<1> QED BY <1>1, <1>2, TypeCorrect, PTL DEF Spec

\* A procedure of the controller thread never refers to a portal client, a
\* tunnel or a task that connect, create_tunnel or start_task has replaced.
THEOREM ProceduresAlive ==
  ASSUME Regime
  PROVE  Spec => []HeldAlive
<1>1. TypeOK /\ SessionInv => HeldAlive
  BY DEF HeldAlive, NothingHeld, TypeOK, Procedure
<1> HIDE DEF SessionInv
<1> QED BY <1>1, TypeCorrect, SessionInvariance, PTL

\* While Connect and Quit are enabled no session is being set up or in use.
THEOREM ButtonsRight ==
  ASSUME Regime
  PROVE  Spec => []ButtonsMatchSession
<1>1. SessionInv => ButtonsMatchSession
  BY DEF ButtonsMatchSession, SessionInProgress
<1> HIDE DEF SessionInv
<1> QED BY <1>1, SessionInvariance, PTL

\* The thread of the controller does not end by itself: the array it waits on
\* never holds the handle of a deleted task or of one that was not started, and
\* no request follows TERMINATE.
THEOREM EndedOnRequest ==
  ASSUME Regime, "exception" \notin Faults
  PROVE  Spec => []EndsOnRequest
<1>1. Init => EndsOnRequest
  BY DEF Init, EndsOnRequest
<1>2. TypeOK /\ SessionInv /\ EndsOnRequest /\ [Next]_vars => EndsOnRequest'
  <2> SUFFICES ASSUME TypeOK, SessionInv, EndsOnRequest, [Next]_vars
               PROVE  EndsOnRequest'
    OBVIOUS
  <2>1. CASE UNCHANGED <<pc, action>>
    BY <2>1 DEF EndsOnRequest
  <2>2. CASE UiStep
    <3>1. CASE RequestAction
      BY <3>1 DEF RequestAction, EndsOnRequest
    <3>2. CASE AnswerDialog
      BY <3>2 DEF AnswerDialog, EndsOnRequest
    <3> QED BY <2>1, <2>2, <3>1, <3>2
            DEF UiStep, OnConnected, OnTunnelListening, OnDisconnected,
                ShowDialog, OnDisconnectRequest, LeaveLoop, Join
  <2>3. CASE User
    BY <2>1, <2>3 DEF User, Connect, ClickDisconnect, Destroy
  <2>4. CASE Controller
    <3>1. CASE EnterWait
      BY <3>1 DEF EnterWait, EndsOnRequest
    <3>2. CASE StartAction
      BY <3>2 DEF StartAction, Run, EndsOnRequest
    <3>3. pc' = "ended" => EnterWait \/ StartAction
      BY <2>4 DEF Controller, Top, TaskEnded, Run, SyncConnectReturns,
         SyncWaitTunnelReturns, Logout, NoLogout, WaitTunnel, TerminateTunnel,
         SyncWaitTaskReturns, Running, Finish
    <3> QED BY <3>1, <3>2, <3>3 DEF EndsOnRequest
  <2>5. CASE Environment
    BY <2>5 DEF Environment, SyncConnectAsks, ProcedureThrows, TunnelEnds,
       TaskExits, CookieExpires, EndsOnRequest
  <2> QED BY <2>1, <2>2, <2>3, <2>4, <2>5 DEF Next, Done, Rest, vars
<1> HIDE DEF SessionInv
<1> QED BY <1>1, <1>2, TypeCorrect, SessionInvariance, PTL DEF Spec

\* Without WM_CLOSE, the window is destroyed only by the Quit button, with which
\* Connect is shown.
QuitByButton == cont = "quit" => connect_shown

\* The window thread never waits for the ready event while the controller is in
\* SendMessage: the end of a task is the only message whose handler makes a
\* request, and the ready event of that turn has not been taken.
THEOREM NeverBothWaiting ==
  ASSUME Regime, "close" \notin Faults
  PROVE  Spec => []NoMutualWait
<1>1. Init => QuitByButton
  BY DEF Init, QuitByButton
<1>2. SessionInv /\ QuitByButton /\ [Next]_vars => QuitByButton'
  <2> SUFFICES ASSUME SessionInv, QuitByButton, [Next]_vars
               PROVE  QuitByButton'
    OBVIOUS
  <2> USE DEF QuitByButton
  <2>1. CASE UNCHANGED uivars
    BY <2>1
  <2>2. CASE UiStep
    BY <2>2 DEF UiStep, OnConnected, Disconnect, OnTunnelListening, Pumping, Call,
       OnDisconnected, ShowDialog, AnswerDialog, OnDisconnectRequest,
       RequestAction, LeaveLoop, Join
  <2>3. CASE User
    BY <2>3 DEF User, Connect, ClickDisconnect, Destroy, Disconnect, Call
  <2>4. CASE Controller
    BY <2>1, <2>4 DEF Controller, Top, EnterWait, StartAction, TaskEnded,
       SyncConnectReturns, SyncWaitTunnelReturns, Logout, NoLogout, WaitTunnel,
       TerminateTunnel, SyncWaitTaskReturns
  <2>5. CASE Environment
    BY <2>1, <2>5 DEF Environment, SyncConnectAsks, ProcedureThrows, TunnelEnds,
       TaskExits, CookieExpires
  <2> QED BY <2>1, <2>2, <2>3, <2>4, <2>5 DEF Next, Done, Rest, vars
<1>3. SessionInv /\ QuitByButton => NoMutualWait
  BY DEF QuitByButton, NoMutualWait
<1> HIDE DEF SessionInv
<1> QED BY <1>1, <1>2, <1>3, SessionInvariance, PTL DEF Spec

-----------------------------------------------------------------------------
(***************************************************************************)
(* Tunnels                                                                 *)
(***************************************************************************)

\* A tunneler thread runs only for a session that is authenticated, or is being
\* stopped: so SyncDisconnect, which looks at the tunnel of an authenticated
\* client only, finds it.
TunnelInv ==
    /\ \A t \in Id : tunnels[t] = "running" =>
          t = tunnel /\ (authenticated \/ proc = "WaitTunnel" \/ pc = "ended")
    /\ Opening \/ connect_shown => \A t \in Id : tunnels[t] # "running"
    /\ Starting => authenticated
    /\ Posted("Connected") /\ Head(posted).success => authenticated

\* What the handlers of the window thread do to the tunnels: a tunnel is created
\* for an authenticated session, and Connect is shown after a disconnection.
LEMMA TunnelUi ==
  ASSUME TypeOK, SessionInv, UiStep
  PROVE  TunnelInv => TunnelInv'
<1> USE DEF TunnelInv
<1>1. CASE OnConnected
  <2>1. posted' = <<>> /\ posted # <<>>
    BY <1>1, LastMessage DEF OnConnected
  <2> QED BY <1>1, <2>1 DEF OnConnected, Disconnect, Call, Pumping, TypeOK, Id
<1>2. CASE OnTunnelListening
  <2>1. posted' = <<>> /\ posted # <<>>
    BY <1>2, LastMessage DEF OnTunnelListening
  <2> QED BY <1>2, <2>1 DEF OnTunnelListening, Call, Pumping
<1>3. CASE OnDisconnected
  <2>1. posted' = <<>> /\ posted # <<>>
    BY <1>3, LastMessage DEF OnDisconnected
  <2> QED BY <1>3, <2>1 DEF OnDisconnected, Pumping
<1>4. CASE ShowDialog
  BY <1>4 DEF ShowDialog
<1>5. CASE AnswerDialog
  BY <1>5 DEF AnswerDialog
<1>6. CASE OnDisconnectRequest
  BY <1>6 DEF OnDisconnectRequest, Disconnect, Call
<1>7. CASE RequestAction
  BY <1>7 DEF RequestAction, after, TypeOK
<1>8. CASE LeaveLoop
  BY <1>8 DEF LeaveLoop, Call
<1>9. CASE Join
  BY <1>9 DEF Join
<1> QED BY <1>1, <1>2, <1>3, <1>4, <1>5, <1>6, <1>7, <1>8, <1>9 DEF UiStep

\* A new session begins when no tunnel runs.
LEMMA TunnelUser ==
  ASSUME TypeOK, SessionInv, User
  PROVE  TunnelInv => TunnelInv'
<1> USE DEF TunnelInv
<1>1. CASE Connect
  BY <1>1 DEF Connect, Pumping, DisableControls, Call
<1>2. CASE ClickDisconnect
  BY <1>2 DEF ClickDisconnect, Pumping, Disconnect, Call
<1>3. CASE Destroy
  BY <1>3 DEF Destroy, Pumping, Disconnect, Call
<1> QED BY <1>1, <1>2, <1>3 DEF User

\* SyncDisconnect is the only procedure that ends the authentication, and it
\* goes on to stop the tunnel.
LEMMA TunnelController ==
  ASSUME TypeOK, SessionInv, Controller
  PROVE  TunnelInv => TunnelInv'
<1> USE DEF TunnelInv
<1>1. CASE Top
  BY <1>1 DEF Top
<1>2. CASE EnterWait
  BY <1>2 DEF EnterWait
<1>3. CASE StartAction
  BY <1>3 DEF StartAction, Run, TypeOK
<1>4. CASE TaskEnded
  BY <1>4 DEF TaskEnded, Run
<1>5. CASE SyncConnectReturns
  <2>1. PICK success \in BOOLEAN :
          /\ Finish("Connected", success)
          /\ \/ authenticated' = (authenticated \/ held.portal = session)
             \/ ~success /\ UNCHANGED authenticated
    BY <1>5 DEF SyncConnectReturns
  <2>2. posted = <<>> /\ Returned("Connected")
    BY <1>5, <2>1, FinishReturns DEF SyncConnectReturns, Running
  <2>3. Posted("Connected")' => Head(posted').success = success
    BY <2>1, <2>2 DEF Finish
  <2>4. held.portal = session
    BY <1>5 DEF SyncConnectReturns, Running, NothingHeld
  <2> QED BY <1>5, <2>1, <2>2, <2>3, <2>4
          DEF SyncConnectReturns, Running, Returned
<1>6. CASE SyncWaitTunnelReturns
  <2>1. posted = <<>> /\ Returned("TunnelListening")
    BY <1>6, FinishReturns DEF SyncWaitTunnelReturns, Running
  <2>2. held.tunnel = tunnel /\ proc = "SyncWaitTunnel"
    BY <1>6 DEF SyncWaitTunnelReturns, Running, NothingHeld
  <2>3. \A t \in Id : t # tunnel => tunnels'[t] = tunnels[t]
    BY <1>6, <2>2 DEF SyncWaitTunnelReturns, TypeOK
  <2> QED BY <1>6, <2>1, <2>2, <2>3 DEF SyncWaitTunnelReturns, Returned
<1>7. CASE Logout
  <2>1. /\ posted = <<>> /\ ~authenticated' /\ proc = "SyncDisconnect"
        /\ held.tunnel = tunnel /\ tunnel \in Nat
    BY <1>7 DEF Logout, Running, logged_in_after, TypeOK
  <2>2. \/ Returned("Disconnected") /\ tunnel = 0 /\ UNCHANGED tunnels
        \/ proc' = "WaitTunnel" /\ UNCHANGED <<pc, held, posted, tunnels>>
        \/ /\ proc' = "TerminateTunnel" /\ UNCHANGED <<pc, held, posted>>
           /\ tunnels' = IF tunnels[tunnel] = "running"
                         THEN [tunnels EXCEPT ![tunnel] = "terminating"]
                         ELSE tunnels
    BY <1>7, <2>1, FinishReturns DEF Logout, must_wait
  <2>3. /\ pc = "proc"
        /\ UNCHANGED <<uivars, action, request, session, tunnel>>
    BY <1>7 DEF Logout, Running
  <2>4. CASE Returned("Disconnected") /\ tunnel = 0 /\ UNCHANGED tunnels
    BY <2>1, <2>3, <2>4 DEF Returned, Id
  <2>5. CASE proc' = "WaitTunnel" /\ UNCHANGED <<pc, held, posted, tunnels>>
    BY <2>1, <2>3, <2>5
  <2>6. CASE /\ proc' = "TerminateTunnel" /\ UNCHANGED <<pc, held, posted>>
             /\ tunnels' = IF tunnels[tunnel] = "running"
                           THEN [tunnels EXCEPT ![tunnel] = "terminating"]
                           ELSE tunnels
    BY <2>1, <2>3, <2>6 DEF TypeOK
  <2> QED BY <2>2, <2>4, <2>5, <2>6
<1>8. CASE NoLogout
  <2>1. posted = <<>> /\ Returned("Disconnected")
    BY <1>8, FinishReturns DEF NoLogout, Running
  <2> QED BY <1>8, <2>1 DEF NoLogout, Running, IsAuthenticated, Returned
<1>9. CASE WaitTunnel
  <2>1. /\ proc = "WaitTunnel" /\ pc = "proc" /\ posted = <<>>
        /\ held.tunnel = tunnel /\ tunnel \in Nat
    BY <1>9 DEF WaitTunnel, Running, TypeOK
  <2>2. \/ /\ Returned("Disconnected") /\ UNCHANGED tunnels
           /\ tunnels[tunnel] = "ended"
        \/ /\ proc' = "TerminateTunnel" /\ UNCHANGED <<pc, held, posted>>
           /\ tunnels' = IF tunnels[tunnel] = "running"
                         THEN [tunnels EXCEPT ![tunnel] = "terminating"]
                         ELSE tunnels
    BY <1>9, <2>1, FinishReturns DEF WaitTunnel
  <2> QED BY <1>9, <2>1, <2>2 DEF WaitTunnel, Returned, TypeOK
<1>10. CASE TerminateTunnel
  <2>1. posted = <<>> /\ Returned("Disconnected")
    BY <1>10, FinishReturns DEF TerminateTunnel, Running
  <2> QED BY <1>10, <2>1 DEF TerminateTunnel, Running, Returned, gives_up
<1>11. CASE SyncWaitTaskReturns
  BY <1>11 DEF SyncWaitTaskReturns, Running
<1> QED BY <1>1, <1>2, <1>3, <1>4, <1>5, <1>6, <1>7, <1>8, <1>9, <1>10, <1>11
        DEF Controller

\* The cookie that expires is the one fault that leaves a tunnel alone.
LEMMA TunnelEnvironment ==
  ASSUME TypeOK, SessionInv, Environment
  PROVE  TunnelInv /\ "expire" \notin Faults => TunnelInv'
<1> USE DEF TunnelInv
<1>1. CASE SyncConnectAsks
  BY <1>1 DEF SyncConnectAsks, Running
<1>2. CASE ProcedureThrows
  BY <1>2 DEF ProcedureThrows
<1>3. CASE \E t \in Id : TunnelEnds(t)
  BY <1>3 DEF TunnelEnds, TypeOK
<1>4. CASE \E k \in Id : TaskExits(k)
  BY <1>4 DEF TaskExits
<1>5. CASE CookieExpires
  BY <1>5 DEF CookieExpires
<1> QED BY <1>1, <1>2, <1>3, <1>4, <1>5 DEF Environment

\* Unless a cookie expires, a tunnel that runs is that of the session in use.
LEMMA TunnelInvariance ==
  ASSUME Regime, "expire" \notin Faults
  PROVE  Spec => []TunnelInv
<1>1. Init => TunnelInv
  BY DEF Init, TunnelInv
<1>2. TypeOK /\ SessionInv /\ TunnelInv /\ [Next]_vars => TunnelInv'
  <2> SUFFICES ASSUME TypeOK, SessionInv, TunnelInv, [Next]_vars
               PROVE  TunnelInv'
    OBVIOUS
  <2>1. CASE UNCHANGED vars
    BY <2>1 DEF vars, TunnelInv
  <2> HIDE DEF SessionInv
  <2> QED BY <2>1, TunnelUi, TunnelUser, TunnelController, TunnelEnvironment
          DEF Next, Done, Rest
<1> HIDE DEF SessionInv
<1> QED BY <1>1, <1>2, TypeCorrect, SessionInvariance, PTL DEF Spec

\* Unless a cookie expires, no tunnel runs once the user can connect again,
\* whatever else fails: SyncDisconnect has told the last one to end.
THEOREM TunnelsStopped ==
  ASSUME Regime, "expire" \notin Faults
  PROVE  Spec => []DisconnectStopsTunnel
<1>1. TunnelInv => DisconnectStopsTunnel
  BY DEF TunnelInv, DisconnectStopsTunnel
<1> QED BY <1>1, TunnelInvariance, PTL
=============================================================================
