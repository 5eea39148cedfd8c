---------------------------- MODULE FirewallClient ----------------------------
(***************************************************************************)
(* fw::FirewallClient (src/src/fw/FirewallClient.cpp) and the procedures   *)
(* that drive it, SyncConnect and SyncDisconnect: the dialogue with the    *)
(* portal of the firewall, from the opening of the connection to logout.   *)
(*                                                                         *)
(* pc is the point the controller thread has reached: it waits for the     *)
(* user ("confirm", "ask", "code", "saml"), for the next procedure         *)
(* ("connected", "notconnected"), or is inside a request, whose steps are  *)
(* those of HttpsClient.  What an answer says is chosen when it has been   *)
(* read: its status, what it does to the session cookie, and the result of *)
(* a login check.                                                          *)
(***************************************************************************)
EXTENDS HttpsClient

VARIABLES
    pc,
    call,        \* the request in progress and the redirects it may still follow
    digest,      \* _peer_crt_digest
    jar,         \* SVPNCOOKIE in _cookie_jar: "none", "valid" or "expired"
    configured   \* history: get_config has succeeded in this session

portal == <<call, digest, jar, configured>>
vars == <<httpsVars, pc, portal>>

NoCall == [what |-> "none", redir |-> 0]

\* _auth_method, which one switch of SyncConnect reads.
AuthMethods == {"basic", "saml", "certificate"}

PortalInit ==
    /\ pc = "start" /\ call = NoCall /\ digest = NoCrt /\ jar = "none"
    /\ configured = FALSE

Init == HttpsInit /\ PortalInit

is_authenticated == jar = "valid"

-----------------------------------------------------------------------------
(***************************************************************************)
(* One request                                                             *)
(***************************************************************************)
Goto(p) == pc' = p /\ call' = NoCall /\ ex' = "none"

Call(what, redir) ==
    pc' = "request" /\ call' = [what |-> what, redir |-> redir] /\ ex' = "start"

\* send_and_receive: a connection that may not be used any more is closed and
\* opened again.
before_connect_Missing == UNCHANGED conn         \* mutant: no disconnect()
before_connect == disconnect

StartRequest ==
    /\ pc = "request" /\ ex = "start"
    /\ IF is_reconnection_required
       THEN before_connect /\ ex' = "connect"
       ELSE UNCHANGED conn /\ ex' = "send"
    /\ UNCHANGED <<client, rd, pc, portal>>

\* The new connection is used only if it shows the certificate of the first.
crt_matches_Any == peer # NoCrt                  \* mutant: no comparison
crt_matches == peer = digest

Reconnected ==
    /\ pc = "request" /\ ex = "connected"
    /\ ex' = IF crt_matches THEN "send" ELSE "error"
    /\ UNCHANGED <<conn, client, rd, pc, portal>>

Transport ==
    /\ \/ \E crt \in Crts : Connect(crt)
       \/ ConnectFails
       \/ SendRequest \/ SendFails
       \/ Read
    /\ UNCHANGED <<pc, portal>>

Statuses == {"ok", "denied", "other"}
CookieEffects == {"keep", "set", "remove"}

\* do_request stores a secure cookie and removes one that is expired.
Stored(effect) ==
    CASE effect = "set" -> "valid"
      [] effect = "remove" -> "none"
      [] OTHER -> jar

\* do_request closes the connection after any failure.
on_failure_Keep == UNCHANGED conn                \* mutant: no disconnect()
on_failure == disconnect

next_redir_Same(redir) == redir                  \* mutant: not counted
next_redir(redir) == redir - 1

\* A redirection with a Location is followed while the call allows it.
may_follow(redir) == redir > 0

Redirected(effect) ==
    /\ pc = "request" /\ ex = "answered"
    /\ may_follow(call.redir)
    /\ jar' = Stored(effect)
    /\ Call(call.what, next_redir(call.redir))
    /\ UNCHANGED <<conn, client, rd, digest, configured>>

\* send_request returns false: the exchange has failed, or there has been one
\* redirection too many (the connection then stays open).
SendRequestFails(effect) ==
    /\ pc = "request"
    /\ \/ ex = "error" /\ on_failure /\ jar' = jar
       \/ ex = "answered" /\ call.redir = 0 /\ UNCHANGED conn /\ jar' = Stored(effect)
    /\ UNCHANGED <<client, rd, digest>>

\* send_request returns true; "other" stands for every other status, a
\* redirection without Location included.
SendRequestOk(effect) ==
    /\ pc = "request" /\ ex = "answered"
    /\ jar' = Stored(effect)
    /\ UNCHANGED <<conn, client, rd, digest>>

Returns(status, effect) ==
    IF status = "failed" THEN SendRequestFails(effect) ELSE SendRequestOk(effect)

-----------------------------------------------------------------------------
(***************************************************************************)
(* SyncConnect                                                             *)
(***************************************************************************)
\* Result of SyncConnect when the portal has been opened.
Exit == Goto(IF fd' /\ jar' = "valid" THEN "connected" ELSE "notconnected")

\* After the login, successful or not.
AfterLogin == IF jar' = "valid" THEN Call("info", 0) ELSE Exit

StartSyncConnect ==
    /\ pc = "start"
    /\ pc' = "open" /\ ex' = "connect"
    /\ UNCHANGED <<conn, client, rd, portal>>

OpenFails ==
    /\ pc = "open" /\ ex = "error"
    /\ Goto("notconnected")
    /\ UNCHANGED <<conn, client, rd, digest, jar, configured>>

\* The certificate is valid, or the user takes it for valid.
TopPage ==
    /\ digest' = peer
    /\ Call("top", 2)
    /\ UNCHANGED <<conn, client, rd, jar, configured>>

CrtValid == pc = "open" /\ ex = "connected" /\ TopPage

CrtDoubtful ==
    /\ pc = "open" /\ ex = "connected"
    /\ Goto("confirm")
    /\ UNCHANGED <<conn, client, rd, digest, jar, configured>>

CrtConfirmed == pc = "confirm" /\ TopPage

CrtRefused ==
    /\ pc = "confirm"
    /\ Goto("notconnected")
    /\ UNCHANGED <<conn, client, rd, digest, jar, configured>>

TopReturns(status, effect) ==
    /\ call.what = "top"
    /\ Returns(status, effect)
    /\ IF status # "ok" THEN Goto("notconnected")
       ELSE \E method \in AuthMethods :
                \/ method = "basic" /\ Call("login", 0)
                \/ method = "saml" /\ Goto("saml")
                \/ method = "certificate" /\ AfterLogin
    /\ UNCHANGED configured

\* login_saml: the browser dialog fills the cookie jar, or is closed.
SamlReturns(cookie) ==
    /\ pc = "saml"
    /\ jar' = IF cookie THEN "valid" ELSE jar
    /\ UNCHANGED <<conn, client, rd, digest, configured>>
    /\ AfterLogin

\* login_basic: the login page, then the credentials of the user.
LoginReturns(status, effect) ==
    /\ call.what = "login"
    /\ Returns(status, effect)
    /\ IF status = "ok" /\ jar' # "valid" THEN Goto("ask") ELSE AfterLogin
    /\ UNCHANGED configured

\* ask_credential
Credentials(given) ==
    /\ pc = "ask"
    /\ UNCHANGED <<conn, client, rd, digest, jar, configured>>
    /\ IF given THEN Call("check", 0) ELSE AfterLogin

\* try_login_check and what login_basic does with its result: access is
\* allowed, denied (SyncConnect tries again), or a code is wanted.
Rets == {"allow", "deny", "code", "renew"}

CheckReturns(status, effect, ret) ==
    /\ call.what = "check"
    /\ Returns(status, effect)
    /\ \/ status \in {"failed", "other"} /\ AfterLogin
       \/ /\ status \in {"ok", "denied"}
          /\ \/ ret = "allow" /\ Call("redir", 0)
             \/ ret = "deny" /\ Call("login", 0)
             \/ ret = "code" /\ Goto("code")
             \/ ret = "renew" /\ AfterLogin
    /\ UNCHANGED configured

\* ask_code
Code(given) ==
    /\ pc = "code"
    /\ UNCHANGED <<conn, client, rd, digest, jar, configured>>
    /\ IF given THEN Call("check", 0) ELSE AfterLogin

\* The page that sets the session cookie; its status is not looked at.
RedirReturns(status, effect) ==
    /\ call.what = "redir"
    /\ Returns(status, effect)
    /\ AfterLogin
    /\ UNCHANGED configured

\* get_info, then get_config (which first tests the cookie again); any failure
\* goes to the end of SyncConnect.
InfoReturns(status, effect) ==
    /\ call.what = "info"
    /\ Returns(status, effect)
    /\ IF status = "ok" /\ jar' = "valid" THEN Call("config", 0) ELSE Exit
    /\ UNCHANGED configured

ConfigReturns(status, effect, parsed) ==
    /\ call.what = "config"
    /\ Returns(status, effect)
    /\ configured' = (status = "ok" /\ parsed)
    /\ Exit

-----------------------------------------------------------------------------
(***************************************************************************)
(* SyncDisconnect                                                          *)
(***************************************************************************)
StartSyncDisconnect ==
    /\ pc \in {"connected", "notconnected"}
    /\ IF is_authenticated
       THEN Call("logout", 0) /\ UNCHANGED conn
       ELSE Goto("closed") /\ disconnect
    /\ UNCHANGED <<client, rd, digest, jar, configured>>

\* logout() empties the cookie jar whatever the result; the connection is
\* closed.
LogoutJar_OnSuccess(ok) == IF ok THEN "none" ELSE jar   \* mutant: cleared on success
LogoutJar(ok) == "none"

LogoutReturns(ok) ==
    /\ call.what = "logout" /\ pc = "request"
    /\ ex = "answered" \/ (ex = "error" /\ ~ok)
    /\ jar' = LogoutJar(ok)
    /\ disconnect
    /\ Goto("closed")
    /\ UNCHANGED <<client, rd, digest, configured>>

\* AsyncController::connect replaces the client by a new one.
NewClient ==
    /\ pc = "closed"
    /\ UNCHANGED conn
    /\ count' = 0 /\ max' = DefaultMax /\ timeout' = DefaultTimeout
    /\ ka' = DefaultTimeout /\ idle' = 0 /\ rd' = NoAnswer
    /\ pc' = "start" /\ call' = NoCall /\ ex' = "none"
    /\ digest' = NoCrt /\ jar' = "none" /\ configured' = FALSE

-----------------------------------------------------------------------------
\* The cookie may expire, and time pass, in a dialog, in the session and during
\* a request, however slow the portal is.
CookieExpires ==
    /\ jar = "valid"
    /\ jar' = "expired"
    /\ UNCHANGED <<httpsVars, pc, call, digest, configured>>

Environment ==
    /\ Server \/ Tick
    /\ UNCHANGED <<pc, portal>>

Results == Statuses \cup {"failed"}

\* The steps of the controller thread that do not wait for the user.
Client ==
    \/ StartRequest \/ Reconnected \/ Transport
    \/ OpenFails \/ CrtValid \/ CrtDoubtful
    \/ \E effect \in CookieEffects :
          \/ Redirected(effect)
          \/ \E status \in Results :
                \/ TopReturns(status, effect) \/ LoginReturns(status, effect)
                \/ RedirReturns(status, effect) \/ InfoReturns(status, effect)
                \/ \E ret \in Rets : CheckReturns(status, effect, ret)
                \/ \E parsed \in BOOLEAN : ConfigReturns(status, effect, parsed)
    \/ \E ok \in BOOLEAN : LogoutReturns(ok)

User ==
    \/ StartSyncConnect \/ StartSyncDisconnect \/ NewClient
    \/ CrtConfirmed \/ CrtRefused
    \/ \E given \in BOOLEAN : Credentials(given) \/ Code(given) \/ SamlReturns(given)

Next == Client \/ User \/ CookieExpires \/ Environment

Spec == Init /\ [][Next]_vars

\* The controller thread runs; every read and every connection has a timeout.
FairSpec == Spec /\ WF_vars(Client)

-----------------------------------------------------------------------------
(***************************************************************************)
(* Properties                                                              *)
(***************************************************************************)
\* What do_request returns as the answer is the answer to the request it has
\* just sent, with its own body from the first block to the last (or to the
\* MAX_BODY_SIZE of them that are kept): nothing of a late or
\* half read answer of an earlier request is ever taken for it, although the
\* connection is kept alive.
AnswerMatches ==
    ex = "answered" =>
        /\ rd.of = "new"
        /\ Len(rd.body) = IF rd.size < MaxBody THEN rd.size ELSE MaxBody
        /\ \A i \in 1..Len(rd.body) :
              rd.body[i].of = "new" /\ rd.body[i].part = "body" /\ rd.body[i].size = i

\* A request (credentials and cookies with it) is only sent, and an answer only
\* taken, on a connection whose certificate is the one that was accepted when
\* the portal was opened, through every reconnection.
ConfirmedPeer ==
    (pc = "request" /\ ex \notin {"start", "connect", "connected", "error"})
        => fd /\ peer = digest /\ digest \in Crts

\* connect() is never called on a socket that has a descriptor, which it would
\* refuse for ever.
ConnectOnClosed == ex = "connect" => ~fd

\* After SyncDisconnect no session cookie is left that could still be used,
\* even if logout could not reach the portal.
NoCookieLeft == pc = "closed" => jar # "valid" /\ ~fd

\* SyncConnect reports a session as connected only after get_config, which "is
\* mandatory because the FortiGate will not provide an IP address otherwise"
\* (FirewallClient.cpp).
SessionConfigured == pc = "connected" => configured

\* An answer whose body "exceeds configured size limits" (Answer.h) is an error:
\* what is accepted is the whole body.
BodyComplete == ex = "answered" => Len(rd.body) = rd.size

\* A kept connection is used again only within the Keep-Alive timeout of the
\* last answer.
ReuseWithinTimeout ==
    [][(ex = "start" /\ ex' = "send") => idle <= timeout]_vars

\* Every procedure comes to an end or to a question to the user: no answer, no
\* sequence of redirections and no reconnection keeps it for ever.
RequestEnds == pc \in {"open", "request"} ~> pc \notin {"open", "request"}
=============================================================================
