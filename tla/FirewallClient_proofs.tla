------------------------- MODULE FirewallClient_proofs -------------------------
(***************************************************************************)
(* Proofs about FirewallClient, for every set of certificates, every       *)
(* Keep-Alive parameter and every bound on the answers.                    *)
(*                                                                         *)
(* The properties speak of one moment of a request; the invariant that     *)
(* carries them follows the connection through the questions to the user   *)
(* and the end of SyncConnect: a descriptor that is open between two       *)
(* requests always belongs to the accepted certificate.                    *)
(***************************************************************************)
EXTENDS FirewallClient, SequenceTheorems, TLAPS

Jars == {"none", "valid", "expired"}
Opening == {"connect", "connected", "error"}
Goals == {"ask", "code", "saml", "connected", "notconnected"}

\* Points from which another request may be sent.
Talking == pc \in {"request", "ask", "code", "saml", "connected"}
           \/ (pc = "notconnected" /\ jar = "valid")

\* The exchange and the connection: which steps have a descriptor.
ConnInv ==
    /\ peer \in Crts \cup {NoCrt}
    /\ pc \notin {"open", "request"} => ex = "none"
    /\ pc = "open" => ex \in Opening
    /\ ex = "connect" => ~fd
    /\ ex = "connected" => peer \in Crts /\ fd
    /\ pc = "confirm" => peer \in Crts
    /\ pc \in {"start", "closed"} => ~fd
    /\ (pc = "request" /\ ex \notin Opening \cup {"start"}) => fd

\* The session cookie: there is none before the portal is opened, and none that
\* is valid after the end.
JarInv ==
    /\ jar \in Jars
    /\ pc \in {"start", "open", "confirm"} => jar = "none"
    /\ pc = "closed" => jar # "valid"

\* The accepted certificate.
DigestInv ==
    /\ Talking => digest \in Crts
    /\ (Talking /\ ex \notin Opening /\ fd) => peer = digest

PInv == ConnInv /\ JarInv /\ DigestInv

-----------------------------------------------------------------------------
\* A new client has no connection, no cookie and no digest.
LEMMA InitPInv == Init => PInv
  BY DEF Init, HttpsInit, PortalInit, PInv, ConnInv, JarInv, DigestInv, Talking,
         Jars, Opening

\* What the invariant says inside a request.
LEMMA InRequest ==
    ASSUME PInv, pc = "request"
    PROVE  /\ digest \in Crts /\ jar \in Jars /\ peer \in Crts \cup {NoCrt}
           /\ ex \notin Opening \cup {"start"} => fd /\ peer = digest
           /\ ex = "start" /\ fd => peer = digest
           /\ ex = "connect" => ~fd
           /\ ex = "connected" => peer \in Crts /\ fd
  BY DEF PInv, ConnInv, JarInv, DigestInv, Talking, Opening

\* A step that leaves a connection of the accepted certificate, or none, and
\* goes to the next request, to the user or to the end of SyncConnect.
LEMMA Continue ==
    ASSUME digest' \in Crts, jar' \in Jars, peer' \in Crts \cup {NoCrt},
           fd' => peer' = digest',
           \/ \E what, redir : Call(what, redir)
           \/ \E p \in Goals : Goto(p)
    PROVE  PInv'
<1>1. \/ pc' = "request" /\ ex' = "start"
      \/ pc' \in Goals /\ ex' = "none"
  BY DEF Call, Goto
<1>2. ConnInv'
  BY <1>1 DEF ConnInv, Goals, Opening
<1>3. JarInv'
  BY <1>1 DEF JarInv, Goals
<1>4. DigestInv'
  BY <1>1 DEF DigestInv, Opening
<1> QED
  BY <1>2, <1>3, <1>4 DEF PInv

\* What a call finds when send_request returns.
LEMMA AfterReturns ==
    ASSUME PInv, NEW status, NEW effect, Returns(status, effect)
    PROVE  /\ digest' \in Crts /\ jar' \in Jars /\ peer' \in Crts \cup {NoCrt}
           /\ fd' => peer' = digest'
<1>1. pc = "request"
  BY DEF Returns, SendRequestFails, SendRequestOk
<1>2. Stored(effect) \in Jars
  BY <1>1, InRequest DEF Stored, Jars
<1>3. CASE ex = "error" /\ on_failure /\ jar' = jar /\ digest' = digest
  BY <1>1, <1>3, InRequest DEF on_failure, disconnect
<1>4. CASE ex = "answered" /\ UNCHANGED conn /\ jar' = Stored(effect) /\ digest' = digest
  BY <1>1, <1>2, <1>4, InRequest DEF conn, Opening
<1> QED
  BY <1>3, <1>4 DEF Returns, SendRequestFails, SendRequestOk

-----------------------------------------------------------------------------
\* send_and_receive up to the request: a connection that is kept has the
\* accepted certificate, a new one is compared with it.
LEMMA ConnectSteps ==
    ASSUME PInv, StartRequest \/ Reconnected
    PROVE  PInv'
<1>1. CASE StartRequest
  <2>1. /\ pc = "request" /\ ex = "start" /\ pc' = pc
        /\ digest' = digest /\ jar' = jar
        /\ \/ fd' = FALSE /\ peer' = NoCrt /\ ex' = "connect"
           \/ fd /\ fd' = fd /\ peer' = peer /\ ex' = "send"
    BY <1>1 DEF StartRequest, before_connect, disconnect, is_reconnection_required,
                conn, portal
  <2> QED
    BY <2>1, InRequest DEF PInv, ConnInv, JarInv, DigestInv, Talking, Opening, Jars
<1>2. CASE Reconnected
  <2>1. /\ pc = "request" /\ ex = "connected" /\ pc' = pc
        /\ digest' = digest /\ jar' = jar /\ fd' = fd /\ peer' = peer
        /\ ex' \in {"send", "error"} /\ (ex' = "send" => peer = digest)
    BY <1>2 DEF Reconnected, crt_matches, conn, portal
  <2> QED
    BY <2>1, InRequest DEF PInv, ConnInv, JarInv, DigestInv, Talking, Opening, Jars
<1> QED
  BY <1>1, <1>2

\* The steps of HttpsClient.
LEMMA TransportStep ==
    ASSUME PInv, Transport
    PROVE  PInv'
<1>1. pc' = pc /\ digest' = digest /\ jar' = jar
  BY DEF Transport, portal
<1>2. CASE (\E crt \in Crts : Connect(crt)) \/ ConnectFails
  <2>1. /\ ex = "connect" /\ ~fd
        /\ \/ fd' = TRUE /\ peer' \in Crts /\ ex' = "connected"
           \/ peer' = peer /\ ex' = "error"
    BY <1>2 DEF Connect, ConnectFails, conn, PInv, ConnInv
  <2> QED
    BY <1>1, <2>1 DEF PInv, ConnInv, JarInv, DigestInv, Talking, Opening
<1>3. CASE SendRequest \/ SendFails \/ Read
  <2>1. /\ ex \notin Opening \cup {"start", "none"}
        /\ ex' \notin {"connect", "connected", "start", "none"}
        /\ fd' = fd /\ peer' = peer
    <3>1. CASE SendRequest \/ SendFails
      BY <3>1 DEF SendRequest, SendFails, conn, Opening
    <3>2. CASE Read
      BY <3>2 DEF Read, ReadHead, AfterHead, ReadBlock, ReadSize, ReadChunk, ReadEol,
                  ReadMalformed, ReadEof, ReadTimeout, RecvAnswer, Reading, conn, Opening
    <3> QED
      BY <1>3, <3>1, <3>2
  <2> QED
    BY <1>1, <2>1 DEF PInv, ConnInv, JarInv, DigestInv, Talking, Opening
<1> QED
  BY <1>2, <1>3 DEF Transport

\* The opening of the portal, up to the top page.
LEMMA OpenSteps ==
    ASSUME PInv,
           \/ StartSyncConnect \/ OpenFails
           \/ CrtValid \/ CrtDoubtful \/ CrtConfirmed \/ CrtRefused
    PROVE  PInv'
<1>1. CASE StartSyncConnect
  BY <1>1 DEF StartSyncConnect, conn, portal, PInv, ConnInv, JarInv, DigestInv,
              Talking, Opening
<1>2. CASE OpenFails \/ CrtDoubtful \/ CrtRefused
  BY <1>2 DEF OpenFails, CrtDoubtful, CrtRefused, Goto, conn, PInv, ConnInv, JarInv,
              DigestInv, Talking, Opening, Jars
<1>3. CASE CrtValid \/ CrtConfirmed
  <2>1. /\ peer \in Crts /\ jar \in Jars
        /\ digest' = peer /\ peer' = peer /\ jar' = jar
        /\ Call("top", 2)
    BY <1>3 DEF CrtValid, CrtConfirmed, TopPage, conn, PInv, ConnInv, JarInv
  <2> QED
    BY <2>1, Continue
<1> QED
  BY <1>1, <1>2, <1>3

\* The calls of SyncConnect.
LEMMA ReturnSteps ==
    ASSUME PInv, NEW status, NEW effect, NEW ret, NEW parsed,
           \/ TopReturns(status, effect) \/ LoginReturns(status, effect)
           \/ RedirReturns(status, effect) \/ InfoReturns(status, effect)
           \/ CheckReturns(status, effect, ret)
           \/ ConfigReturns(status, effect, parsed)
    PROVE  PInv'
<1>1. Returns(status, effect)
  BY DEF TopReturns, LoginReturns, RedirReturns, InfoReturns, CheckReturns, ConfigReturns
<1>2. \/ \E what, redir : Call(what, redir)
      \/ \E p \in Goals : Goto(p)
  <2>1. Exit => \E p \in Goals : Goto(p)
    BY DEF Exit, Goals
  <2>2. AfterLogin => \/ \E what, redir : Call(what, redir)
                      \/ \E p \in Goals : Goto(p)
    BY <2>1 DEF AfterLogin
  <2>3. \A p \in {"notconnected", "saml", "ask", "code"} : p \in Goals
    BY DEF Goals
  <2>4. CASE TopReturns(status, effect)
    BY <2>2, <2>3, <2>4 DEF TopReturns
  <2>5. CASE LoginReturns(status, effect) \/ RedirReturns(status, effect)
    BY <2>2, <2>3, <2>5 DEF LoginReturns, RedirReturns
  <2>6. CASE InfoReturns(status, effect) \/ ConfigReturns(status, effect, parsed)
    BY <2>1, <2>6 DEF InfoReturns, ConfigReturns
  <2>7. CASE CheckReturns(status, effect, ret)
    BY <2>2, <2>3, <2>7 DEF CheckReturns
  <2> QED
    BY <2>4, <2>5, <2>6, <2>7
<1> QED
  BY <1>1, <1>2, AfterReturns, Continue

\* A redirection that is followed, and the answers of the user.
LEMMA UserSteps ==
    ASSUME PInv, NEW effect, NEW given,
           \/ Redirected(effect) \/ Credentials(given) \/ Code(given) \/ SamlReturns(given)
    PROVE  PInv'
<1>1. \/ \E what, redir : Call(what, redir)
      \/ \E p \in Goals : Goto(p)
  <2>1. AfterLogin => \/ \E what, redir : Call(what, redir)
                      \/ \E p \in Goals : Goto(p)
    BY DEF AfterLogin, Exit, Goals
  <2> QED
    BY <2>1 DEF Redirected, Credentials, Code, SamlReturns
<1>2. /\ digest \in Crts /\ jar \in Jars /\ peer \in Crts \cup {NoCrt}
      /\ fd => peer = digest
  <2>1. CASE pc = "request" /\ ex = "answered"
    BY <2>1, InRequest DEF Opening
  <2>2. CASE pc \in {"ask", "code", "saml"}
    BY <2>2 DEF PInv, ConnInv, JarInv, DigestInv, Talking, Opening
  <2> QED
    BY <2>1, <2>2 DEF Redirected, Credentials, Code, SamlReturns
<1>3. digest' = digest /\ peer' = peer /\ fd' = fd
  BY DEF Redirected, Credentials, Code, SamlReturns, conn
<1>4. jar' \in Jars
  BY <1>2 DEF Redirected, Credentials, Code, SamlReturns, Stored, Jars
<1> QED
  BY <1>1, <1>2, <1>3, <1>4, Continue

\* The end of a session and the next client.
LEMMA EndSteps ==
    ASSUME PInv,
           StartSyncDisconnect \/ NewClient \/ \E ok \in BOOLEAN : LogoutReturns(ok)
    PROVE  PInv'
<1>1. CASE StartSyncDisconnect
  <2>1. CASE is_authenticated
    <3>1. /\ Call("logout", 0) /\ digest' = digest /\ jar' = jar
          /\ fd' = fd /\ peer' = peer
          /\ pc \in {"connected", "notconnected"} /\ jar = "valid"
      BY <1>1, <2>1 DEF StartSyncDisconnect, is_authenticated, conn
    <3>2. digest \in Crts /\ peer \in Crts \cup {NoCrt} /\ (fd => peer = digest)
      BY <3>1 DEF PInv, ConnInv, DigestInv, Talking, Opening
    <3> QED
      BY <3>1, <3>2, Continue DEF Jars
  <2>2. CASE ~is_authenticated
    BY <1>1, <2>2 DEF StartSyncDisconnect, is_authenticated, Goto, disconnect, PInv,
                      ConnInv, JarInv, DigestInv, Talking, Opening, Jars
  <2> QED
    BY <2>1, <2>2
<1>2. CASE NewClient
  BY <1>2 DEF NewClient, conn, PInv, ConnInv, JarInv, DigestInv, Talking, Opening, Jars
<1>3. CASE \E ok \in BOOLEAN : LogoutReturns(ok)
  BY <1>3 DEF LogoutReturns, LogoutJar, Goto, disconnect, PInv, ConnInv, JarInv,
              DigestInv, Talking, Opening, Jars
<1> QED
  BY <1>1, <1>2, <1>3

\* The portal, the clock and the cookie.
LEMMA EnvironmentSteps ==
    ASSUME PInv, Environment \/ CookieExpires \/ UNCHANGED vars
    PROVE  PInv'
<1>1. /\ fd' = fd /\ peer' = peer /\ ex' = ex /\ pc' = pc /\ digest' = digest
      /\ jar' = jar \/ (jar = "valid" /\ jar' = "expired")
  BY DEF Environment, Server, ServerAnswers, ServerCloses, Tick, CookieExpires,
         conn, client, httpsVars, portal, vars
<1> QED
  BY <1>1 DEF PInv, ConnInv, JarInv, DigestInv, Talking, Opening, Jars

\* Every step keeps the invariant.
LEMMA NextPInv == PInv /\ [Next]_vars => PInv'
<1> SUFFICES ASSUME PInv, [Next]_vars PROVE PInv'
  OBVIOUS
<1>1. CASE Client
  BY <1>1, ConnectSteps, TransportStep, OpenSteps, ReturnSteps, UserSteps, EndSteps
     DEF Client
<1>2. CASE User
  BY <1>2, OpenSteps, UserSteps, EndSteps DEF User
<1>3. CASE CookieExpires \/ Environment \/ UNCHANGED vars
  BY <1>3, EnvironmentSteps
<1> QED
  BY <1>1, <1>2, <1>3 DEF Next

\* The invariant holds for ever.
LEMMA AlwaysPInv == Spec => []PInv
  BY InitPInv, NextPInv, PTL DEF Spec

-----------------------------------------------------------------------------
\* FirewallClient::send_and_receive sends every request, and takes every answer,
\* on a connection with the certificate that was accepted by open(), whatever
\* was closed, timed out or reopened in between.
THEOREM PeerConfirmed == Spec => []ConfirmedPeer
<1>1. PInv => ConfirmedPeer
  BY InRequest DEF ConfirmedPeer, Opening
<1> QED
  BY <1>1, AlwaysPInv, PTL

\* HttpsClient::connect is never called on a socket that has a descriptor.
THEOREM ConnectsClosed == Spec => []ConnectOnClosed
<1>1. PInv => ConnectOnClosed
  BY DEF PInv, ConnInv, ConnectOnClosed
<1> QED
  BY <1>1, AlwaysPInv, PTL

\* After SyncDisconnect there is neither a connection nor a valid session
\* cookie, however logout() has ended.
THEOREM CookieGone == Spec => []NoCookieLeft
<1>1. PInv => NoCookieLeft
  BY DEF PInv, ConnInv, JarInv, NoCookieLeft
<1> QED
  BY <1>1, AlwaysPInv, PTL

-----------------------------------------------------------------------------
(***************************************************************************)
(* The answer.  A unit of an answer is followed by the next unit of the    *)
(* same answer (Linked), so it is enough for the invariant to know the     *)
(* first unit that waits: it is the one the step of the exchange expects,  *)
(* after the blocks that have been read (BodyInv, ChunkInv).  Between two  *)
(* exchanges no answer is owed, and what waits on the connection are the   *)
(* blocks of a body without a length, which was not read (QuietInv): they  *)
(* are not taken for a status line.                                        *)
(***************************************************************************)
Owner == {"new", "old"}
Parts == {"head", "body", "size", "eol"}
UnitType == [part : Parts, of : Owner, framing : Framings, size : Nat]
AnswerType == [left : Nat, body : Seq(UnitType), size : Nat, of : Owner \cup {"none"}]

\* A connection on which no answer is owed, and no status line waits.
OnlyBlocks(s) == \A i \in 1..Len(s) : s[i].part = "body"
Quiet == owed = <<>> /\ OnlyBlocks(stream)

\* The units that follow each other in a message with n blocks, without chunks
\* and with them.
BlockFollows(n, u, v) ==
    \/ u.part = "head" /\ n # 0 /\ v = Unit("new", "body", 1)
    \/ \E j \in 1..n - 1 : u = Unit("new", "body", j) /\ v = Unit("new", "body", j + 1)

SizeAfter(n, j) == Unit("new", "size", IF j = n THEN 0 ELSE j + 1)

ChunkFollows(n, u, v) ==
    \/ u.part = "head" /\ v = SizeAfter(n, 0)
    \/ \E j \in 1..n :
          \/ u = Unit("new", "size", j) /\ v = Unit("new", "body", j)
          \/ u = Unit("new", "body", j) /\ v = Unit("new", "eol", j)
          \/ u = Unit("new", "eol", j) /\ v = SizeAfter(n, j)
    \/ u = Unit("new", "size", 0) /\ v = Unit("new", "eol", 0)

Follows(chunked, n, u, v) ==
    IF chunked THEN ChunkFollows(n, u, v) ELSE BlockFollows(n, u, v)

\* The units of s are successive units of a message.
Linked(chunked, n, s) == \A i \in 1..Len(s) - 1 : Follows(chunked, n, s[i], s[i + 1])

\* s is the answer to the last request, or its beginning.
Fresh(s) ==
    /\ s[1].part = "head" /\ s[1].of = "new"
    /\ Linked(s[1].framing = "chunked", s[1].size, s)

\* Units are units.
LEMMA UnitTyped ==
  ASSUME NEW o \in Owner, NEW n \in Nat
  PROVE  /\ \A p \in Parts : Unit(o, p, n) \in UnitType
         /\ \A f \in Framings : HeadUnit(o, f, n) \in UnitType
<1>1. \A p \in Parts : Unit(o, p, n) \in UnitType
  BY DEF Unit, UnitType, Framings
<1>2. \A f \in Framings : HeadUnit(o, f, n) \in UnitType
  BY DEF HeadUnit, UnitType, Parts
<1> QED BY <1>1, <1>2

\* A sequence with one element before it.
LEMMA Prepended ==
  ASSUME NEW S, NEW h \in S, NEW b \in Seq(S), NEW m, m = <<h>> \o b
  PROVE  /\ m \in Seq(S) /\ Len(m) = Len(b) + 1 /\ m[1] = h
         /\ \A i \in 1..Len(b) : m[i + 1] = b[i]
<1>1. <<h>> \in Seq(S) /\ Len(<<h>>) = 1 /\ <<h>>[1] = h
  OBVIOUS
<1>2. /\ m \in Seq(S) /\ Len(m) = 1 + Len(b) /\ Len(b) \in Nat
      /\ \A i \in 1..1 + Len(b) : m[i] = IF i <= 1 THEN <<h>>[i] ELSE b[i - 1]
  BY <1>1, ConcatProperties, LenProperties
<1>3. \A i \in 1..Len(b) : i + 1 \in 1..1 + Len(b) /\ ~(i + 1 <= 1) /\ (i + 1) - 1 = i
  BY <1>2
<1>4. 1 \in 1..1 + Len(b)
  BY <1>2
<1> QED BY <1>1, <1>2, <1>3, <1>4

\* The units of the chunks.
LEMMA ChunkUnits ==
  ASSUME NEW n \in Nat, NEW o \in Owner
  PROVE  /\ Chunks(o, n) \in Seq(UnitType) /\ Len(Chunks(o, n)) = 3 * n
         /\ \A j \in 1..n : /\ Chunks(o, n)[3 * j - 2] = Unit(o, "size", j)
                            /\ Chunks(o, n)[3 * j - 1] = Unit(o, "body", j)
                            /\ Chunks(o, n)[3 * j] = Unit(o, "eol", j)
<1> DEFINE part(i) == <<"size", "body", "eol">>[1 + ((i - 1) % 3)]
           num(i) == 1 + ((i - 1) \div 3)
<1>1. \A i \in 1..3 * n : part(i) \in Parts /\ num(i) \in Nat
  <2> SUFFICES ASSUME NEW i \in 1..3 * n PROVE part(i) \in Parts /\ num(i) \in Nat
    OBVIOUS
  <2>1. (i - 1) % 3 \in 0..2 /\ (i - 1) \div 3 \in Nat
    OBVIOUS
  <2> QED BY <2>1 DEF Parts
<1>2. \A i \in 1..3 * n : Unit(o, part(i), num(i)) \in UnitType
  BY <1>1, UnitTyped
<1>3. 3 * n \in Nat
  OBVIOUS
<1>4. Chunks(o, n) = [i \in 1..3 * n |-> Unit(o, part(i), num(i))]
  BY DEF Chunks
<1> HIDE DEF part, num
<1>5. Chunks(o, n) \in Seq(UnitType) /\ Len(Chunks(o, n)) = 3 * n
  BY <1>2, <1>3, <1>4
<1>6. \A i \in 1..3 * n : Chunks(o, n)[i] = Unit(o, part(i), num(i))
  BY <1>4
<1>7. ASSUME NEW j \in 1..n
      PROVE  /\ Chunks(o, n)[3 * j - 2] = Unit(o, "size", j)
             /\ Chunks(o, n)[3 * j - 1] = Unit(o, "body", j)
             /\ Chunks(o, n)[3 * j] = Unit(o, "eol", j)
  <2>1. 3 * j - 2 \in 1..3 * n /\ 3 * j - 1 \in 1..3 * n /\ 3 * j \in 1..3 * n
    OBVIOUS
  <2>2. /\ part(3 * j - 2) = "size" /\ num(3 * j - 2) = j
        /\ part(3 * j - 1) = "body" /\ num(3 * j - 1) = j
        /\ part(3 * j) = "eol" /\ num(3 * j) = j
    <3>1. /\ (3 * j - 2 - 1) % 3 = 0 /\ (3 * j - 2 - 1) \div 3 = j - 1
          /\ (3 * j - 1 - 1) % 3 = 1 /\ (3 * j - 1 - 1) \div 3 = j - 1
          /\ (3 * j - 1) % 3 = 2 /\ (3 * j - 1) \div 3 = j - 1
      OBVIOUS
    <3> QED BY <3>1 DEF part, num
  <2> QED BY <1>6, <2>1, <2>2
<1> QED BY <1>5, <1>7

\* The units of a message.
LEMMA MessageUnits ==
  ASSUME NEW f \in Framings, NEW n \in Nat, NEW m, m = Message("new", f, n)
  PROVE  /\ m \in Seq(UnitType)
         /\ Len(m) = IF f = "chunked" THEN 3 * n + 3 ELSE n + 1
         /\ m[1] = HeadUnit("new", f, n)
         /\ f # "chunked" => \A j \in 1..n : m[j + 1] = Unit("new", "body", j)
         /\ f = "chunked" =>
              /\ \A j \in 1..n : /\ m[3 * j - 1] = Unit("new", "size", j)
                                 /\ m[3 * j] = Unit("new", "body", j)
                                 /\ m[3 * j + 1] = Unit("new", "eol", j)
              /\ m[3 * n + 2] = Unit("new", "size", 0)
              /\ m[3 * n + 3] = Unit("new", "eol", 0)
<1> DEFINE h == HeadUnit("new", f, n)
<1>0. h \in UnitType /\ "new" \in Owner
  BY UnitTyped DEF Owner
<1>1. CASE f # "chunked"
  <2> DEFINE b == [i \in 1..n |-> Unit("new", "body", i)]
  <2>1. \A i \in 1..n : Unit("new", "body", i) \in UnitType
    BY <1>0, UnitTyped DEF Parts
  <2>2. b \in Seq(UnitType) /\ Len(b) = n /\ \A i \in 1..n : b[i] = Unit("new", "body", i)
    BY <2>1
  <2>3. m = <<h>> \o b
    BY <1>1 DEF Message
  <2> HIDE DEF h, b
  <2>4. m \in Seq(UnitType) /\ Len(m) = n + 1 /\ m[1] = h /\ \A j \in 1..n : m[j + 1] = b[j]
    BY <1>0, <2>2, <2>3, Prepended
  <2> QED BY <1>1, <2>2, <2>4 DEF h
<1>2. CASE f = "chunked"
  <2> DEFINE c == Chunks("new", n)
             s0 == Unit("new", "size", 0)
             e0 == Unit("new", "eol", 0)
  <2>1. s0 \in UnitType /\ e0 \in UnitType
    BY <1>0, UnitTyped DEF Parts
  <2>2. /\ c \in Seq(UnitType) /\ Len(c) = 3 * n
        /\ \A j \in 1..n : /\ c[3 * j - 2] = Unit("new", "size", j)
                           /\ c[3 * j - 1] = Unit("new", "body", j)
                           /\ c[3 * j] = Unit("new", "eol", j)
    BY <1>0, ChunkUnits
  <2>3. m = <<h>> \o (c \o <<s0, e0>>)
    BY <1>2 DEF Message
  <2> HIDE DEF h, c, s0, e0
  <2> DEFINE d == c \o <<s0, e0>>
  <2>4. /\ d \in Seq(UnitType) /\ Len(d) = 3 * n + 2
        /\ \A i \in 1..3 * n : d[i] = c[i]
        /\ d[3 * n + 1] = s0 /\ d[3 * n + 2] = e0
    <3>1. <<s0, e0>> \in Seq(UnitType) /\ Len(<<s0, e0>>) = 2
      BY <2>1
    <3>2. /\ d \in Seq(UnitType) /\ Len(d) = 3 * n + 2
          /\ \A i \in 1..3 * n + 2 : d[i] = IF i <= 3 * n THEN c[i] ELSE <<s0, e0>>[i - 3 * n]
      BY <2>2, <3>1, ConcatProperties
    <3> HIDE DEF d
    <3>3. \A i \in 1..3 * n : d[i] = c[i]
      BY <3>2
    <3>4. (3 * n + 1) - 3 * n = 1 /\ (3 * n + 2) - 3 * n = 2
      OBVIOUS
    <3>5. /\ 3 * n + 1 \in 1..3 * n + 2 /\ ~(3 * n + 1 <= 3 * n)
          /\ 3 * n + 2 \in 1..3 * n + 2 /\ ~(3 * n + 2 <= 3 * n)
      OBVIOUS
    <3> QED BY <3>2, <3>3, <3>4, <3>5
  <2>5. m = <<h>> \o d
    BY <2>3
  <2> HIDE DEF d
  <2>6. /\ m \in Seq(UnitType) /\ Len(m) = 3 * n + 3 /\ m[1] = h
        /\ \A i \in 1..3 * n + 2 : m[i + 1] = d[i]
    <3>1. /\ m \in Seq(UnitType) /\ Len(m) = Len(d) + 1 /\ m[1] = h
          /\ \A i \in 1..Len(d) : m[i + 1] = d[i]
      <4>1. h \in UnitType /\ d \in Seq(UnitType)
        BY <1>0, <2>4
      <4> QED BY <2>5, <4>1, Prepended
    <3> QED BY <2>4, <3>1
  <2>7. ASSUME NEW j \in 1..n
        PROVE  /\ m[3 * j - 1] = Unit("new", "size", j)
               /\ m[3 * j] = Unit("new", "body", j)
               /\ m[3 * j + 1] = Unit("new", "eol", j)
    <3>1. 3 * j - 2 \in 1..3 * n /\ 3 * j - 1 \in 1..3 * n /\ 3 * j \in 1..3 * n
      OBVIOUS
    <3>2. /\ m[(3 * j - 2) + 1] = d[3 * j - 2] /\ m[(3 * j - 1) + 1] = d[3 * j - 1]
          /\ m[3 * j + 1] = d[3 * j]
      <4>1. \A i \in 1..3 * n : i \in 1..3 * n + 2
        OBVIOUS
      <4> QED BY <2>6, <3>1, <4>1
    <3>3. (3 * j - 2) + 1 = 3 * j - 1 /\ (3 * j - 1) + 1 = 3 * j
      OBVIOUS
    <3> QED BY <2>2, <2>4, <3>1, <3>2, <3>3
  <2>8. m[3 * n + 2] = s0 /\ m[3 * n + 3] = e0
    <3>1. m[(3 * n + 1) + 1] = d[3 * n + 1] /\ m[(3 * n + 2) + 1] = d[3 * n + 2]
      BY <2>6
    <3>2. (3 * n + 1) + 1 = 3 * n + 2 /\ (3 * n + 2) + 1 = 3 * n + 3
      OBVIOUS
    <3> QED BY <2>4, <3>1, <3>2
  <2> QED BY <1>2, <2>6, <2>7, <2>8 DEF h, s0, e0
<1> QED BY <1>1, <1>2

\* The fields of a unit, by which units are told apart.
LEMMA UnitFields ==
  ASSUME NEW o, NEW p, NEW n
  PROVE  Unit(o, p, n).part = p /\ Unit(o, p, n).of = o /\ Unit(o, p, n).size = n
  BY DEF Unit

\* The units that wait after the first has been read.
LEMMA Rest ==
  ASSUME NEW s \in Seq(UnitType), s # <<>>
  PROVE  /\ s[1] \in UnitType /\ Tail(s) \in Seq(UnitType)
         /\ Len(s) \in Nat \ {0} /\ Len(Tail(s)) = Len(s) - 1
         /\ \A i \in 1..Len(s) - 1 : Tail(s)[i] = s[i + 1]
<1>1. Len(s) \in Nat \ {0}
  BY EmptySeq
<1>2. /\ Tail(s) \in Seq(UnitType) /\ Len(Tail(s)) = Len(s) - 1
      /\ \A i \in 1..Len(Tail(s)) : Tail(s)[i] = s[i + 1]
  BY HeadTailProperties
<1>3. s[1] \in UnitType
  <2>1. \A i \in 1..Len(s) : s[i] \in UnitType
    BY ElementOfSeq
  <2> QED BY <1>1, <2>1
<1> QED BY <1>1, <1>2, <1>3

\* Reading a unit keeps the rest in order, and the next is one that may follow.
LEMMA RestLinked ==
  ASSUME NEW c, NEW n, NEW s \in Seq(UnitType), s # <<>>, Linked(c, n, s)
  PROVE  /\ Linked(c, n, Tail(s))
         /\ Tail(s) # <<>> => Follows(c, n, s[1], Tail(s)[1])
<1>1. /\ Len(s) \in Nat \ {0} /\ Len(Tail(s)) = Len(s) - 1
      /\ \A i \in 1..Len(s) - 1 : Tail(s)[i] = s[i + 1]
  BY Rest
<1>2. \A i \in 1..Len(s) - 1 : Follows(c, n, s[i], s[i + 1])
  BY DEF Linked
<1>3. ASSUME NEW i \in 1..Len(Tail(s)) - 1
      PROVE  Follows(c, n, Tail(s)[i], Tail(s)[i + 1])
  <2>1. i \in 1..Len(s) - 1 /\ i + 1 \in 1..Len(s) - 1
    BY <1>1
  <2>2. Tail(s)[i] = s[i + 1] /\ Tail(s)[i + 1] = s[(i + 1) + 1]
    BY <1>1, <2>1
  <2> QED BY <1>2, <2>1, <2>2
<1>4. ASSUME Tail(s) # <<>>
      PROVE  Follows(c, n, s[1], Tail(s)[1])
  <2>1. Tail(s) \in Seq(UnitType)
    BY Rest
  <2>2. Len(Tail(s)) \in Nat \ {0}
    BY <1>4, <2>1, EmptySeq
  <2>3. 1 \in 1..Len(s) - 1 /\ 1 + 1 = 2
    BY <1>1, <2>2
  <2>4. Tail(s)[1] = s[1 + 1] /\ Follows(c, n, s[1], s[1 + 1])
    BY <1>1, <1>2, <2>3
  <2> QED BY <2>4
<1> QED BY <1>3, <1>4 DEF Linked

\* What follows a head, or a block, of a message without chunks is blocks.
LEMMA LinkedBlocks ==
  ASSUME NEW n, NEW s \in Seq(UnitType), s # <<>>, Linked(FALSE, n, s)
  PROVE  OnlyBlocks(Tail(s))
<1>1. /\ Len(s) \in Nat \ {0} /\ Len(Tail(s)) = Len(s) - 1
      /\ \A i \in 1..Len(s) - 1 : Tail(s)[i] = s[i + 1]
  BY Rest
<1>2. \A i \in 1..Len(s) - 1 : BlockFollows(n, s[i], s[i + 1])
  BY DEF Linked, Follows
<1>3. \A u, v : BlockFollows(n, u, v) => v.part = "body"
  BY UnitFields DEF BlockFollows
<1>4. \A i \in 1..Len(Tail(s)) : i \in 1..Len(s) - 1
  BY <1>1
<1> QED BY <1>1, <1>2, <1>3, <1>4 DEF OnlyBlocks

\* The units of a message follow each other.
LEMMA MessageLinked ==
  ASSUME NEW f \in Framings, NEW n \in Nat, NEW m, m = Message("new", f, n)
  PROVE  Linked(f = "chunked", n, m)
<1>0. m[1] = HeadUnit("new", f, n) /\ m[1].part = "head"
  BY MessageUnits DEF HeadUnit
<1>1. CASE f # "chunked"
  <2>1. Len(m) = n + 1 /\ \A j \in 1..n : m[j + 1] = Unit("new", "body", j)
    BY <1>1, MessageUnits
  <2>2. ASSUME NEW i \in 1..Len(m) - 1
        PROVE  BlockFollows(n, m[i], m[i + 1])
    <3>0. i \in 1..n /\ m[i + 1] = Unit("new", "body", i)
      BY <2>1
    <3>1. CASE i = 1
      <4>1. n # 0 /\ m[i].part = "head"
        BY <1>0, <3>0, <3>1
      <4> QED BY <3>0, <3>1, <4>1 DEF BlockFollows
    <3>2. CASE i # 1
      <4>1. i - 1 \in 1..n - 1 /\ i - 1 \in 1..n /\ (i - 1) + 1 = i
        BY <3>0, <3>2
      <4>2. m[i] = Unit("new", "body", i - 1) /\ m[i + 1] = Unit("new", "body", (i - 1) + 1)
        BY <2>1, <3>0, <4>1
      <4> QED BY <4>1, <4>2 DEF BlockFollows
    <3> QED BY <3>1, <3>2
  <2> QED BY <1>1, <2>2 DEF Linked, Follows
<1>2. CASE f = "chunked"
  <2>1. /\ Len(m) = 3 * n + 3
        /\ \A j \in 1..n : /\ m[3 * j - 1] = Unit("new", "size", j)
                           /\ m[3 * j] = Unit("new", "body", j)
                           /\ m[3 * j + 1] = Unit("new", "eol", j)
        /\ m[3 * n + 2] = Unit("new", "size", 0)
        /\ m[3 * n + 3] = Unit("new", "eol", 0)
    <3>1. Len(m) = IF f = "chunked" THEN 3 * n + 3 ELSE n + 1
      BY MessageUnits
    <3>2. ASSUME NEW j \in 1..n
          PROVE  /\ m[3 * j - 1] = Unit("new", "size", j)
                 /\ m[3 * j] = Unit("new", "body", j)
                 /\ m[3 * j + 1] = Unit("new", "eol", j)
      <4>1. m[3 * j - 1] = Unit("new", "size", j)
        BY <1>2, MessageUnits
      <4>2. m[3 * j] = Unit("new", "body", j)
        BY <1>2, MessageUnits
      <4>3. m[3 * j + 1] = Unit("new", "eol", j)
        BY <1>2, MessageUnits
      <4> QED BY <4>1, <4>2, <4>3
    <3>3. m[3 * n + 2] = Unit("new", "size", 0)
      BY <1>2, MessageUnits
    <3>4. m[3 * n + 3] = Unit("new", "eol", 0)
      BY <1>2, MessageUnits
    <3> QED BY <1>2, <3>1, <3>2, <3>3, <3>4
  <2>2. \A j \in 0..n : m[3 * j + 2] = SizeAfter(n, j)
    <3> SUFFICES ASSUME NEW j \in 0..n PROVE m[3 * j + 2] = SizeAfter(n, j)
      OBVIOUS
    <3>1. CASE j = n
      BY <2>1, <3>1 DEF SizeAfter
    <3>2. CASE j # n
      <4>1. j + 1 \in 1..n /\ 3 * (j + 1) - 1 = 3 * j + 2
        BY <3>2
      <4>2. m[3 * (j + 1) - 1] = Unit("new", "size", j + 1)
        BY <2>1, <4>1
      <4> QED BY <3>2, <4>1, <4>2 DEF SizeAfter
    <3> QED BY <3>1, <3>2
  <2>3. ASSUME NEW i \in 1..Len(m) - 1
        PROVE  ChunkFollows(n, m[i], m[i + 1])
    <3>0. i \in 1..3 * n + 2
      BY <2>1
    <3>1. CASE i = 1
      <4>1. 0 \in 0..n /\ 3 * 0 + 2 = i + 1
        BY <3>1
      <4> QED BY <1>0, <2>2, <3>1, <4>1 DEF ChunkFollows
    <3>2. CASE i = 3 * n + 2
      <4>1. i + 1 = 3 * n + 3
        BY <3>2
      <4> QED BY <2>1, <3>2, <4>1 DEF ChunkFollows
    <3>3. CASE i # 1 /\ i # 3 * n + 2
      <4>1. \/ \E j \in 1..n : i = 3 * j - 1
            \/ \E j \in 1..n : i = 3 * j
            \/ \E j \in 1..n : i = 3 * j + 1
        <5> DEFINE j == (i + 1) \div 3
        <5>1. j \in 1..n /\ (i = 3 * j - 1 \/ i = 3 * j \/ i = 3 * j + 1)
          BY <3>0, <3>3
        <5> QED BY <5>1
      <4>2. CASE \E j \in 1..n : i = 3 * j - 1
        <5>1. PICK j \in 1..n : i = 3 * j - 1
          BY <4>2
        <5>2. i + 1 = 3 * j
          BY <5>1
        <5> QED BY <2>1, <5>1, <5>2 DEF ChunkFollows
      <4>3. CASE \E j \in 1..n : i = 3 * j
        BY <2>1, <4>3 DEF ChunkFollows
      <4>4. CASE \E j \in 1..n : i = 3 * j + 1
        <5>1. PICK j \in 1..n : i = 3 * j + 1
          BY <4>4
        <5>2. i + 1 = 3 * j + 2 /\ j \in 0..n
          BY <5>1
        <5> QED BY <2>1, <2>2, <5>1, <5>2 DEF ChunkFollows
      <4> QED BY <4>1, <4>2, <4>3, <4>4
    <3> QED BY <3>1, <3>2, <3>3
  <2> QED BY <1>2, <2>3 DEF Linked, Follows
<1> QED BY <1>1, <1>2

\* The part of an answer that is sent is nothing or a fresh answer.
LEMMA PrefixFresh ==
  ASSUME NEW f \in Framings, NEW n \in Nat, NEW m, m = Message("new", f, n),
         NEW k \in 0..Len(m)
  PROVE  /\ SubSeq(m, 1, k) \in Seq(UnitType)
         /\ SubSeq(m, 1, k) # <<>> => Fresh(SubSeq(m, 1, k))
<1>1. /\ m \in Seq(UnitType) /\ m[1] = HeadUnit("new", f, n) /\ Len(m) \in Nat
  BY MessageUnits, LenProperties
<1>2. \A i \in 1..k : i \in 1..Len(m) /\ m[i] \in UnitType
  <2>1. \A i \in 1..Len(m) : m[i] \in UnitType
    BY <1>1, ElementOfSeq
  <2> QED BY <1>1, <2>1
<1> DEFINE s == SubSeq(m, 1, k)
<1>3. /\ s \in Seq(UnitType) /\ Len(s) = k
      /\ \A i \in 1..k : s[i] = m[i]
  <2>1. /\ s \in Seq(UnitType) /\ Len(s) = IF 1 <= k THEN k - 1 + 1 ELSE 0
        /\ \A i \in 1..k - 1 + 1 : s[i] = m[1 + i - 1]
    <3>1. k \in Int /\ 1 \in Int
      BY <1>1
    <3> QED BY <1>2, <3>1, SubSeqProperties
  <2>2. k - 1 + 1 = k /\ (~(1 <= k) => k = 0) /\ \A i \in 1..k : 1 + i - 1 = i
    BY <1>1
  <2> QED BY <2>1, <2>2
<1> HIDE DEF s
<1>4. ASSUME s # <<>>
      PROVE  Fresh(s)
  <2>1. 1 \in 1..k
    BY <1>1, <1>3, <1>4, EmptySeq
  <2>2. s[1] = HeadUnit("new", f, n)
    BY <1>1, <1>3, <2>1
  <2>3. /\ s[1].part = "head" /\ s[1].of = "new" /\ s[1].framing = f /\ s[1].size = n
    BY <2>2 DEF HeadUnit
  <2>4. \A i \in 1..Len(m) - 1 : Follows(f = "chunked", n, m[i], m[i + 1])
    BY MessageLinked DEF Linked
  <2>5. \A i \in 1..Len(s) - 1 : i \in 1..k /\ i + 1 \in 1..k /\ i \in 1..Len(m) - 1
    BY <1>1, <1>3
  <2>6. Linked(f = "chunked", n, s)
    BY <1>3, <2>4, <2>5 DEF Linked
  <2> QED BY <2>3, <2>6 DEF Fresh
<1> QED BY <1>3, <1>4 DEF s

\* The first j blocks of the body, or the MAX_BODY_SIZE of them that are kept.
Kept(b, j) ==
    /\ Len(b) = IF j < MaxBody THEN j ELSE MaxBody
    /\ \A i \in 1..Len(b) : b[i] = Unit("new", "body", i)

\* The first unit that waits, if there is one.
Begins(s, u) == s # <<>> => s[1] = u

\* Requests are not queued: at most the last one has not been answered.
AnswerTypes ==
    /\ stream \in Seq(UnitType) /\ owed \in {<<>>, <<"new">>} /\ rd \in AnswerType

\* No status line of an earlier answer waits where one is expected.
HeadInv ==
    ex = "head" =>
        \/ owed = <<"new">> /\ OnlyBlocks(stream)
        \/ owed = <<>> /\ (stream # <<>> => stream[1].part = "body" \/ Fresh(stream))

\* A body with a length: what has been read, and what waits is the rest of it.
BodyInv ==
    ex = "body" =>
        /\ owed = <<>> /\ rd.of = "new" /\ rd.left \in 1..rd.size
        /\ Kept(rd.body, rd.size - rd.left) /\ Linked(FALSE, rd.size, stream)
        /\ Begins(stream, Unit("new", "body", rd.size - rd.left + 1))

Chunking == {"size", "chunk", "eol", "last"}

\* A chunked body after j blocks.
ChunkAt(j) ==
    /\ Kept(rd.body, j)
    /\ ex = "size" => Begins(stream, SizeAfter(rd.size, j))
    /\ ex = "chunk" => j # rd.size /\ Begins(stream, Unit("new", "body", j + 1))
    /\ ex = "eol" => j # 0 /\ Begins(stream, Unit("new", "eol", j))
    /\ ex = "last" => j = rd.size /\ Begins(stream, Unit("new", "eol", 0))

ChunkInv ==
    ex \in Chunking =>
        /\ owed = <<>> /\ rd.of = "new" /\ Linked(TRUE, rd.size, stream)
        /\ \E j \in 0..rd.size : ChunkAt(j)

\* The answer has been read.
DoneInv == ex \in {"complete", "answered"} => rd.of = "new" /\ Kept(rd.body, rd.size)

\* Outside the reading of an answer nothing but blocks waits; the connection of
\* an exchange that has failed is closed before it is used again.
Between == {"none", "start", "connect", "connected", "send"}

QuietInv ==
    ex \in Between \cup {"complete", "answered"} \/ (ex = "error" /\ pc # "request")
        => Quiet

AInv == AnswerTypes /\ HeadInv /\ BodyInv /\ ChunkInv /\ DoneInv /\ QuietInv

\* No request is out before the first.
LEMMA InitAInv == Init => AInv
<1> SUFFICES ASSUME Init PROVE AInv
  OBVIOUS
<1>1. stream = <<>> /\ owed = <<>> /\ rd = NoAnswer /\ ex = "none"
  BY DEF Init, HttpsInit
<1>2. NoAnswer \in AnswerType
  BY EmptySeq DEF NoAnswer, AnswerType
<1>3. AnswerTypes /\ Quiet
  BY <1>1, <1>2, EmptySeq DEF AnswerTypes, Quiet, OnlyBlocks
<1> QED BY <1>1, <1>3 DEF AInv, HeadInv, BodyInv, ChunkInv, DoneInv, QuietInv, Chunking

\* A step between two exchanges leaves the connection quiet or closes it.
LEMMA BetweenSteps ==
  ASSUME rd' \in AnswerType, ex' \in Between \cup {"error"}, stream' \in Seq(UnitType),
         ex' # "error" \/ pc' # "request" => Quiet', owed' \in {<<>>, <<"new">>}
  PROVE  AInv'
<1>1. AnswerTypes'
  BY DEF AnswerTypes
<1>2. HeadInv' /\ BodyInv' /\ ChunkInv' /\ DoneInv'
  BY DEF HeadInv, BodyInv, ChunkInv, DoneInv, Between, Chunking
<1>3. QuietInv'
  BY DEF QuietInv, Between
<1> QED BY <1>1, <1>2, <1>3 DEF AInv

\* disconnect() drops whatever has not been read.
LEMMA Disconnected ==
  ASSUME disconnect
  PROVE  Quiet' /\ stream' \in Seq(UnitType) /\ owed' \in {<<>>, <<"new">>}
<1>1. owed' = <<>> /\ stream' = <<>>
  BY DEF disconnect
<1> QED BY <1>1, EmptySeq DEF Quiet, OnlyBlocks

\* A step that leaves a quiet connection alone.
LEMMA QuietKept ==
  ASSUME AInv, Quiet, stream' = stream, owed' = owed
  PROVE  Quiet' /\ stream' \in Seq(UnitType) /\ owed' \in {<<>>, <<"new">>}
  BY DEF AInv, AnswerTypes, Quiet, OnlyBlocks

\* An exchange starts on a quiet connection or on a new one.
LEMMA StartSteps ==
  ASSUME AInv, PInv,
         \/ StartRequest \/ Reconnected
         \/ Transport /\ ((\E crt \in Crts : Connect(crt)) \/ ConnectFails)
  PROVE  AInv'
<1>1. Quiet /\ rd \in AnswerType
  <2>1. ex \in {"start", "connected", "connect"}
    BY DEF StartRequest, Reconnected, Connect, ConnectFails
  <2> QED BY <2>1 DEF AInv, QuietInv, AnswerTypes, Between
<1>2. rd' = rd /\ ex' \in {"connect", "send", "error", "connected"}
  BY DEF StartRequest, Reconnected, Connect, ConnectFails
<1>3. disconnect \/ (stream' = stream /\ owed' = owed)
  BY DEF StartRequest, before_connect, Reconnected, Connect, ConnectFails, conn
<1>4. Quiet' /\ stream' \in Seq(UnitType) /\ owed' \in {<<>>, <<"new">>}
  BY <1>1, <1>3, Disconnected, QuietKept
<1> QED BY <1>1, <1>2, <1>4, BetweenSteps DEF Between

\* The connection of send_request when it returns.
LEMMA QuietReturns ==
  ASSUME AInv, NEW status, NEW effect, Returns(status, effect)
  PROVE  /\ rd' \in AnswerType /\ Quiet'
         /\ stream' \in Seq(UnitType) /\ owed' \in {<<>>, <<"new">>}
<1>1. rd' = rd
  BY DEF Returns, SendRequestFails, SendRequestOk
<1>2. disconnect \/ (ex = "answered" /\ stream' = stream /\ owed' = owed)
  BY DEF Returns, SendRequestFails, SendRequestOk, on_failure, conn
<1>3. ex = "answered" => Quiet
  BY DEF AInv, QuietInv
<1>4. Quiet' /\ stream' \in Seq(UnitType) /\ owed' \in {<<>>, <<"new">>}
  BY <1>2, <1>3, Disconnected, QuietKept
<1> QED BY <1>1, <1>4 DEF AInv, AnswerTypes

\* The portal dialogue: a call that returns starts another or ends the procedure.
LEMMA CallSteps ==
  ASSUME AInv, NEW status, NEW effect, NEW ret, NEW parsed,
         \/ TopReturns(status, effect) \/ LoginReturns(status, effect)
         \/ RedirReturns(status, effect) \/ InfoReturns(status, effect)
         \/ CheckReturns(status, effect, ret)
         \/ ConfigReturns(status, effect, parsed)
  PROVE  AInv'
<1>1. Returns(status, effect)
  BY DEF TopReturns, LoginReturns, RedirReturns, InfoReturns, CheckReturns, ConfigReturns
<1>2. ex' \in {"start", "none"}
  BY DEF TopReturns, LoginReturns, RedirReturns, InfoReturns, CheckReturns, ConfigReturns,
         AfterLogin, Exit, Goto, Call
<1> QED BY <1>1, <1>2, QuietReturns, BetweenSteps DEF Between

\* The other steps between two exchanges: the user's, the opening, the end.
LEMMA DialogSteps ==
  ASSUME AInv, PInv, NEW effect, NEW given,
         \/ Redirected(effect) \/ Credentials(given) \/ Code(given) \/ SamlReturns(given)
         \/ StartSyncConnect \/ OpenFails
         \/ CrtValid \/ CrtDoubtful \/ CrtConfirmed \/ CrtRefused
         \/ StartSyncDisconnect \/ NewClient
         \/ \E ok \in BOOLEAN : LogoutReturns(ok)
  PROVE  AInv'
<1>1. rd' \in AnswerType
  <2>1. NoAnswer \in AnswerType
    BY EmptySeq DEF NoAnswer, AnswerType
  <2>2. rd' = rd \/ rd' = NoAnswer
    BY DEF Redirected, Credentials, Code, SamlReturns, StartSyncConnect, OpenFails, CrtValid,
           CrtDoubtful, CrtConfirmed, CrtRefused, TopPage, StartSyncDisconnect, NewClient,
           LogoutReturns
  <2> QED BY <2>1, <2>2 DEF AInv, AnswerTypes
<1>2. ex' \in {"start", "none", "connect"}
  BY DEF Redirected, Credentials, Code, SamlReturns, StartSyncConnect, OpenFails, CrtValid,
         CrtDoubtful, CrtConfirmed, CrtRefused, TopPage, StartSyncDisconnect, NewClient,
         LogoutReturns, AfterLogin, Exit, Goto, Call
<1>3. disconnect \/ (stream' = stream /\ owed' = owed /\ Quiet)
  <2>1. \/ disconnect
        \/ stream' = stream /\ owed' = owed
           /\ (ex \in {"answered", "connected"} \/ pc # "request")
    BY DEF Redirected, Credentials, Code, SamlReturns, StartSyncConnect, OpenFails, CrtValid,
           CrtDoubtful, CrtConfirmed, CrtRefused, TopPage, StartSyncDisconnect, NewClient,
           LogoutReturns, conn
  <2>2. pc # "request" => ex \in {"none", "connect", "connected", "error"}
    BY DEF PInv, ConnInv, Opening
  <2>3. (ex \in {"answered", "connected"} \/ pc # "request") => Quiet
    BY <2>2 DEF AInv, QuietInv, Between
  <2> QED BY <2>1, <2>3
<1>4. Quiet' /\ stream' \in Seq(UnitType) /\ owed' \in {<<>>, <<"new">>}
  BY <1>3, Disconnected, QuietKept
<1> QED BY <1>1, <1>2, <1>4, BetweenSteps DEF Between

\* A request is sent on a quiet connection; what is left on it are blocks of an
\* answer whose body was not read, and they are aged.
LEMMA SendSteps ==
  ASSUME AInv, PInv, Transport, SendRequest \/ SendFails
  PROVE  AInv'
<1>1. ex = "send" /\ Quiet /\ pc = "request" /\ pc' = pc
  BY DEF AInv, QuietInv, Between, SendRequest, SendFails, PInv, ConnInv, Opening, Transport
<1>2. CASE SendFails
  <2>1. rd' = rd /\ ex' = "error" /\ stream' = stream /\ owed' = owed
    BY <1>2 DEF SendFails, conn
  <2> QED BY <1>1, <2>1, BetweenSteps DEF AInv, AnswerTypes
<1>3. CASE SendRequest
  <2>1. owed = <<>> /\ stream \in Seq(UnitType) /\ OnlyBlocks(stream)
    BY <1>1 DEF Quiet, AInv, AnswerTypes
  <2>2. owed' = <<"new">>
    <3>1. owed' = Append([i \in 1..Len(owed) |-> "old"], "new")
      BY <1>3 DEF SendRequest
    <3>2. [i \in 1..Len(<<>>) |-> "old"] = <<>>
      OBVIOUS
    <3>3. Append(<<>>, "new") = <<"new">>
      OBVIOUS
    <3> QED BY <2>1, <3>1, <3>2, <3>3
  <2>3. stream' \in Seq(UnitType) /\ OnlyBlocks(stream)'
    <3>1. Len(stream) \in Nat /\ \A i \in 1..Len(stream) : stream[i] \in UnitType
      BY <2>1, LenProperties, ElementOfSeq
    <3>2. stream' = [i \in 1..Len(stream) |-> [stream[i] EXCEPT !.of = "old"]]
      BY <1>3 DEF SendRequest, Age
    <3>3. \A u \in UnitType : /\ [u EXCEPT !.of = "old"] \in UnitType
                              /\ [u EXCEPT !.of = "old"].part = u.part
      BY DEF UnitType, Owner
    <3>4. stream' \in Seq(UnitType) /\ Len(stream') = Len(stream)
      BY <3>1, <3>2, <3>3
    <3>5. \A i \in 1..Len(stream) : stream'[i].part = stream[i].part
      BY <3>1, <3>2, <3>3
    <3> QED BY <2>1, <3>4, <3>5 DEF OnlyBlocks
  <2>4. rd' \in AnswerType /\ ex' = "head"
    BY <1>3, EmptySeq DEF SendRequest, NoAnswer, AnswerType
  <2>5. AnswerTypes' /\ HeadInv'
    BY <2>2, <2>3, <2>4 DEF AnswerTypes, HeadInv
  <2>6. BodyInv' /\ ChunkInv' /\ DoneInv' /\ QuietInv'
    BY <2>4 DEF BodyInv, ChunkInv, DoneInv, QuietInv, Between, Chunking
  <2> QED BY <2>5, <2>6 DEF AInv
<1> QED BY <1>2, <1>3

-----------------------------------------------------------------------------
\* A read that fails ends the exchange; the connection is closed before the next.
LEMMA FailedReads ==
  ASSUME AInv, PInv, Transport, ReadMalformed \/ ReadEof \/ ReadTimeout
  PROVE  AInv'
<1>1. pc = "request" /\ pc' = pc
  BY DEF ReadMalformed, ReadEof, ReadTimeout, Reading, PInv, ConnInv, Opening, Transport
<1>2. ex' = "error" /\ rd' = rd /\ owed' = owed
  BY DEF ReadMalformed, ReadEof, ReadTimeout, conn
<1>3. rd \in AnswerType /\ owed \in {<<>>, <<"new">>} /\ stream \in Seq(UnitType)
  BY DEF AInv, AnswerTypes
<1>4. stream' = stream \/ (stream # <<>> /\ stream' = Tail(stream))
  BY DEF ReadMalformed, ReadEof, ReadTimeout, conn
<1>5. stream' \in Seq(UnitType)
  BY <1>3, <1>4, Rest
<1> QED BY <1>1, <1>2, <1>3, <1>5, BetweenSteps

\* The status line and the headers: the ones that are read belong to the request.
LEMMA HeadStep ==
  ASSUME AInv, PInv, Transport, ReadHead
  PROVE  AInv'
<1> DEFINE h == stream[1]
<1>0. /\ stream \in Seq(UnitType) /\ stream # <<>> /\ h.part = "head" /\ ex = "head"
      /\ pc = "request" /\ pc' = pc /\ stream' = Tail(stream) /\ owed' = owed
  BY DEF ReadHead, NextUnit, AInv, AnswerTypes, Transport, PInv, ConnInv, Opening
<1>1. h \in UnitType /\ Len(stream) \in Nat \ {0} /\ stream' \in Seq(UnitType)
  BY <1>0, Rest
<1>2. owed = <<>> /\ Fresh(stream)
  <2>1. ~OnlyBlocks(stream)
    <3>1. 1 \in 1..Len(stream)
      BY <1>1
    <3> QED BY <1>0, <3>1 DEF OnlyBlocks
  <2> QED BY <1>0, <2>1 DEF AInv, HeadInv
<1>3. /\ h.of = "new" /\ h.size \in Nat /\ h.framing \in Framings
      /\ Linked(h.framing = "chunked", h.size, stream)
  BY <1>1, <1>2 DEF Fresh, UnitType
<1>4. /\ rd' = [left |-> IF h.framing = "length" THEN h.size ELSE 0,
                body |-> <<>>, of |-> h.of,
                size |-> IF h.framing = "none" THEN 0 ELSE h.size]
      /\ ex' = AfterHead(h)
  BY DEF ReadHead, NextUnit
<1> DEFINE l == IF h.framing = "length" THEN h.size ELSE 0
           z == IF h.framing = "none" THEN 0 ELSE h.size
<1>5. l \in Nat /\ z \in Nat
  BY <1>3
<1>6. /\ rd'.left = l /\ rd'.body = <<>> /\ rd'.of = "new" /\ rd'.size = z
  BY <1>3, <1>4
<1>7. rd' \in AnswerType
  <2>1. rd' = [left |-> l, body |-> <<>>, of |-> h.of, size |-> z]
    BY <1>4
  <2> HIDE DEF l, z
  <2>2. <<>> \in Seq(UnitType) /\ h.of \in Owner \cup {"none"}
    BY <1>3, EmptySeq DEF Owner
  <2> QED BY <1>5, <2>1, <2>2 DEF AnswerType
<1>8. Kept(rd'.body, 0)
  <2>1. MaxBody \in Nat \ {0}
    BY HttpsClientAssumption
  <2>2. Len(<<>>) = 0
    OBVIOUS
  <2> QED BY <1>6, <2>1, <2>2 DEF Kept
<1>9. AnswerTypes'
  BY <1>0, <1>1, <1>2, <1>7 DEF AnswerTypes
<1>10. /\ Linked(h.framing = "chunked", h.size, Tail(stream))
       /\ Tail(stream) # <<>> => Follows(h.framing = "chunked", h.size, h, Tail(stream)[1])
  BY <1>0, <1>3, RestLinked
<1>11. h.framing # "chunked" => OnlyBlocks(Tail(stream))
  BY <1>0, <1>3, LinkedBlocks
<1> HIDE DEF h
<1>13. CASE ex' = "error"
  BY <1>0, <1>13, <1>9 DEF AInv, HeadInv, BodyInv, ChunkInv, DoneInv, QuietInv, Between,
                    Chunking
<1>14. CASE ex' = "complete"
  <2>1. h.framing \in {"length", "none"} /\ z = 0
    BY <1>3, <1>4, <1>14 DEF AfterHead, Framings
  <2>2. Quiet'
    BY <1>0, <1>2, <1>11, <2>1 DEF Quiet
  <2>3. DoneInv'
    BY <1>6, <1>8, <2>1 DEF DoneInv
  <2> QED BY <1>9, <1>14, <2>2, <2>3 DEF AInv, HeadInv, BodyInv, ChunkInv, QuietInv, Chunking
<1>15. CASE ex' = "body"
  <2>1. h.framing = "length" /\ h.size # 0
    BY <1>3, <1>4, <1>15 DEF AfterHead, Framings
  <2>2. l = h.size /\ z = h.size
    BY <2>1
  <2>3. /\ Linked(FALSE, h.size, Tail(stream))
        /\ Tail(stream) # <<>> => BlockFollows(h.size, h, Tail(stream)[1])
    BY <1>10, <2>1 DEF Follows
  <2>4. Begins(Tail(stream), Unit("new", "body", 1))
    BY <1>0, <2>3, UnitFields DEF BlockFollows, Begins, h
  <2>5. /\ rd'.size = h.size /\ rd'.left = h.size /\ rd'.size - rd'.left = 0
        /\ rd'.size - rd'.left + 1 = 1 /\ rd'.left \in 1..rd'.size
    BY <1>3, <1>6, <2>1, <2>2
  <2>6. BodyInv'
    BY <1>0, <1>2, <1>6, <1>8, <2>3, <2>4, <2>5 DEF BodyInv
  <2> QED BY <1>9, <1>15, <2>6 DEF AInv, HeadInv, ChunkInv, DoneInv, QuietInv, Chunking,
                             Between
<1>16. CASE ex' = "size"
  <2>1. h.framing = "chunked"
    BY <1>3, <1>4, <1>16 DEF AfterHead, Framings
  <2>2. z = h.size
    BY <2>1
  <2>3. /\ Linked(TRUE, h.size, Tail(stream))
        /\ Tail(stream) # <<>> => ChunkFollows(h.size, h, Tail(stream)[1])
    BY <1>10, <2>1 DEF Follows
  <2>4. Begins(Tail(stream), SizeAfter(h.size, 0))
    BY <1>0, <2>3, UnitFields DEF ChunkFollows, Begins, h
  <2>5. rd'.size = h.size /\ 0 \in 0..h.size
    BY <1>3, <1>6, <2>2
  <2>6. ChunkAt(0)'
    BY <1>0, <1>8, <1>16, <2>4, <2>5 DEF ChunkAt
  <2>7. ChunkInv'
    BY <1>0, <1>2, <1>6, <2>3, <2>5, <2>6 DEF ChunkInv
  <2> QED BY <1>9, <1>16, <2>7 DEF AInv, HeadInv, BodyInv, DoneInv, QuietInv, Between
<1> QED BY <1>3, <1>4, <1>13, <1>14, <1>15, <1>16 DEF AfterHead

\* One more block, of which the body keeps what it has room for.
LEMMA Appended ==
  ASSUME NEW b \in Seq(UnitType), NEW j \in Nat, Kept(b, j)
  PROVE  /\ AppendBlock(b, Unit("new", "body", j + 1)) \in Seq(UnitType)
         /\ Kept(AppendBlock(b, Unit("new", "body", j + 1)), j + 1)
<1> DEFINE u == Unit("new", "body", j + 1)
<1>0. MaxBody \in Nat \ {0} /\ Len(b) \in Nat
  BY HttpsClientAssumption, LenProperties
<1>1. u \in UnitType
  BY UnitTyped DEF Owner, Parts
<1> HIDE DEF u
<1>2. Len(b) = (IF j < MaxBody THEN j ELSE MaxBody)
      /\ \A i \in 1..Len(b) : b[i] = Unit("new", "body", i)
  BY DEF Kept
<1>3. CASE j < MaxBody
  <2>1. Len(b) = j /\ AppendBlock(b, u) = Append(b, u)
    BY <1>2, <1>3 DEF AppendBlock
  <2>2. /\ Append(b, u) \in Seq(UnitType) /\ Len(Append(b, u)) = j + 1
        /\ \A i \in 1..j : Append(b, u)[i] = b[i]
        /\ Append(b, u)[j + 1] = u
    BY <1>1, <2>1, AppendProperties
  <2>3. j + 1 = IF j + 1 < MaxBody THEN j + 1 ELSE MaxBody
    BY <1>0, <1>3
  <2>4. ASSUME NEW i \in 1..j + 1
        PROVE  Append(b, u)[i] = Unit("new", "body", i)
    <3>1. CASE i = j + 1
      BY <2>2, <3>1 DEF u
    <3>2. CASE i # j + 1
      <4>1. i \in 1..j
        BY <3>2
      <4> QED BY <1>2, <2>1, <2>2, <4>1
    <3> QED BY <3>1, <3>2
  <2>5. Kept(Append(b, u), j + 1)
    BY <2>2, <2>3, <2>4 DEF Kept
  <2> QED BY <2>1, <2>2, <2>5 DEF u
<1>4. CASE ~(j < MaxBody)
  <2>1. AppendBlock(b, u) = b
    BY <1>0, <1>2, <1>4 DEF AppendBlock
  <2>2. Kept(b, j + 1)
    BY <1>0, <1>2, <1>4 DEF Kept
  <2> QED BY <2>1, <2>2 DEF u
<1> QED BY <1>3, <1>4

\* A block of a body with a length.
LEMMA BlockStep ==
  ASSUME AInv, PInv, Transport, ReadBlock
  PROVE  AInv'
<1>0. /\ stream \in Seq(UnitType) /\ stream # <<>> /\ ex = "body"
      /\ stream' = Tail(stream) /\ owed' = owed /\ rd \in AnswerType
      /\ rd' = [rd EXCEPT !.left = @ - 1, !.body = AppendBlock(@, stream[1])]
      /\ ex' = IF rd.left = 1 THEN "complete" ELSE "body"
  BY DEF ReadBlock, NextUnit, AInv, AnswerTypes
<1>1. /\ owed = <<>> /\ rd.of = "new" /\ rd.left \in 1..rd.size
      /\ Kept(rd.body, rd.size - rd.left) /\ Linked(FALSE, rd.size, stream)
      /\ Begins(stream, Unit("new", "body", rd.size - rd.left + 1))
  BY <1>0 DEF AInv, BodyInv
<1> DEFINE j == rd.size - rd.left
           u == Unit("new", "body", j + 1)
           b == AppendBlock(rd.body, u)
<1>2. /\ rd.size \in Nat /\ rd.left \in Nat \ {0} /\ rd.body \in Seq(UnitType)
      /\ rd.of \in Owner \cup {"none"}
  BY <1>0, <1>1 DEF AnswerType
<1>3. j \in Nat /\ j + 1 \in 1..rd.size /\ rd.left - 1 \in Nat
  BY <1>1, <1>2
<1>4. stream[1] = u
  BY <1>0, <1>1 DEF Begins
<1>5. b \in Seq(UnitType) /\ Kept(b, j + 1)
  BY <1>1, <1>2, <1>3, Appended
<1>6. /\ rd'.left = rd.left - 1 /\ rd'.body = b /\ rd'.size = rd.size /\ rd'.of = rd.of
      /\ rd' = [left |-> rd.left - 1, body |-> b, size |-> rd.size, of |-> rd.of]
  <2> HIDE DEF u
  <2> QED BY <1>0, <1>4 DEF AnswerType
<1> HIDE DEF b
<1>7. rd' \in AnswerType
  BY <1>2, <1>3, <1>5, <1>6 DEF AnswerType
<1>8. stream' \in Seq(UnitType) /\ owed' = <<>>
  BY <1>0, <1>1, Rest
<1>9. AnswerTypes'
  BY <1>7, <1>8 DEF AnswerTypes
<1>10. Linked(FALSE, rd.size, Tail(stream)) /\ OnlyBlocks(Tail(stream))
  BY <1>0, <1>1, RestLinked, LinkedBlocks
<1>11. CASE rd.left = 1
  <2>1. ex' = "complete" /\ j + 1 = rd.size
    BY <1>0, <1>2, <1>11
  <2>2. DoneInv'
    BY <1>1, <1>5, <1>6, <2>1 DEF DoneInv
  <2>3. QuietInv'
    BY <1>0, <1>8, <1>10 DEF QuietInv, Quiet
  <2> QED BY <1>9, <2>1, <2>2, <2>3 DEF AInv, HeadInv, BodyInv, ChunkInv, Chunking
<1>12. CASE rd.left # 1
  <2>1. /\ ex' = "body" /\ rd'.left \in 1..rd'.size
        /\ rd'.size - rd'.left = j + 1 /\ rd'.size - rd'.left + 1 = (j + 1) + 1
    BY <1>0, <1>1, <1>2, <1>6, <1>12
  <2>2. Tail(stream) # <<>> => BlockFollows(rd.size, u, Tail(stream)[1])
    <3>1. Tail(stream) # <<>> => Follows(FALSE, rd.size, stream[1], Tail(stream)[1])
      BY <1>0, <1>1, RestLinked
    <3> HIDE DEF u
    <3> QED BY <1>4, <3>1 DEF Follows
  <2>3. \A v : BlockFollows(rd.size, u, v) => v = Unit("new", "body", (j + 1) + 1)
    <3> SUFFICES ASSUME NEW v, BlockFollows(rd.size, u, v)
                 PROVE  v = Unit("new", "body", (j + 1) + 1)
      OBVIOUS
    <3>1. u.part = "body" /\ u.size = j + 1
      BY UnitFields
    <3>2. PICK i \in 1..rd.size - 1 : u = Unit("new", "body", i)
                                      /\ v = Unit("new", "body", i + 1)
      <4> HIDE DEF u
      <4> QED BY <3>1 DEF BlockFollows
    <3>3. i = j + 1
      <4>1. u.size = i
        BY <3>2, UnitFields
      <4> QED BY <3>1, <4>1
    <3> QED BY <3>2, <3>3
  <2>4. Begins(Tail(stream), Unit("new", "body", (j + 1) + 1))
    BY <2>2, <2>3 DEF Begins
  <2> HIDE DEF j, u
  <2>5. BodyInv'
    BY <1>0, <1>1, <1>5, <1>6, <1>8, <1>10, <2>1, <2>4 DEF BodyInv
  <2> QED BY <1>9, <2>1, <2>5 DEF AInv, HeadInv, ChunkInv, DoneInv, QuietInv, Between,
                            Chunking
<1> QED BY <1>11, <1>12

\* What may follow a unit of a chunked body, and what may not.
LEMMA ChunkOrder ==
  ASSUME NEW n \in Nat, NEW j \in 0..n, NEW v
  PROVE  /\ j # 0 => /\ ChunkFollows(n, Unit("new", "size", j), v) => v = Unit("new", "body", j)
                     /\ ChunkFollows(n, Unit("new", "body", j), v) => v = Unit("new", "eol", j)
                     /\ ChunkFollows(n, Unit("new", "eol", j), v) => v = SizeAfter(n, j)
         /\ ChunkFollows(n, Unit("new", "size", 0), v) => v = Unit("new", "eol", 0)
         /\ ~ChunkFollows(n, Unit("new", "eol", 0), v)
<1>1. \A p, q, i, k : Unit("new", p, i) = Unit("new", q, k) => p = q /\ i = k
  BY UnitFields
<1>2. \A p, i : Unit("new", p, i).part = p
  BY UnitFields
<1>3. ASSUME j # 0, ChunkFollows(n, Unit("new", "size", j), v)
      PROVE  v = Unit("new", "body", j)
  BY <1>1, <1>2, <1>3 DEF ChunkFollows
<1>4. ASSUME j # 0, ChunkFollows(n, Unit("new", "body", j), v)
      PROVE  v = Unit("new", "eol", j)
  BY <1>1, <1>2, <1>4 DEF ChunkFollows
<1>5. ASSUME j # 0, ChunkFollows(n, Unit("new", "eol", j), v)
      PROVE  v = SizeAfter(n, j)
  BY <1>1, <1>2, <1>5 DEF ChunkFollows
<1>6. ASSUME ChunkFollows(n, Unit("new", "size", 0), v)
      PROVE  v = Unit("new", "eol", 0)
  BY <1>1, <1>2, <1>6 DEF ChunkFollows
<1>7. ~ChunkFollows(n, Unit("new", "eol", 0), v)
  BY <1>1, <1>2 DEF ChunkFollows
<1> QED BY <1>3, <1>4, <1>5, <1>6, <1>7

\* What the invariant says in a chunked body, and what the next read leaves.
LEMMA InChunks ==
  ASSUME AInv, ex \in Chunking, stream # <<>>, stream' = Tail(stream), owed' = owed
  PROVE  /\ owed' = <<>> /\ rd.of = "new" /\ rd.size \in Nat /\ rd \in AnswerType
         /\ stream' \in Seq(UnitType) /\ Linked(TRUE, rd.size, stream')
         /\ stream' # <<>> => ChunkFollows(rd.size, stream[1], stream'[1])
         /\ \E j \in 0..rd.size : ChunkAt(j)
<1>1. /\ owed = <<>> /\ rd.of = "new" /\ Linked(TRUE, rd.size, stream)
      /\ \E j \in 0..rd.size : ChunkAt(j)
  BY DEF AInv, ChunkInv
<1>2. rd \in AnswerType /\ rd.size \in Nat /\ stream \in Seq(UnitType)
  BY DEF AInv, AnswerTypes, AnswerType
<1>3. Tail(stream) \in Seq(UnitType)
  BY <1>2, Rest
<1>4. /\ Linked(TRUE, rd.size, Tail(stream))
      /\ Tail(stream) # <<>> => Follows(TRUE, rd.size, stream[1], Tail(stream)[1])
  BY <1>1, <1>2, RestLinked
<1> QED BY <1>1, <1>2, <1>3, <1>4 DEF Follows

\* The invariant after a read that stays in the chunks.
LEMMA StillChunks ==
  ASSUME ex' \in Chunking, owed' = <<>>, rd' \in AnswerType, rd'.of = "new",
         stream' \in Seq(UnitType), Linked(TRUE, rd'.size, stream'),
         \E j \in 0..rd'.size : ChunkAt(j)'
  PROVE  AInv'
<1>1. AnswerTypes' /\ ChunkInv'
  BY DEF AnswerTypes, ChunkInv
<1>2. HeadInv' /\ BodyInv' /\ DoneInv' /\ QuietInv'
  BY DEF HeadInv, BodyInv, DoneInv, QuietInv, Between, Chunking
<1> QED BY <1>1, <1>2 DEF AInv

\* The size of a chunk: 0 after the last block, and only then.
LEMMA SizeStep ==
  ASSUME AInv, ReadSize
  PROVE  AInv'
<1>0. /\ ex = "size" /\ stream # <<>> /\ stream' = Tail(stream) /\ owed' = owed /\ rd' = rd
      /\ ex' = IF stream[1].size = 0 THEN "last" ELSE "chunk"
  BY DEF ReadSize, NextUnit
<1>1. ex \in Chunking /\ ex' \in Chunking
  BY <1>0 DEF Chunking
<1>2. /\ owed' = <<>> /\ rd.of = "new" /\ rd.size \in Nat /\ rd \in AnswerType
      /\ stream' \in Seq(UnitType) /\ Linked(TRUE, rd.size, stream')
      /\ stream' # <<>> => ChunkFollows(rd.size, stream[1], stream'[1])
      /\ \E j \in 0..rd.size : ChunkAt(j)
  BY <1>0, <1>1, InChunks
<1>3. PICK j \in 0..rd.size : ChunkAt(j)
  BY <1>2
<1>4. Kept(rd.body, j) /\ stream[1] = SizeAfter(rd.size, j)
  BY <1>0, <1>3 DEF ChunkAt, Begins
<1>5. ChunkAt(j)'
  <2>1. CASE j = rd.size
    <3>1. stream[1] = Unit("new", "size", 0) /\ stream[1].size = 0
      BY <1>4, <2>1, UnitFields DEF SizeAfter
    <3>2. ex' = "last"
      BY <1>0, <3>1
    <3>3. Begins(stream', Unit("new", "eol", 0))
      BY <1>2, <1>3, <3>1, ChunkOrder DEF Begins
    <3> QED BY <1>0, <1>4, <2>1, <3>2, <3>3 DEF ChunkAt
  <2>2. CASE j # rd.size
    <3>1. stream[1] = Unit("new", "size", j + 1) /\ stream[1].size = j + 1
      BY <1>4, <2>2, UnitFields DEF SizeAfter
    <3>2. j + 1 \in 0..rd.size /\ j + 1 # 0
      BY <1>2, <2>2
    <3>3. ex' = "chunk"
      BY <1>0, <3>1, <3>2
    <3>4. Begins(stream', Unit("new", "body", j + 1))
      BY <1>2, <3>1, <3>2, ChunkOrder DEF Begins
    <3> QED BY <1>0, <1>4, <2>2, <3>3, <3>4 DEF ChunkAt
  <2> QED BY <2>1, <2>2
<1> QED BY <1>0, <1>1, <1>2, <1>5, StillChunks

\* The data of a chunk.
LEMMA ChunkStep ==
  ASSUME AInv, ReadChunk
  PROVE  AInv'
<1>0. /\ ex = "chunk" /\ stream # <<>> /\ stream' = Tail(stream) /\ owed' = owed
      /\ rd' = [rd EXCEPT !.body = AppendBlock(@, stream[1])]
      /\ ex' = "eol"
  BY DEF ReadChunk, NextUnit
<1>1. ex \in Chunking /\ ex' \in Chunking
  BY <1>0 DEF Chunking
<1>2. /\ owed' = <<>> /\ rd.of = "new" /\ rd.size \in Nat /\ rd \in AnswerType
      /\ stream' \in Seq(UnitType) /\ Linked(TRUE, rd.size, stream')
      /\ stream' # <<>> => ChunkFollows(rd.size, stream[1], stream'[1])
      /\ \E j \in 0..rd.size : ChunkAt(j)
  BY <1>0, <1>1, InChunks
<1>3. PICK j \in 0..rd.size : ChunkAt(j)
  BY <1>2
<1>4. Kept(rd.body, j) /\ j # rd.size /\ stream[1] = Unit("new", "body", j + 1)
  BY <1>0, <1>3 DEF ChunkAt, Begins
<1>5. j \in Nat /\ j + 1 \in 0..rd.size /\ j + 1 # 0
  BY <1>2, <1>4
<1> DEFINE b == AppendBlock(rd.body, Unit("new", "body", j + 1))
<1>6. rd.body \in Seq(UnitType) /\ rd.left \in Nat /\ rd.of \in Owner \cup {"none"}
  BY <1>2 DEF AnswerType
<1>7. b \in Seq(UnitType) /\ Kept(b, j + 1)
  BY <1>4, <1>5, <1>6, Appended
<1>8. /\ rd' = [left |-> rd.left, body |-> b, size |-> rd.size, of |-> rd.of]
      /\ rd'.body = b /\ rd'.size = rd.size /\ rd'.of = rd.of
  BY <1>0, <1>2, <1>4 DEF AnswerType
<1> HIDE DEF b
<1>9. rd' \in AnswerType
  BY <1>2, <1>6, <1>7, <1>8 DEF AnswerType
<1>10. Begins(stream', Unit("new", "eol", j + 1))
  BY <1>2, <1>4, <1>5, ChunkOrder DEF Begins
<1>11. ChunkAt(j + 1)'
  BY <1>0, <1>5, <1>7, <1>8, <1>10 DEF ChunkAt
<1> QED BY <1>1, <1>2, <1>5, <1>8, <1>9, <1>11, StillChunks

\* The end of a line; after the last chunk nothing of the answer is left.
LEMMA EolStep ==
  ASSUME AInv, ReadEol
  PROVE  AInv'
<1>0. /\ ex \in {"eol", "last"} /\ stream # <<>> /\ stream' = Tail(stream) /\ owed' = owed
      /\ rd' = rd /\ ex' = IF ex = "last" THEN "complete" ELSE "size"
  BY DEF ReadEol
<1>1. ex \in Chunking
  BY <1>0 DEF Chunking
<1>2. /\ owed' = <<>> /\ rd.of = "new" /\ rd.size \in Nat /\ rd \in AnswerType
      /\ stream' \in Seq(UnitType) /\ Linked(TRUE, rd.size, stream')
      /\ stream' # <<>> => ChunkFollows(rd.size, stream[1], stream'[1])
      /\ \E j \in 0..rd.size : ChunkAt(j)
  BY <1>0, <1>1, InChunks
<1>3. PICK j \in 0..rd.size : ChunkAt(j)
  BY <1>2
<1>4. CASE ex = "eol"
  <2>1. Kept(rd.body, j) /\ j # 0 /\ stream[1] = Unit("new", "eol", j)
    BY <1>0, <1>3, <1>4 DEF ChunkAt, Begins
  <2>2. Begins(stream', SizeAfter(rd.size, j))
    BY <1>2, <1>3, <2>1, ChunkOrder DEF Begins
  <2>3. ex' = "size" /\ ex' \in Chunking
    BY <1>0, <1>4 DEF Chunking
  <2>4. ChunkAt(j)'
    BY <1>0, <2>1, <2>2, <2>3 DEF ChunkAt
  <2> QED BY <1>0, <1>2, <2>3, <2>4, StillChunks
<1>5. CASE ex = "last"
  <2>1. Kept(rd.body, rd.size) /\ stream[1] = Unit("new", "eol", 0) /\ ex' = "complete"
    BY <1>0, <1>3, <1>5 DEF ChunkAt, Begins
  <2>2. stream' = <<>>
    BY <1>2, <1>3, <2>1, ChunkOrder
  <2>3. Quiet'
    BY <1>2, <2>2 DEF Quiet, OnlyBlocks
  <2>4. AnswerTypes'
    BY <1>0, <1>2 DEF AnswerTypes
  <2>5. DoneInv' /\ QuietInv'
    BY <1>0, <1>2, <2>1, <2>3 DEF DoneInv, QuietInv
  <2>6. HeadInv' /\ BodyInv' /\ ChunkInv'
    BY <2>1 DEF HeadInv, BodyInv, ChunkInv, Chunking
  <2> QED BY <2>4, <2>5, <2>6 DEF AInv
<1> QED BY <1>0, <1>4, <1>5

\* A step that leaves the exchange, the answer and the connection as they are.
LEMMA Untouched ==
  ASSUME AInv, rd' = rd, stream' = stream, owed' = owed, ex' = ex, pc' = pc
  PROVE  AInv'
<1>1. AnswerTypes' /\ HeadInv' /\ BodyInv'
  BY DEF AInv, AnswerTypes, HeadInv, BodyInv
<1>2. DoneInv' /\ QuietInv'
  BY DEF AInv, DoneInv, QuietInv, Quiet
<1>3. ChunkInv'
  <2>1. \A j : ChunkAt(j) => ChunkAt(j)'
    BY DEF ChunkAt
  <2> QED BY <2>1 DEF AInv, ChunkInv
<1> QED BY <1>1, <1>2, <1>3 DEF AInv

\* The end of recv_answer.
LEMMA AnsweredStep ==
  ASSUME AInv, NEW t, NEW m, RecvAnswer(t, m)
  PROVE  AInv'
<1>1. /\ ex = "complete" /\ ex' = "answered" /\ rd' = rd
      /\ stream' = stream /\ owed' = owed
  BY DEF RecvAnswer, conn
<1>2. AnswerTypes' /\ DoneInv' /\ QuietInv'
  BY <1>1 DEF AInv, AnswerTypes, DoneInv, QuietInv, Quiet
<1>3. HeadInv' /\ BodyInv' /\ ChunkInv'
  BY <1>1 DEF HeadInv, BodyInv, ChunkInv, Chunking
<1> QED BY <1>2, <1>3 DEF AInv

\* The server answers only the request that waits: the answer of an earlier one
\* can no longer come.
LEMMA ServerStep ==
  ASSUME AInv, PInv, NEW f \in Framings, NEW n \in 0..MaxBlocks,
         NEW k \in 0..Len(Message("new", f, n)), ServerAnswers(f, n, k), pc' = pc
  PROVE  AInv'
<1>0. /\ owed # <<>> /\ stream' = stream \o SubSeq(Message(Head(owed), f, n), 1, k)
      /\ owed' = Tail(owed) /\ ex' = ex /\ rd' = rd
  BY DEF ServerAnswers
<1>1. owed = <<"new">> /\ stream \in Seq(UnitType) /\ rd \in AnswerType /\ n \in Nat
  <2>1. MaxBlocks \in Nat
    BY HttpsClientAssumption
  <2> QED BY <1>0, <2>1 DEF AInv, AnswerTypes
<1>2. Head(owed) = "new" /\ owed' = <<>>
  BY <1>0, <1>1
<1> DEFINE p == SubSeq(Message("new", f, n), 1, k)
<1>3. stream' = stream \o p
  BY <1>0, <1>2
<1>4. p \in Seq(UnitType) /\ (p # <<>> => Fresh(p))
  BY <1>1, PrefixFresh
<1> HIDE DEF p
<1>5. stream' \in Seq(UnitType)
  BY <1>1, <1>3, <1>4, ConcatProperties
<1>6. owed # <<>>
  BY <1>0
<1>7. ex = "head" \/ (ex = "error" /\ pc = "request") \/
      ex \notin Between \cup Chunking \cup {"head", "body", "complete", "answered", "error"}
  BY <1>6 DEF AInv, BodyInv, ChunkInv, QuietInv, Quiet
<1>8. CASE ex = "head"
  <2>1. OnlyBlocks(stream)
    BY <1>6, <1>8 DEF AInv, HeadInv
  <2>2. stream' # <<>> => stream'[1].part = "body" \/ Fresh(stream')
    <3>1. CASE stream = <<>>
      <4>1. stream' = p
        BY <1>3, <1>4, <3>1, ConcatEmptySeq
      <4> QED BY <1>4, <4>1
    <3>2. CASE stream # <<>>
      <4>1. Len(stream) \in Nat \ {0} /\ Len(p) \in Nat
        BY <1>1, <1>4, <3>2, EmptySeq, LenProperties
      <4>2. \A i \in 1..Len(stream) + Len(p) :
                stream'[i] = IF i <= Len(stream) THEN stream[i] ELSE p[i - Len(stream)]
        BY <1>1, <1>3, <1>4, ConcatProperties
      <4>3. 1 \in 1..Len(stream) + Len(p) /\ 1 <= Len(stream) /\ 1 \in 1..Len(stream)
        BY <4>1
      <4>4. stream'[1] = stream[1]
        BY <4>2, <4>3
      <4> QED BY <2>1, <4>3, <4>4 DEF OnlyBlocks
    <3> QED BY <3>1, <3>2
  <2>3. AnswerTypes' /\ HeadInv'
    BY <1>0, <1>1, <1>2, <1>5, <2>2 DEF AnswerTypes, HeadInv
  <2>4. BodyInv' /\ ChunkInv' /\ DoneInv' /\ QuietInv'
    BY <1>0, <1>8 DEF BodyInv, ChunkInv, DoneInv, QuietInv, Between, Chunking
  <2> QED BY <2>3, <2>4 DEF AInv
<1>9. CASE ex # "head"
  <2>1. AnswerTypes'
    BY <1>0, <1>1, <1>2, <1>5 DEF AnswerTypes
  <2>2. HeadInv' /\ BodyInv' /\ ChunkInv' /\ DoneInv' /\ QuietInv'
    BY <1>0, <1>7, <1>9 DEF HeadInv, BodyInv, ChunkInv, DoneInv, QuietInv, Between, Chunking
  <2> QED BY <2>1, <2>2 DEF AInv
<1> QED BY <1>8, <1>9

\* Every step keeps the invariant.
LEMMA NextAInv == AInv /\ PInv /\ [Next]_vars => AInv'
<1> SUFFICES ASSUME AInv, PInv, [Next]_vars PROVE AInv'
  OBVIOUS
<1>1. CASE Client
  <2>1. CASE Transport
    <3>1. Transport => \/ (\E crt \in Crts : Connect(crt)) \/ ConnectFails
                       \/ SendRequest \/ SendFails \/ Read
      BY DEF Transport
    <3>2. CASE Read
      BY <2>1, <3>2, HeadStep, BlockStep, SizeStep, ChunkStep, EolStep, FailedReads,
         AnsweredStep DEF Read
    <3> QED BY <2>1, <3>1, <3>2, StartSteps, SendSteps
  <2>2. CASE StartRequest \/ Reconnected
    BY <2>2, StartSteps
  <2>3. CASE OpenFails \/ CrtValid \/ CrtDoubtful \/ \E ok \in BOOLEAN : LogoutReturns(ok)
    BY <2>3, DialogSteps
  <2>4. CASE \E effect \in CookieEffects : Redirected(effect)
    BY <2>4, DialogSteps
  <2>5. CASE \E effect \in CookieEffects, status \in Results :
                \/ TopReturns(status, effect) \/ LoginReturns(status, effect)
                \/ RedirReturns(status, effect) \/ InfoReturns(status, effect)
                \/ \E ret \in Rets : CheckReturns(status, effect, ret)
                \/ \E parsed \in BOOLEAN : ConfigReturns(status, effect, parsed)
    BY <2>5, CallSteps
  <2> QED BY <1>1, <2>1, <2>2, <2>3, <2>4, <2>5 DEF Client
<1>2. CASE User
  BY <1>2, DialogSteps DEF User
<1>3. CASE Environment
  <2>1. pc' = pc
    BY <1>3 DEF Environment
  <2>2. CASE Server
    <3>1. CASE ServerCloses
      <4>1. rd' = rd /\ stream' = stream /\ owed' = owed /\ ex' = ex
        BY <3>1 DEF ServerCloses
      <4> QED BY <2>1, <4>1, Untouched
    <3> QED BY <2>1, <2>2, <3>1, ServerStep DEF Server
  <2>3. CASE Tick
    <3>1. rd' = rd /\ stream' = stream /\ owed' = owed /\ ex' = ex
      BY <2>3 DEF Tick, conn
    <3> QED BY <2>1, <3>1, Untouched
  <2> QED BY <1>3, <2>2, <2>3 DEF Environment
<1>4. CASE CookieExpires \/ UNCHANGED vars
  <2>1. rd' = rd /\ stream' = stream /\ owed' = owed /\ ex' = ex /\ pc' = pc
    BY <1>4 DEF CookieExpires, vars, httpsVars, conn
  <2> QED BY <2>1, Untouched
<1> QED BY <1>1, <1>2, <1>3, <1>4 DEF Next

\* What HttpsClient::recv_answer and do_request return is the answer to the
\* request just sent, all of its body or its first MAX_BODY_SIZE blocks,
\* however many answers came late, broke off, were left unread or were never
\* sent on the connections before.
THEOREM AnswersMatch == Spec => []AnswerMatches
<1>1. AInv => AnswerMatches
  <2> SUFFICES ASSUME AInv, ex = "answered"
               PROVE  /\ rd.of = "new"
                      /\ Len(rd.body) = IF rd.size < MaxBody THEN rd.size ELSE MaxBody
                      /\ \A i \in 1..Len(rd.body) :
                            rd.body[i].of = "new" /\ rd.body[i].part = "body"
                                /\ rd.body[i].size = i
    BY DEF AnswerMatches
  <2>1. rd.of = "new" /\ Kept(rd.body, rd.size)
    BY DEF AInv, DoneInv
  <2> QED BY <2>1, UnitFields DEF Kept
<1> HIDE DEF AInv
<1> QED BY <1>1, InitAInv, NextAInv, AlwaysPInv, PTL DEF Spec
=============================================================================
