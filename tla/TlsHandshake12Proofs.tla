------------------------ MODULE TlsHandshake12Proofs ------------------------
(***************************************************************************)
(* Theorems about TlsHandshake12, for any configurations, any number of    *)
(* connections, faults and ticket keys, and any clock.                     *)
(*                                                                         *)
(* First what each step does to the parts of the state that matter, as a   *)
(* formula that says nothing of flights and logs (ClientGreets, ...,       *)
(* ServerCompletes; together Effects); then that each part of the          *)
(* inductive invariant survives every such effect.                         *)
(*                                                                         *)
(* Last that compatible ends succeed.  That is about flights and logs, to  *)
(* the message: its invariant (GoodInv) says in which phase an undisturbed *)
(* handshake is (GoesWell), what is on its way there, and that the reader  *)
(* lacks in its log just what it has not read.                             *)
(***************************************************************************)
EXTENDS TlsHandshake12, HandshakeProofs, ListProofs

----------------------------------------------------------------------------
(* The inductive invariant.                                                *)

\* The fields of the hello of a client.
HelloFields ==
  {"random", "sessionId", "ticketSupported", "sessionTicket", "supportedVersions", "cipherSuites",
   "supportedCurves", "alpnProtocols", "supportedSignatureAlgorithms", "serverName", "vers"}

\* The places of a client within the server's first flight, and behind it.
Full == {"certificate", "afterCertificate", "afterStatus", "afterExchange", "afterRequest"}
Late == {"ticket", "ccs", "finished", "complete"}

\* The shape of the state.
Shape ==
  /\ DOMAIN cli = Fields /\ DOMAIN srv = Fields
  /\ cli.pc \in {"start", "serverHello", "failed"} \cup Full \cup Late
  /\ srv.pc \in {"clientHello", "certificate", "clientKeyExchange", "verify", "failed", "ccs", "finished",
                "complete"}
  /\ cli.resumed \in BOOLEAN /\ srv.resumed \in BOOLEAN
  /\ IsSeq(cli.rest) /\ IsSeq(srv.rest) /\ IsSeq(c2s) /\ IsSeq(s2c)
  /\ \A m \in ToSet(c2s) \cup ToSet(s2c) : DOMAIN m = {"type", "body", "key"}
  /\ conn \in Nat \ {0}
  /\ plan \in Plans /\ ccfg \in plan.clients /\ scfg \in plan.servers
  /\ DOMAIN cache = {CacheKey(c) : c \in plan.clients}

\* The client on its own.
ClientInv ==
  /\ cli.pc \in {"start", "serverHello"} \cup Full => ~cli.resumed
  /\ cli.pc = "start" => cli = Fresh("start")
  /\ cli.pc \in {"serverHello", "certificate"} => cli.rest = <<>>
  /\ cli.pc \notin {"start", "failed"} =>
       /\ cli.ch.sessionId = conn
       /\ cli.ch.sessionTicket = IF cli.offered = None THEN None ELSE cli.offered.ticket
  /\ cli.pc \in Full \cup Late => (cli.resumed <=> cli.offered # None /\ cli.sh.sessionId = cli.ch.sessionId)
  /\ cli.pc \in Late =>
       IF cli.resumed THEN cli.master = cli.offered.master /\ cli.peer = cli.offered.cert
       ELSE cli.master.pre.conn = conn
  /\ cli.pc \in (Full \ {"certificate"}) \cup Late /\ ~cli.resumed =>
       cli.rest # <<>> /\ cli.rest[1] = Msg("certificate", cli.peer)
  /\ cli.pc \in {"start", "serverHello", "ticket"} \cup Full => cli.session = None
  /\ cli.pc \in Late /\ cli.session # None => cli.session.master = cli.master /\ cli.session.cert = cli.peer

\* The server on its own.
ServerInv ==
  /\ srv.pc = "clientHello" => srv = Fresh("clientHello")
  /\ srv.pc \in {"clientHello", "certificate", "clientKeyExchange", "verify"} => ~srv.resumed
  /\ srv.resumed =>
       /\ srv.master = srv.offered.master /\ srv.peer = srv.offered.cert
       /\ srv.sh.sessionId = srv.ch.sessionId /\ srv.ch.sessionTicket # None
  /\ srv.pc \notin {"clientHello", "failed"} /\ ~srv.resumed =>
       /\ srv.sh.sessionId = None
       /\ srv.rest # <<>> /\ srv.rest[1] = Msg("certificate", GetCertificate(scfg, srv.ch.serverName))

\* The hellos on their way.
Unsigned(ms) == \A m \in ms : m.type # "finished"

HelloInv ==
  /\ cli.pc = "start" => c2s = <<>> /\ s2c = <<>> /\ srv.pc \in {"clientHello", "failed"}
  /\ srv.pc = "clientHello" => s2c = <<>> /\ cli.pc \in {"start", "serverHello", "failed"} /\ Unsigned(ToSet(c2s))
  /\ \A m \in ToSet(c2s) :
       /\ m.type # "serverHello"
       /\ m.type = "clientHello" =>
            /\ cli.pc \in {"serverHello", "failed"} /\ srv.pc \in {"clientHello", "failed"} /\ s2c = <<>>
            /\ DOMAIN m.body = HelloFields /\ (~damaged => m.body = cli.ch)
  /\ \A m \in ToSet(s2c) :
       /\ m.type # "clientHello"
       /\ m.type = "serverHello" =>
            /\ cli.pc \in {"serverHello", "failed"} /\ srv.pc # "complete" /\ Unsigned(ToSet(c2s))
            /\ ~damaged => m.body = srv.sh
  /\ \A m \in Later(c2s) : m.type # "clientHello"
  /\ \A m \in Later(s2c) : m.type # "serverHello"

\* A Finished that has been sent, and what who has read it knows.
Signed(e, role) ==
  e.sum.role = role /\ e.sum.master = e.master /\ e.sum.log.ch = e.ch /\ e.sum.log.sh = e.sh
SameHandshake == cli.ch = srv.ch /\ cli.sh = srv.sh /\ cli.master = srv.master

\* The client, and the server, has sent its Finished.
ClientSigned ==
  /\ Signed(cli, "client")
  /\ IF cli.resumed THEN cli.pc = "complete"
     ELSE /\ cli.pc \in Late \cup {"failed"}
          /\ ~(cli.ch.sessionTicket # None /\ cli.sh.sessionId = cli.ch.sessionId)
ServerSigned ==
  /\ Signed(srv, "server")
  /\ srv.resumed \/ (srv.pc = "complete" /\ srv.sum.log.rest = srv.rest)

\* A Finished on its way is its sender's last word; who has read it agrees.
FinishedInv ==
  /\ \A m \in ToSet(c2s) : m.type = "finished" => m.body = cli.sum /\ ClientSigned
  /\ \A m \in ToSet(s2c) : m.type = "finished" => m.body = srv.sum /\ ServerSigned
  /\ srv.pc = "complete" => srv.peerSum = cli.sum /\ ClientSigned /\ SameHandshake
  /\ cli.pc = "complete" => cli.peerSum = srv.sum /\ ServerSigned /\ SameHandshake

\* A damaged hello is not what was sent.
DamageInv ==
  damaged =>
    \/ /\ cli.pc # "start"
       /\ \A m \in ToSet(c2s) : m.type = "clientHello" => m.body # cli.ch
       /\ \/ srv.ch # cli.ch
          \/ srv.pc \in {"clientHello", "failed"} /\ cli.pc # "complete" /\ Unsigned(ToSet(s2c))
    \/ /\ srv.pc # "clientHello"
       /\ \A m \in ToSet(s2c) : m.type = "serverHello" => m.body # srv.sh
       /\ \/ cli.sh # srv.sh
          \/ cli.pc \in {"serverHello", "failed"} /\ srv.pc # "complete" /\ Unsigned(ToSet(c2s))

\* Sessions and tickets go back to a handshake that was completed.
Known(master, client) == \E s \in sessions : s.master = master /\ s.client = client
TicketOk(t) == Known(t.state.master, t.state.cert)
SessionOk(s) ==
  /\ \E x \in sessions : x.master = s.master /\ x.server = s.cert
  /\ TicketOk(s.ticket)

\* The sessions of the cache and on offer, and the tickets on their way.
SessionInv ==
  /\ \A k \in DOMAIN cache : cache[k] # None => SessionOk(cache[k])
  /\ cli.offered # None => SessionOk(cli.offered)
  /\ cli.pc \in Late /\ cli.session # None => TicketOk(cli.session.ticket)
  /\ \A m \in ToSet(c2s) : m.type = "clientHello" /\ m.body.sessionTicket # None =>
       TicketOk(m.body.sessionTicket)
  /\ \A m \in ToSet(s2c) : m.type = "ticket" => TicketOk(m.body)
  /\ srv.resumed => Known(srv.master, srv.peer)
  /\ srv.pc = "complete" /\ ~srv.resumed =>
       \E s \in sessions : s.master = srv.master /\ s.server = GetCertificate(scfg, srv.ch.serverName)

\* No two sessions of the cache are of one handshake, and none is of one that a
\* failed handshake tried to go on with.
Born(s) == s.master.pre.conn
BurntInv ==
  /\ \A k \in DOMAIN cache : cache[k] # None =>
       /\ cache[k].ticket.state.master = cache[k].master
       /\ Born(cache[k]) \in 1 .. conn
       /\ Born(cache[k]) = conn => cli.pc = "complete"
  /\ \A j, k \in DOMAIN cache : cache[j] # None /\ cache[k] # None /\ j # k => cache[j].master # cache[k].master
  /\ \A b \in burnt : /\ b.state.master.pre.conn \in 1 .. conn - 1
                      /\ \A k \in DOMAIN cache : cache[k] # None => cache[k].master # b.state.master
                      /\ cli.offered # None /\ cli.pc # "failed" => cli.offered.master # b.state.master
  /\ cli.offered # None =>
       cli.offered.ticket.state.master = cli.offered.master /\ Born(cli.offered) \in 1 .. conn - 1
  /\ cli.offered # None /\ cli.pc \notin {"complete", "failed"} => cache[CacheKey(ccfg)] = cli.offered
  /\ \A m \in ToSet(s2c) : m.type = "ticket" =>
       m.body.state.master = srv.master /\ (srv.resumed \/ srv.pc = "complete")
  /\ cli.pc \in Late /\ cli.session # None =>
       cli.session.ticket.state.master = srv.master /\ (srv.resumed \/ srv.pc = "complete")

\* Whom each end accepts.
PeerInv ==
  /\ conn > 1 => conn <= plan.conns
  /\ \A k \in DOMAIN cache : cache[k] # None /\ cache[k].verified =>
       \E c \in plan.clients : cache[k].cert.issuer \in c.roots
  /\ cli.offered # None /\ ~ccfg.insecure =>
       cli.offered.verified /\ Verify(cli.offered.cert, ccfg.roots, ccfg.server.name)
  /\ cli.offered # None /\ cli.offered.verified => \E c \in plan.clients : cli.offered.cert.issuer \in c.roots
  /\ cli.pc \in (Full \ {"certificate"}) \cup Late => AcceptsServer(cli.peer)
  /\ cli.pc \in Late /\ cli.session # None /\ cli.session.verified =>
       \E c \in plan.clients : cli.session.cert.issuer \in c.roots

\* The server's client is one its configuration lets in.
PolicyInv ==
  /\ srv.pc \in {"clientKeyExchange", "verify", "ccs", "finished", "complete"} =>
       AcceptsClient(srv.peer) /\ (scfg.clientAuth = "NoClientCert" => srv.peer = None)
  /\ srv.pc = "certificate" => scfg.clientAuth # "NoClientCert"
  /\ srv.pc = "clientHello" => srv.peer = None

\* The inductive invariant. PeerInv stands apart: it needs SameRoots.
IInv ==
  /\ Shape /\ ClientInv /\ ServerInv /\ HelloInv /\ FinishedInv /\ DamageInv /\ SessionInv
  /\ BurntInv /\ PolicyInv

----------------------------------------------------------------------------
(* What is read and what is sent.                                          *)

\* The messages no part of the invariant looks at.
Plain(m) == m.type \notin {"clientHello", "serverHello", "ticket", "finished"}

\* A failing return.
ClientGivesUp ==
  /\ ~Ended(cli) /\ cli' = [cli EXCEPT !.pc = "failed"]
  /\ cache' = Evicted
  /\ burnt' = IF cli.offered = None THEN burnt ELSE burnt \cup {cli.offered.ticket}
  /\ s2c' = <<>> /\ ToSet(s2c') = {} /\ Later(s2c') = {}
  /\ \A m \in ToSet(c2s') : m \in ToSet(c2s) \/ Plain(m)
  /\ \A m \in Later(c2s') : m \in Later(c2s) \/ Plain(m)
  /\ UNCHANGED <<world, srv, sessions>>

\* A failing client drops what it has not read and leaves plain messages only.
LEMMA ClientFailsPlainly ==
  ASSUME NetShape, NEW sent, Wire(sent), \A m \in ToSet(sent) : Plain(m), ~Ended(cli), ClientFails(sent)
  PROVE  ClientGivesUp /\ NetShape'
<1>1. Plain(Close)
  BY Headers DEF Close, Plain
<1> QED BY <1>1, ClientFailsNet DEF ClientGivesUp

\* A failing return of the server before it has sent its hello, or with no more to send.
ServerGivesUp ==
  /\ ~Ended(srv) /\ srv' = [srv EXCEPT !.pc = "failed"]
  /\ c2s' = <<>> /\ ToSet(c2s') = {} /\ Later(c2s') = {}
  /\ \A m \in ToSet(s2c') : m \in ToSet(s2c) \/ Plain(m)
  /\ \A m \in Later(s2c') : m \in Later(s2c) \/ Plain(m)
  /\ s2c' = s2c \/ c2s # <<>>
  /\ UNCHANGED <<world, cache, cli, sessions, burnt>>

\* ServerFails leaves the flight so far and a close.
LEMMA ServerFailsPlainly ==
  ASSUME NetShape, NEW e, NEW sent, Wire(sent), ServerFails(e, sent)
  PROVE  /\ NetShape'
         /\ c2s' = <<>> /\ ToSet(c2s') = {} /\ Later(c2s') = {}
         /\ \A m \in ToSet(s2c') : m \in ToSet(s2c) \cup ToSet(sent) \/ Plain(m)
         /\ \A m \in Later(s2c') : m \in Later(s2c) \cup ToSet(sent) \/ Plain(m)
         /\ srv' = [e EXCEPT !.pc = "failed"]
         /\ UNCHANGED <<world, cache, cli, sessions, burnt>>
         /\ s2c' = s2c \/ up
<1>1. Plain(Close)
  BY Headers DEF Close, Plain
<1>2. /\ NetShape' /\ c2s' = <<>> /\ ToSet(c2s') = {} /\ Later(c2s') = {}
      /\ ToSet(s2c') \subseteq ToSet(s2c) \cup (ToSet(sent) \cup {Close})
      /\ Later(s2c') \subseteq Later(s2c) \cup (ToSet(sent) \cup {Close})
      /\ srv' = [e EXCEPT !.pc = "failed"]
      /\ UNCHANGED <<world, cache, cli, sessions, burnt>>
      /\ s2c' = s2c \/ up
  BY ServerFailsNet
<1> QED BY <1>1, <1>2

\* Whatever the server fails at without a flight.
LEMMA ServerQuits ==
  ASSUME NetShape, ServerFails(srv, <<>>), ~Ended(srv), ~up \/ c2s # <<>>
  PROVE  ServerGivesUp /\ NetShape'
BY NothingSent, ServerFailsPlainly DEF ServerGivesUp

\* Whatever the client fails at without a flight.
LEMMA ClientQuits ==
  ASSUME NetShape, ClientFails(<<>>), ~Ended(cli)
  PROVE  ClientGivesUp /\ NetShape'
BY NothingSent, ClientFailsPlainly

----------------------------------------------------------------------------
(* The steps of the client.                                                *)

\* The client's hello, with the session it offers; an expired one leaves the cache.
ClientGreets ==
  /\ cli.pc = "start"
  /\ \E hello :
       /\ hello # None /\ hello = MakeClientHello(ccfg)
       /\ cli' = [cli EXCEPT !.pc = "serverHello", !.ch = Greeting(hello, Offered(hello)), !.offered = Offered(hello)]
  /\ \A m \in ToSet(c2s') : m = Msg("clientHello", cli'.ch)
  /\ Later(c2s') = {} /\ UNCHANGED s2c
  /\ cache' = cache \/ (cli'.offered = None /\ cache' = [cache EXCEPT ![CacheKey(ccfg)] = None])
  /\ UNCHANGED <<world, srv, sessions, burnt>>

\* ClientStart gives up (no version to offer, no name to verify) or greets.
LEMMA StartDoes ==
  ASSUME NetShape, DOMAIN cli = Fields, c2s = <<>>, ClientStart
  PROVE (ClientGivesUp \/ ClientGreets) /\ NetShape'
<1> DEFINE ch == MakeClientHello(ccfg)
<1>1. CASE ch = None \/ (ccfg.server.name = <<>> /\ ~ccfg.insecure)
  BY <1>1, ClientQuits DEF ClientStart, Ended
<1>2. CASE ~(ch = None \/ (ccfg.server.name = <<>> /\ ~ccfg.insecure))
  <2> HIDE DEF ch
  <2>1. /\ cli.pc = "start"
        /\ cli' = [cli EXCEPT !.pc = "serverHello", !.ch = Greeting(ch, Offered(ch)), !.offered = Offered(ch)]
        /\ c2s' = Send(c2s, <<Msg("clientHello", Greeting(ch, Offered(ch)))>>)
        /\ cache' = IF Trusted(ch) /\ Expired THEN [cache EXCEPT ![CacheKey(ccfg)] = None] ELSE cache
        /\ UNCHANGED <<world, srv, s2c, sessions, burnt>>
    BY <1>2 DEF ClientStart, ch
  <2>2. cli'.ch = Greeting(ch, Offered(ch)) /\ cli'.offered = Offered(ch)
    BY <2>1 DEF Fields
  <2>3. Trusted(ch) /\ Expired => Offered(ch) = None
    BY DEF Offered, Usable
  <2>4. ClientGreets
    <3> DEFINE m == Msg("clientHello", Greeting(ch, Offered(ch)))
    <3>1. IsSeq(<<m>>) /\ ToSet(<<m>>) = {m} /\ IsSeq(<<>>) /\ ToSet(<<>>) = {} /\ Later(<<m>>) = {} /\ Later(<<>>) = {}
      BY Short DEF Later
    <3>2. c2s' = <<m>> \/ c2s' = <<>>
      <4> HIDE DEF m
      <4>1. <<>> \o <<m>> = <<m>>
        BY <3>1, Joined
      <4> QED BY <2>1, <4>1 DEF Send, m
    <3>3. (\A x \in ToSet(c2s') : x = m) /\ Later(c2s') = {}
      <4> HIDE DEF m
      <4> QED BY <3>1, <3>2
    <3>4. ch # None /\ ch = MakeClientHello(ccfg)
      BY <1>2 DEF ch
    <3> QED BY <2>1, <2>2, <2>3, <3>3, <3>4 DEF ClientGreets
  <2>5. Wire(<<Msg("clientHello", cli'.ch)>>)
    BY Short, Headers DEF Wire
  <2>6. NetShape'
    BY <2>1, <2>2, <2>5, Sent DEF NetShape, Wire
  <2> QED BY <2>4, <2>6
<1> QED BY <1>1, <1>2

\* The server's hello: the handshake is resumed or goes on in full.
ClientHears ==
  LET sh == Head(s2c).body IN
  /\ cli.pc = "serverHello" /\ Head(s2c).type = "serverHello"
  /\ cli' = [cli EXCEPT
       !.pc = IF ServerResumedSession(sh) THEN AwaitServer(sh) ELSE "certificate",
       !.sh = sh, !.resumed = ServerResumedSession(sh),
       !.master = IF ServerResumedSession(sh) THEN cli.offered.master ELSE None,
       !.peer = IF ServerResumedSession(sh) THEN cli.offered.cert ELSE None]
  /\ ClientQuiet

\* ClientServerHello gives up (version, suite, protocol, session) or hears.
LEMMA ServerHelloDoes == ASSUME NetShape, ClientServerHello PROVE (ClientGivesUp \/ ClientHears) /\ NetShape'
<1>1. cli.pc = "serverHello" /\ s2c # <<>> /\ Head(s2c).type = "serverHello" /\ ~Ended(cli)
  BY DEF ClientServerHello, ClientGets, Ended
<1>2. CASE ClientFails(<<>>)
  BY <1>1, <1>2, ClientQuits
<1>3. CASE ~ClientFails(<<>>)
  <2> DEFINE sh == Head(s2c).body
             e == [cli EXCEPT
                     !.pc = IF ServerResumedSession(sh) THEN AwaitServer(sh) ELSE "certificate",
                     !.sh = sh, !.resumed = ServerResumedSession(sh),
                     !.master = IF ServerResumedSession(sh) THEN cli.offered.master ELSE None,
                     !.peer = IF ServerResumedSession(sh) THEN cli.offered.cert ELSE None]
  <2>1. ClientNext(e)
    BY <1>3 DEF ClientServerHello
  <2>2. cli' = e /\ ClientQuiet /\ NetShape'
    BY <1>1, <2>1, ClientNextNet
  <2> QED BY <1>1, <2>2 DEF ClientHears
<1> QED BY <1>2, <1>3

\* The server's certificate, which the client accepts.
ClientIdentifies ==
  /\ cli.pc = "certificate" /\ AcceptsServer(Head(s2c).body) /\ Head(s2c).type = "certificate"
  /\ cli' = [Logged(cli, Head(s2c)) EXCEPT !.pc = "afterCertificate", !.peer = Head(s2c).body]
  /\ ClientQuiet

\* ClientCertificate gives up on a certificate it does not accept.
LEMMA CertificateDoes == ASSUME NetShape, ClientCertificate PROVE (ClientGivesUp \/ ClientIdentifies) /\ NetShape'
<1>1. cli.pc = "certificate" /\ s2c # <<>> /\ Head(s2c).type = "certificate" /\ ~Ended(cli)
  BY DEF ClientCertificate, ClientGets, Ended
<1>2. CASE ClientFails(<<>>)
  BY <1>1, <1>2, ClientQuits
<1>3. CASE ~ClientFails(<<>>)
  BY <1>1, <1>3, ClientNextNet DEF ClientCertificate, ClientIdentifies
<1> QED BY <1>2, <1>3

\* The places between the server's certificate and its hello done.
Middle == Full \ {"certificate"}

\* A step within the server's flight.
ClientReadsOn ==
  /\ cli.pc \in Middle /\ cli'.pc \in Middle /\ DOMAIN cli' = DOMAIN cli
  /\ cli'.rest = Append(cli.rest, Kept(Head(s2c)))
  /\ cli'.ch = cli.ch /\ cli'.sh = cli.sh /\ cli'.offered = cli.offered /\ cli'.resumed = cli.resumed
  /\ cli'.peer = cli.peer /\ cli'.master = cli.master /\ cli'.session = cli.session
  /\ cli'.sum = cli.sum /\ cli'.peerSum = cli.peerSum
  /\ ClientQuiet

\* ClientStatus, ClientKeyExchange and ClientRequest log the message and go on, or give up.
LEMMA MiddleDoes ==
  ASSUME NetShape, DOMAIN cli = Fields, ClientStatus \/ ClientKeyExchange \/ ClientRequest
  PROVE  (ClientGivesUp \/ ClientReadsOn) /\ NetShape'
<1>1. cli.pc \in Middle /\ s2c # <<>> /\ ~Ended(cli)
  BY DEF ClientStatus, ClientKeyExchange, ClientRequest, ClientGets, Ended, Middle, Full
<1>2. CASE ClientFails(<<>>)
  BY <1>1, <1>2, ClientQuits
<1>3. CASE ClientStatus /\ ~ClientFails(<<>>)
  <2> DEFINE e == [Logged(cli, Head(s2c)) EXCEPT !.pc = "afterStatus"]
  <2>1. ClientNext(e)
    BY <1>3 DEF ClientStatus
  <2>2. cli' = e /\ ClientQuiet /\ NetShape'
    BY <1>1, <2>1, ClientNextNet
  <2> QED BY <1>1, <2>2 DEF ClientReadsOn, Middle, Full, Logged, Fields
<1>4. CASE ClientKeyExchange /\ ~ClientFails(<<>>)
  <2> DEFINE e == [Logged(cli, Head(s2c)) EXCEPT !.pc = "afterExchange", !.kx = Head(s2c).body]
  <2>1. ClientNext(e)
    BY <1>4 DEF ClientKeyExchange
  <2>2. cli' = e /\ ClientQuiet /\ NetShape'
    BY <1>1, <2>1, ClientNextNet
  <2> QED BY <1>1, <2>2 DEF ClientReadsOn, Middle, Full, Logged, Fields
<1>5. CASE ClientRequest
  <2> DEFINE e == [Logged(cli, Head(s2c)) EXCEPT !.pc = "afterRequest", !.request = Head(s2c).body]
  <2>1. ClientNext(e)
    BY <1>5 DEF ClientRequest
  <2>2. cli' = e /\ ClientQuiet /\ NetShape'
    BY <1>1, <2>1, ClientNextNet
  <2> QED BY <1>1, <2>2 DEF ClientReadsOn, Middle, Full, Logged, Fields
<1> QED BY <1>2, <1>3, <1>4, <1>5

\* The flight of a client.
Sealed(m, sum) == Plain(m) \/ (m.type = "finished" /\ m.body = sum)
Signs(sent, sum) == \A m \in sent : Sealed(m, sum)

\* The client's flight: its certificate, key exchange, signature and Finished.
ClientSealsFlight ==
  /\ cli.pc \in Middle /\ cli'.pc \in {"ticket", "ccs"} /\ DOMAIN cli' = DOMAIN cli
  /\ cli'.ch = cli.ch /\ cli'.sh = cli.sh /\ cli'.offered = cli.offered /\ cli'.resumed = cli.resumed
  /\ cli'.peer = cli.peer /\ cli'.session = cli.session /\ cli'.peerSum = cli.peerSum
  /\ Extends(cli'.rest, cli.rest)
  /\ cli'.master.pre.conn = conn
  /\ Signed(cli', "client")
  /\ ClientReads
  /\ \A m \in ToSet(c2s') : m \in ToSet(c2s) \/ Sealed(m, cli'.sum)
  /\ \A m \in Later(c2s') : m \in Later(c2s) \/ Sealed(m, cli'.sum)
  /\ UNCHANGED <<cache, sessions, burnt>>

\* FinishedFlight of the client is a ccs and its Finished.
LEMMA Flight ==
  ASSUME NEW e
  PROVE  /\ Wire(FinishedFlight("client", e)) /\ Signs(ToSet(FinishedFlight("client", e)), SumOf("client", e))
<1>1. ToSet(FinishedFlight("client", e)) = {Msg("ccs", None), Under(Keys(e), "finished", SumOf("client", e))}
      /\ IsSeq(FinishedFlight("client", e))
  BY Short DEF FinishedFlight
<1> QED BY <1>1, Headers DEF Wire, Signs, Sealed, Plain

\* ClientHelloDone gives up (no key exchange, no signature scheme) or seals its flight.
LEMMA HelloDoneDoes ==
  ASSUME NetShape, DOMAIN cli = Fields, IsSeq(cli.rest), ClientHelloDone
  PROVE  (ClientGivesUp \/ ClientSealsFlight) /\ NetShape'
<1> DEFINE chain    == IF cli.request = None THEN None ELSE ChainToSend
           certs    == IF cli.request = None THEN <<>> ELSE <<Msg("certificate", chain)>>
           exchange == <<Msg("clientKeyExchange", PreMaster)>>
           logged   == LoggedAll(Logged(cli, Head(s2c)), certs \o exchange)
           verify   == IF chain = None THEN <<>>
                       ELSE <<Msg("verify", [scheme |-> SigningScheme(chain), signed |-> Transcript(logged)])>>
           done     == [LoggedAll(logged, verify) EXCEPT !.master = MasterFrom(cli, PreMaster)]
           final    == [Logged(done, Msg("finished", None)) EXCEPT !.pc = AwaitServer(cli.sh), !.sum = SumOf("client", done)]
           sent     == certs \o exchange \o verify \o FinishedFlight("client", done)
<1>1. cli.pc \in Middle /\ s2c # <<>> /\ ~Ended(cli)
  BY DEF ClientHelloDone, ClientGets, Ended, Middle, Full
<1>2. /\ Wire(certs) /\ \A m \in ToSet(certs) : Plain(m)
      /\ Wire(exchange) /\ \A m \in ToSet(exchange) : Plain(m)
      /\ Wire(verify) /\ \A m \in ToSet(verify) : Plain(m)
  BY Short, Headers DEF Wire, Plain
<1>3. Wire(certs \o exchange) /\ \A m \in ToSet(certs \o exchange) : Plain(m)
  <2> HIDE DEF certs, exchange
  <2> QED BY <1>2, Joined DEF Wire
<1>4. \/ ClientFails(certs) \/ ClientFails(certs \o exchange) \/ ClientSends(final, sent)
  BY DEF ClientHelloDone
<1>5. CASE ClientFails(certs) \/ ClientFails(certs \o exchange)
  <2> HIDE DEF certs, exchange
  <2> QED BY <1>1, <1>2, <1>3, <1>5, ClientFailsPlainly
<1>6. CASE ClientSends(final, sent)
  <2>1. Wire(sent) /\ Signs(ToSet(sent), SumOf("client", done))
    <3> HIDE DEF certs, exchange, verify, done
    <3>1. Wire(certs \o exchange \o verify) /\ \A m \in ToSet(certs \o exchange \o verify) : Plain(m)
      BY <1>2, <1>3, Joined DEF Wire
    <3> QED BY <3>1, Flight, Joined DEF Wire, Signs, Sealed
  <2>2. cli' = final /\ ClientTakes(ToSet(sent)) /\ NetShape' /\ UNCHANGED <<cache, sessions, burnt>>
    <3> HIDE DEF final, sent
    <3> QED BY <1>1, <1>6, <2>1, ClientSendsNet
  <2>3. /\ DOMAIN logged = Fields /\ Extends(logged.rest, cli.rest)
        /\ \A f \in Fields \ {"rest"} : logged[f] = cli[f]
    <3> HIDE DEF certs, exchange
    <3>1. IsSeq(certs \o exchange)
      BY <1>3 DEF Wire
    <3>2. /\ DOMAIN Logged(cli, Head(s2c)) = Fields /\ Extends(Logged(cli, Head(s2c)).rest, cli.rest)
          /\ \A f \in Fields \ {"rest"} : Logged(cli, Head(s2c))[f] = cli[f]
      BY Logging
    <3>3. IsSeq(Logged(cli, Head(s2c)).rest)
      BY <3>2 DEF Extends
    <3>4. /\ DOMAIN logged = Fields /\ Extends(logged.rest, Logged(cli, Head(s2c)).rest)
          /\ \A f \in Fields \ {"rest"} : logged[f] = Logged(cli, Head(s2c))[f]
      BY <3>1, <3>2, <3>3, LoggingAll
    <3> QED BY <3>2, <3>4, ExtendsTwice
  <2>4. /\ DOMAIN done = Fields /\ Extends(done.rest, cli.rest)
        /\ \A f \in Fields \ {"rest", "master"} : done[f] = cli[f]
        /\ done.master = MasterFrom(cli, PreMaster)
    <3> HIDE DEF logged, verify
    <3>1. IsSeq(verify) /\ IsSeq(logged.rest)
      BY <1>2, <2>3 DEF Wire, Extends
    <3>2. /\ DOMAIN LoggedAll(logged, verify) = Fields /\ Extends(LoggedAll(logged, verify).rest, logged.rest)
          /\ \A f \in Fields \ {"rest"} : LoggedAll(logged, verify)[f] = logged[f]
      BY <2>3, <3>1, LoggingAll
    <3>3. Extends(LoggedAll(logged, verify).rest, cli.rest)
      BY <2>3, <3>2, ExtendsTwice
    <3> QED BY <2>3, <3>2, <3>3 DEF Fields
  <2>5. /\ DOMAIN final = Fields /\ Extends(final.rest, cli.rest)
        /\ \A f \in Fields \ {"rest", "master", "pc", "sum"} : final[f] = cli[f]
        /\ final.master = MasterFrom(cli, PreMaster) /\ final.sum = SumOf("client", done)
        /\ final.pc = AwaitServer(cli.sh)
    <3> HIDE DEF done
    <3>1. /\ DOMAIN Logged(done, Msg("finished", None)) = Fields
          /\ Extends(Logged(done, Msg("finished", None)).rest, done.rest)
          /\ \A f \in Fields \ {"rest"} : Logged(done, Msg("finished", None))[f] = done[f]
      BY <2>4, Logging DEF Extends
    <3>2. Extends(Logged(done, Msg("finished", None)).rest, cli.rest)
      BY <2>4, <3>1, ExtendsTwice
    <3> QED BY <2>4, <3>1, <3>2 DEF Fields
  <2>6. Signed(cli', "client") /\ cli'.master.pre.conn = conn
    <3>1. /\ cli'.master = MasterFrom(cli, PreMaster) /\ cli'.sum = SumOf("client", done)
          /\ cli'.ch = cli.ch /\ cli'.sh = cli.sh
      <4> HIDE DEF done, final
      <4> QED BY <2>2, <2>5 DEF Fields
    <3>2. done.master = cli'.master /\ done.ch = cli.ch /\ done.sh = cli.sh
      <4> HIDE DEF done
      <4> QED BY <2>4, <3>1 DEF Fields
    <3> HIDE DEF done, final
    <3> QED BY <3>1, <3>2 DEF Signed, SumOf, Transcript, MasterFrom, PreMaster
  <2>7. ClientSealsFlight
    <3> HIDE DEF done, final, sent
    <3> QED BY <1>1, <2>1, <2>2, <2>5, <2>6 DEF ClientSealsFlight, ClientTakes, ClientAdds,
               Signs, Fields, AwaitServer
  <2> QED BY <2>2, <2>7
<1> QED BY <1>4, <1>5, <1>6

\* A ticket for a session to come.
ClientKeepsTicket ==
  /\ cli.pc = "ticket" /\ Head(s2c).type = "ticket"
  /\ cli' = [Logged(cli, Head(s2c)) EXCEPT
       !.pc = "ccs",
       !.session = [ticket |-> Head(s2c).body, vers |-> cli.sh.vers, suite |-> cli.sh.suite,
                    master |-> cli.master, cert |-> cli.peer,
                    verified |-> IF cli.resumed THEN cli.offered.verified ELSE ~ccfg.insecure]]
  /\ ClientQuiet

\* ClientTicket keeps it, with the secret and the certificate of this handshake.
LEMMA TicketDoes == ASSUME NetShape, ClientTicket PROVE ClientKeepsTicket /\ NetShape'
<1> DEFINE e == [Logged(cli, Head(s2c)) EXCEPT
                   !.pc = "ccs",
                   !.session = [ticket |-> Head(s2c).body, vers |-> cli.sh.vers, suite |-> cli.sh.suite,
                                master |-> cli.master, cert |-> cli.peer,
                                verified |-> IF cli.resumed THEN cli.offered.verified ELSE ~ccfg.insecure]]
<1>1. cli.pc = "ticket" /\ s2c # <<>> /\ Head(s2c).type = "ticket" /\ ClientNext(e)
  BY DEF ClientTicket, ClientGets
<1>2. cli' = e /\ ClientQuiet /\ NetShape'
  BY <1>1, ClientNextNet
<1> QED BY <1>1, <1>2 DEF ClientKeepsTicket

\* The keys change.
ClientRekeys ==
  /\ cli.pc = "ccs" /\ cli' = [cli EXCEPT !.pc = "finished", !.key = Keys(cli)]
  /\ ClientQuiet

\* ClientChangeCipherSpec only changes keys.
LEMMA ClientCcsDoes == ASSUME NetShape, ClientChangeCipherSpec PROVE ClientRekeys /\ NetShape'
<1>1. cli.pc = "ccs" /\ s2c # <<>> /\ ClientNext([cli EXCEPT !.pc = "finished", !.key = Keys(cli)])
  BY DEF ClientChangeCipherSpec, ClientGets
<1> QED BY <1>1, ClientNextNet DEF ClientRekeys

\* The server's Finished is the one expected: the session goes to the cache,
\* and a resumed handshake still has the client's Finished to send.
ClientCompletes ==
  /\ cli.pc = "finished" /\ cli'.pc = "complete" /\ DOMAIN cli' = DOMAIN cli
  /\ Head(s2c).type = "finished" /\ Head(s2c).body = SumOf("server", cli)
  /\ cli'.ch = cli.ch /\ cli'.sh = cli.sh /\ cli'.offered = cli.offered /\ cli'.resumed = cli.resumed
  /\ cli'.peer = cli.peer /\ cli'.master = cli.master /\ cli'.session = cli.session
  /\ cli'.peerSum = Head(s2c).body
  /\ Extends(cli'.rest, cli.rest)
  /\ IF cli.resumed THEN Signed(cli', "client") ELSE cli'.sum = cli.sum
  /\ ClientReads
  /\ \A m \in ToSet(c2s') : m \in ToSet(c2s) \/ (cli.resumed /\ Sealed(m, cli'.sum))
  /\ \A m \in Later(c2s') : m \in Later(c2s) \/ (cli.resumed /\ Sealed(m, cli'.sum))
  /\ cache' = IF cli.session = None THEN cache ELSE [cache EXCEPT ![CacheKey(ccfg)] = cli.session]
  /\ UNCHANGED <<sessions, burnt>>

\* ClientFinished gives up on any other Finished.
LEMMA ClientFinishedDoes ==
  ASSUME NetShape, DOMAIN cli = Fields, IsSeq(cli.rest), cli.resumed \in BOOLEAN, ClientFinished
  PROVE  (ClientGivesUp \/ ClientCompletes) /\ NetShape'
<1> DEFINE read == [Logged(cli, Head(s2c)) EXCEPT !.pc = "complete", !.peerSum = Head(s2c).body]
<1>1. cli.pc = "finished" /\ s2c # <<>> /\ Head(s2c).type = "finished" /\ ~Ended(cli)
  BY DEF ClientFinished, ClientGets, Ended
<1>2. CASE ~GoodFinished("server", cli, Head(s2c))
  BY <1>1, <1>2, ClientQuits DEF ClientFinished
<1>3. CASE GoodFinished("server", cli, Head(s2c))
  <2>1. /\ cli' = IF cli.resumed THEN [read EXCEPT !.sum = SumOf("client", read)] ELSE read
        /\ c2s' = IF cli.resumed THEN Send(c2s, FinishedFlight("client", read)) ELSE c2s
        /\ s2c' = Tail(s2c)
        /\ cache' = IF cli.session = None THEN cache
                    ELSE [cache EXCEPT ![CacheKey(ccfg)] = cli.session]
        /\ UNCHANGED <<world, srv, sessions, burnt>>
    BY <1>3 DEF ClientFinished
  <2>2. Head(s2c).body = SumOf("server", cli)
    BY <1>3 DEF GoodFinished
  <2>3. /\ DOMAIN read = Fields /\ Extends(read.rest, cli.rest)
        /\ \A f \in Fields \ {"rest", "pc", "peerSum"} : read[f] = cli[f]
        /\ read.pc = "complete" /\ read.peerSum = Head(s2c).body
    <3>1. /\ DOMAIN Logged(cli, Head(s2c)) = Fields
          /\ Extends(Logged(cli, Head(s2c)).rest, cli.rest)
          /\ \A f \in Fields \ {"rest"} : Logged(cli, Head(s2c))[f] = cli[f]
      BY Logging
    <3> QED BY <3>1 DEF Fields
  <2> HIDE DEF read
  <2>4. /\ DOMAIN cli' = Fields /\ Extends(cli'.rest, cli.rest)
        /\ \A f \in Fields \ {"rest", "pc", "peerSum", "sum"} : cli'[f] = cli[f]
        /\ cli'.pc = "complete" /\ cli'.peerSum = Head(s2c).body
        /\ cli'.sum = IF cli.resumed THEN SumOf("client", read) ELSE cli.sum
    BY <2>1, <2>3 DEF Fields
  <2>5. cli.resumed => Signed(cli', "client")
    <3>1. read.ch = cli.ch /\ read.sh = cli.sh /\ read.master = cli.master
      BY <2>3 DEF Fields
    <3>2. cli'.ch = cli.ch /\ cli'.sh = cli.sh /\ cli'.master = cli.master
      BY <2>4 DEF Fields
    <3> QED BY <2>4, <3>1, <3>2 DEF Signed, SumOf, Transcript
  <2>6. /\ IsSeq(s2c') /\ ToSet(s2c') = Later(s2c) /\ Later(s2c') \subseteq Later(s2c)
        /\ Head(s2c) \in ToSet(s2c) /\ Later(s2c) \subseteq ToSet(s2c)
    BY <1>1, <2>1, Taken DEF NetShape
  <2> DEFINE sent == IF cli.resumed THEN FinishedFlight("client", read) ELSE <<>>
  <2>7. /\ IsSeq(c2s') /\ ToSet(c2s') \subseteq ToSet(c2s) \cup ToSet(sent)
        /\ Later(c2s') \subseteq Later(c2s) \cup ToSet(sent)
    BY <2>1, Flight, Sent, Short DEF Wire, NetShape
  <2>8. IF cli.resumed THEN Signs(ToSet(sent), cli'.sum) ELSE ToSet(sent) = {}
    BY <2>4, Flight, Short
  <2>9. Wire(sent)
    BY Flight, NothingSent
  <2> HIDE DEF sent
  <2>10. NetShape'
    BY <2>6, <2>7, <2>9 DEF NetShape, Wire
  <2>11. ClientReads
    BY <1>1, <2>1, <2>6 DEF ClientReads
  <2>12. /\ \A m \in ToSet(c2s') : m \in ToSet(c2s) \/ (cli.resumed /\ Sealed(m, cli'.sum))
         /\ \A m \in Later(c2s') : m \in Later(c2s) \/ (cli.resumed /\ Sealed(m, cli'.sum))
    BY <2>7, <2>8 DEF Signs
  <2>13. ClientCompletes
    BY <1>1, <2>1, <2>2, <2>4, <2>5, <2>11, <2>12 DEF ClientCompletes, Fields
  <2> QED BY <2>10, <2>13
<1> QED BY <1>2, <1>3

----------------------------------------------------------------------------
(* The steps of the server.                                                *)

\* A step within the client's flight: its certificate is one the server accepts.
ServerReadsOn ==
  /\ srv.pc \in {"certificate", "clientKeyExchange", "verify"} /\ srv'.pc \in {"clientKeyExchange", "verify", "ccs"}
  /\ DOMAIN srv' = DOMAIN srv
  /\ srv'.ch = srv.ch /\ srv'.sh = srv.sh /\ srv'.resumed = srv.resumed /\ srv'.sum = srv.sum
  /\ srv'.offered = srv.offered
  /\ Extends(srv'.rest, srv.rest)
  /\ \/ srv.pc = "certificate" /\ AcceptsClient(srv'.peer)
     \/ srv.pc # "certificate" /\ srv'.peer = srv.peer
  /\ ServerQuiet

\* ServerCertificate, ServerClientKeyExchange and ServerVerify log the message and
\* go on, or give up.
LEMMA ServerReadsOnDoes ==
  ASSUME NetShape, DOMAIN srv = Fields, IsSeq(srv.rest), ServerCertificate \/ ServerClientKeyExchange \/ ServerVerify
  PROVE  (ServerGivesUp \/ ServerReadsOn) /\ NetShape'
<1>1. srv.pc \in {"certificate", "clientKeyExchange", "verify"} /\ c2s # <<>> /\ ~Ended(srv)
  BY DEF ServerCertificate, ServerClientKeyExchange, ServerVerify, ServerGets, Ended
<1>2. /\ DOMAIN Logged(srv, Head(c2s)) = Fields /\ Extends(Logged(srv, Head(c2s)).rest, srv.rest)
      /\ \A f \in Fields \ {"rest"} : Logged(srv, Head(c2s))[f] = srv[f]
  BY Logging
<1>3. \A e : ServerNext(e, <<>>) => srv' = e /\ ServerQuiet /\ NetShape'
  BY <1>1, NothingSent, ServerNextNet DEF ServerQuiet
<1>4. CASE ServerFails(srv, <<>>)
  BY <1>1, <1>4, ServerQuits
<1>5. CASE ServerCertificate /\ ~ServerFails(srv, <<>>)
  <2> DEFINE e == [Logged(srv, Head(c2s)) EXCEPT !.pc = "clientKeyExchange", !.peer = Head(c2s).body]
  <2>1. ServerNext(e, <<>>) /\ AcceptsClient(Head(c2s).body) /\ srv.pc = "certificate"
    BY <1>5 DEF ServerCertificate
  <2>2. srv' = e /\ ServerQuiet /\ NetShape'
    BY <1>3, <2>1
  <2>3. /\ DOMAIN e = Fields /\ Extends(e.rest, srv.rest) /\ e.pc = "clientKeyExchange" /\ e.peer = Head(c2s).body
        /\ \A f \in Fields \ {"rest", "pc", "peer"} : e[f] = srv[f]
    BY <1>2 DEF Fields
  <2> HIDE DEF e
  <2> QED BY <1>1, <2>1, <2>2, <2>3 DEF ServerReadsOn, Fields
<1>6. CASE ServerClientKeyExchange
  <2> DEFINE e == [Logged(srv, Head(c2s)) EXCEPT !.pc = IF srv.peer = None THEN "ccs" ELSE "verify",
                                                 !.master = MasterFrom(srv, Head(c2s).body)]
  <2>1. ServerNext(e, <<>>) /\ srv.pc = "clientKeyExchange"
    BY <1>6 DEF ServerClientKeyExchange
  <2>2. srv' = e /\ ServerQuiet /\ NetShape'
    BY <1>3, <2>1
  <2>3. /\ DOMAIN e = Fields /\ Extends(e.rest, srv.rest) /\ e.pc \in {"ccs", "verify"}
        /\ \A f \in Fields \ {"rest", "pc", "master"} : e[f] = srv[f]
    BY <1>2 DEF Fields
  <2> HIDE DEF e
  <2> QED BY <1>1, <2>1, <2>2, <2>3 DEF ServerReadsOn, Fields
<1>7. CASE ServerVerify /\ ~ServerFails(srv, <<>>)
  <2> DEFINE e == [Logged(srv, Head(c2s)) EXCEPT !.pc = "ccs"]
  <2>1. ServerNext(e, <<>>) /\ srv.pc = "verify"
    BY <1>7 DEF ServerVerify
  <2>2. srv' = e /\ ServerQuiet /\ NetShape'
    BY <1>3, <2>1
  <2>3. /\ DOMAIN e = Fields /\ Extends(e.rest, srv.rest) /\ e.pc = "ccs"
        /\ \A f \in Fields \ {"rest", "pc"} : e[f] = srv[f]
    BY <1>2 DEF Fields
  <2> HIDE DEF e
  <2> QED BY <1>1, <2>1, <2>2, <2>3 DEF ServerReadsOn, Fields
<1> QED BY <1>4, <1>5, <1>6, <1>7

\* The keys change.
ServerRekeys ==
  /\ srv.pc = "ccs" /\ srv' = [srv EXCEPT !.pc = "finished", !.key = Keys(srv)]
  /\ ServerQuiet

\* ServerChangeCipherSpec only changes keys.
LEMMA ServerCcsDoes == ASSUME NetShape, ServerChangeCipherSpec PROVE ServerRekeys /\ NetShape'
<1>1. srv.pc = "ccs" /\ c2s # <<>> /\ ServerNext([srv EXCEPT !.pc = "finished", !.key = Keys(srv)], <<>>)
  BY DEF ServerChangeCipherSpec, ServerGets
<1> QED BY <1>1, NothingSent, ServerNextNet DEF ServerRekeys, ServerQuiet

\* A flight that opens with a hello.
Opens(q, hello, others) ==
  Wire(q) /\ ToSet(q) \subseteq {hello} \cup others /\ Later(q) \subseteq others

\* A hello, and flights that go on with one.
LEMMA Opening ==
  ASSUME NEW hello, DOMAIN hello = Header
  PROVE  /\ Opens(<<hello>>, hello, {})
         /\ \A q, r, F : Opens(q, hello, F) /\ Wire(r) => Opens(q \o r, hello, F \cup ToSet(r))
<1>1. IsSeq(<<hello>>) /\ ToSet(<<hello>>) = {hello} /\ Later(<<hello>>) = {}
  BY Short DEF Later
<1>2. ASSUME NEW q, NEW r, NEW F, Opens(q, hello, F), Wire(r) PROVE Opens(q \o r, hello, F \cup ToSet(r))
  <2>1. IsSeq(q \o r) /\ ToSet(q \o r) = ToSet(q) \cup ToSet(r) /\ Later(q \o r) \subseteq Later(q) \cup ToSet(r)
    BY <1>2, Joined DEF Opens, Wire
  <2> QED BY <1>2, <2>1 DEF Opens, Wire
<1> QED BY <1>1, <1>2 DEF Opens, Wire

\* The first flight of a server.
ServerReadsHello ==
  /\ srv.pc = "clientHello" /\ c2s # <<>> /\ Head(c2s) \in ToSet(c2s) /\ Head(c2s).type = "clientHello"
  /\ ToSet(c2s') \subseteq Later(c2s) /\ Later(c2s') \subseteq Later(c2s)
  /\ UNCHANGED <<world, cache, cli, sessions, burnt>>

\* A hello that opens a handshake, and what the server goes on with.
ServerTakesHello(hello, others) ==
  /\ ServerReadsHello
  /\ ToSet(s2c') \subseteq {hello} \cup others /\ Later(s2c') \subseteq others

\* What is on its way after a server has answered a hello, going on or failing.
LEMMA AnswerNet ==
  ASSUME NetShape, s2c = <<>>, srv.pc = "clientHello", ServerGets("clientHello"),
         NEW e, NEW sent, NEW hello, NEW others, Opens(sent, hello, others)
  PROVE  /\ ServerNext(e, sent) => srv' = e /\ ServerTakesHello(hello, others) /\ NetShape'
         /\ ServerFails(e, sent) =>
              /\ srv' = [e EXCEPT !.pc = "failed"] /\ ServerTakesHello(hello, others \cup {Close}) /\ NetShape'
              /\ c2s' = <<>>
<1>1. c2s # <<>> /\ Head(c2s).type = "clientHello" /\ Wire(sent) /\ Wire(s2c) /\ Wire(c2s) /\ Later(s2c) = {}
      /\ ToSet(s2c) = {}
  BY Short DEF ServerGets, Opens, NetShape, Wire, Later
<1>2. Head(c2s) \in ToSet(c2s) /\ Wire(Tail(c2s)) /\ ToSet(Tail(c2s)) = Later(c2s) /\ Later(Tail(c2s)) \subseteq Later(c2s)
  BY <1>1, Taken DEF Wire
<1>3. \A q : Send(s2c, q) = q \/ Send(s2c, q) = s2c
  BY <1>1, Joined DEF Send, Wire
<1>4. ASSUME ServerNext(e, sent) PROVE srv' = e /\ ServerTakesHello(hello, others) /\ NetShape'
  <2>1. srv' = e /\ c2s' = Tail(c2s) /\ s2c' = Send(s2c, sent) /\ UNCHANGED <<world, cache, cli, sessions, burnt>>
    BY <1>4 DEF ServerNext
  <2>2. (s2c' = sent /\ IsSeq(sent)) \/ s2c' = s2c
    BY <1>1, <2>1, Joined DEF Wire, Send
  <2>3. NetShape'
    BY <1>1, <1>2, <2>1, <2>2 DEF NetShape, Wire
  <2> QED BY <1>1, <1>2, <2>1, <2>2, <2>3 DEF Opens, ServerReadsHello, ServerTakesHello
<1>5. ASSUME ServerFails(e, sent)
      PROVE  /\ srv' = [e EXCEPT !.pc = "failed"] /\ ServerTakesHello(hello, others \cup {Close}) /\ NetShape'
             /\ c2s' = <<>>
  <2>1. /\ srv' = [e EXCEPT !.pc = "failed"] /\ c2s' = <<>> /\ s2c' = Send(s2c, Append(sent, Close))
        /\ UNCHANGED <<world, cache, cli, sessions, burnt>>
    BY <1>5 DEF ServerFails
  <2>2. Append(sent, Close) = sent \o <<Close>>
    BY <1>1 DEF Wire, IsSeq
  <2>3. IsSeq(<<Close>>) /\ ToSet(<<Close>>) = {Close} /\ DOMAIN Close = Header
    BY Short, Headers DEF Close
  <2>4. /\ IsSeq(sent \o <<Close>>) /\ ToSet(sent \o <<Close>>) = ToSet(sent) \cup {Close}
        /\ Later(sent \o <<Close>>) \subseteq Later(sent) \cup {Close}
    BY <1>1, <2>3, Joined DEF Wire
  <2>5. s2c' = sent \o <<Close>> \/ s2c' = s2c
    BY <1>1, <2>1, <2>2, <2>4, Joined DEF Wire, Send
  <2>6. ToSet(c2s') = {} /\ Later(c2s') = {} /\ IsSeq(c2s')
    BY <2>1, Short DEF Later
  <2>7. Wire(s2c')
    <3>1. Wire(sent \o <<Close>>)
      BY <1>1, <2>3, <2>4 DEF Wire
    <3> QED BY <1>1, <2>5, <3>1
  <2>8. NetShape'
    BY <2>6, <2>7 DEF NetShape, Wire
  <2> QED BY <1>1, <1>2, <2>1, <2>3, <2>4, <2>5, <2>6, <2>8 DEF Opens, ServerReadsHello,
             ServerTakesHello
<1> QED BY <1>4, <1>5

\* The hello of a server, as its first message.
ShowsHello(m, sh) == m.type = "serverHello" /\ m.body = sh
LEMMA Shown == \A sh : ShowsHello(Msg("serverHello", sh), sh)
BY Headers DEF ShowsHello

\* The server fails after its hello.
ServerRefuses ==
  /\ srv'.pc = "failed" /\ DOMAIN srv' = Fields /\ srv'.ch = Head(c2s).body /\ srv'.resumed = FALSE /\ IsSeq(srv'.rest)
  /\ ServerReadsHello
  /\ \A m \in ToSet(s2c') : ShowsHello(m, srv'.sh) \/ Plain(m)
  /\ \A m \in Later(s2c') : Plain(m)
  /\ c2s' = <<>>

\* What follows the hello of a server that resumes, or ends its last flight.
Closes(m, e) ==
  \/ Sealed(m, e.sum)
  \/ /\ m.type = "ticket" /\ m.body.state.master = e.master /\ m.body.state.cert = e.peer
     /\ m.body.state.vers = e.sh.vers /\ m.body.state.suite = e.sh.suite
Closing(sent, e) == \A m \in sent : Closes(m, e)

\* The server goes on with the session of a ticket: doResumeHandshake.
ServerGoesOn ==
  /\ srv'.pc = "ccs" /\ DOMAIN srv' = Fields /\ srv'.ch = Head(c2s).body /\ srv'.resumed = TRUE /\ IsSeq(srv'.rest)
  /\ srv'.ch.sessionTicket # None /\ srv'.offered = srv'.ch.sessionTicket.state
  /\ srv'.sh.sessionId = srv'.ch.sessionId
  /\ srv'.master = srv'.offered.master /\ srv'.peer = srv'.offered.cert
  /\ AcceptsClient(srv'.peer) /\ CarriesOver(srv'.peer)
  /\ Signed(srv', "server")
  /\ ServerReadsHello
  /\ \A m \in ToSet(s2c') : ShowsHello(m, srv'.sh) \/ Closes(m, srv')
  /\ \A m \in Later(s2c') : Closes(m, srv')

\* The server's flight of a full handshake: doFullHandshake.
ServerStarts ==
  /\ srv'.pc = IF scfg.clientAuth = "NoClientCert" THEN "clientKeyExchange" ELSE "certificate"
  /\ DOMAIN srv' = Fields /\ srv'.ch = Head(c2s).body /\ srv'.resumed = FALSE
  /\ IsSeq(srv'.rest) /\ srv'.rest # <<>>
  /\ srv'.rest[1] = Msg("certificate", GetCertificate(scfg, srv'.ch.serverName))
  /\ srv'.sh.sessionId = None /\ srv'.peer = None
  /\ ServerReadsHello
  /\ \A m \in ToSet(s2c') : ShowsHello(m, srv'.sh) \/ Plain(m)
  /\ \A m \in Later(s2c') : Plain(m)

\* FinishedFlight of the server is a ccs and its Finished.
LEMMA ServerFlight ==
  ASSUME NEW e
  PROVE  /\ Wire(FinishedFlight("server", e))
         /\ \A m \in ToSet(FinishedFlight("server", e)) :
              Plain(m) \/ (m.type = "finished" /\ m.body = SumOf("server", e))
<1>1. ToSet(FinishedFlight("server", e)) = {Msg("ccs", None), Under(Keys(e), "finished", SumOf("server", e))}
      /\ IsSeq(FinishedFlight("server", e))
  BY Short DEF FinishedFlight
<1> QED BY <1>1, Headers DEF Wire, Plain

\* The tickets a server sends.
LEMMA Granted ==
  ASSUME NEW e
  PROVE  /\ Wire(<<Msg("ticket", SessionTicket(e))>>)
         /\ \A m \in ToSet(<<Msg("ticket", SessionTicket(e))>>) :
              /\ m.type = "ticket" /\ m.body.state.master = e.master /\ m.body.state.cert = e.peer
              /\ m.body.state.vers = e.sh.vers /\ m.body.state.suite = e.sh.suite
BY Short, Headers DEF Wire, SessionTicket, EncryptTicket

\* Answered sets the two hellos.
LEMMA AnsweredFields ==
  ASSUME DOMAIN srv = Fields, srv.rest = <<>>, NEW ch, NEW sh
  PROVE  /\ DOMAIN Answered(ch, sh) = Fields /\ Answered(ch, sh).ch = ch /\ Answered(ch, sh).sh = sh
         /\ Answered(ch, sh).rest = <<>>
         /\ \A f \in Fields \ {"ch", "sh"} : Answered(ch, sh)[f] = srv[f]
BY DEF Answered, Fields

\* A hello and plain messages.
OpensPlainly(q, hello) == \E others : Opens(q, hello, others) /\ \A m \in others : Plain(m)

\* ServerFails after a hello refuses.
LEMMA RefusalDoes ==
  ASSUME NetShape, DOMAIN srv = Fields, srv.rest = <<>>, srv.resumed = FALSE, s2c = <<>>, srv.pc = "clientHello",
         ServerGets("clientHello"), NEW sh, NEW sent,
         OpensPlainly(sent, Msg("serverHello", sh)), ServerFails(Answered(Head(c2s).body, sh), sent)
  PROVE  ServerRefuses /\ NetShape'
<1> DEFINE ch == Head(c2s).body
           e == Answered(ch, sh)
           hello == Msg("serverHello", sh)
<1> PICK others : Opens(sent, hello, others) /\ \A m \in others : Plain(m)
  BY DEF OpensPlainly
<1>1. /\ srv' = [e EXCEPT !.pc = "failed"] /\ ServerTakesHello(hello, others \cup {Close}) /\ NetShape' /\ c2s' = <<>>
  <2> HIDE DEF e, hello
  <2>1. ServerFails(e, sent) /\ Opens(sent, hello, others)
    BY DEF e, hello
  <2> QED BY <2>1, AnswerNet
<1>2. /\ DOMAIN e = Fields /\ e.ch = ch /\ e.sh = sh /\ e.rest = <<>>
      /\ \A f \in Fields \ {"ch", "sh"} : e[f] = srv[f]
  BY AnsweredFields
<1>3. Plain(Close)
  BY Headers DEF Close, Plain
<1> HIDE DEF e
<1>4. /\ srv'.pc = "failed" /\ DOMAIN srv' = Fields /\ srv'.ch = ch /\ srv'.resumed = FALSE /\ IsSeq(srv'.rest) /\ srv'.sh = sh
  BY <1>1, <1>2, Short DEF Fields
<1> QED BY <1>1, <1>3, <1>4, Shown DEF ServerRefuses, ServerTakesHello

\* ServerResumes goes on with what the ticket holds, or refuses (the client's
\* certificate is not accepted today).
LEMMA ResumptionDoes ==
  ASSUME NetShape, DOMAIN srv = Fields, srv.rest = <<>>, srv.resumed = FALSE, s2c = <<>>, srv.pc = "clientHello",
         ServerGets("clientHello"), NEW vers, NEW cert,
         Resumes(Head(c2s).body, vers, cert), ServerResumes(Head(c2s).body, vers, cert)
  PROVE  (ServerRefuses \/ ServerGoesOn) /\ NetShape'
<1> DEFINE ch     == Head(c2s).body
           state  == Opened(ch.sessionTicket)
           sh     == [ServerHello(ch, vers, state.suite) EXCEPT
                        !.sessionId = ch.sessionId, !.ticketSupported = ch.sessionTicket.key # ticketKeys[1]]
           hello  == Msg("serverHello", sh)
           e      == [Answered(ch, sh) EXCEPT
                        !.resumed = TRUE, !.offered = state, !.peer = state.cert, !.master = state.master]
           ticket == IF sh.ticketSupported THEN <<Msg("ticket", SessionTicket(e))>> ELSE <<>>
           done   == LoggedAll(e, ticket)
           final  == [Logged(done, Msg("finished", None)) EXCEPT !.pc = "ccs", !.sum = SumOf("server", done)]
           sent   == <<hello>> \o ticket \o FinishedFlight("server", done)
<1>1. /\ state # None /\ ch.sessionTicket # None /\ state = ch.sessionTicket.state
      /\ CarriesOver(state.cert)
  BY DEF Resumes, Opened
<1>2. sh.sessionId = ch.sessionId
  BY DEF ServerHello
<1>3. DOMAIN hello = Header /\ Opens(<<hello>>, hello, {})
  <2> HIDE DEF sh
  <2> QED BY Headers, Opening
<1>4. CASE ~AcceptsClient(state.cert)
  <2>1. ServerFails(Answered(ch, sh), <<hello>>)
    BY <1>4 DEF ServerResumes
  <2> DEFINE first == <<hello>>
  <2>2. ServerFails(Answered(Head(c2s).body, sh), first) /\ OpensPlainly(first, Msg("serverHello", sh))
    <3> HIDE DEF sh
    <3>1. OpensPlainly(first, Msg("serverHello", sh))
      <4>1. \A m \in {} : Plain(m)
        OBVIOUS
      <4> QED BY <1>3, <4>1 DEF OpensPlainly
    <3> QED BY <2>1, <3>1
  <2> HIDE DEF sh, first
  <2> QED BY <2>2, RefusalDoes
<1>5. CASE AcceptsClient(state.cert)
  <2>1. ServerNext(final, sent)
    BY <1>5 DEF ServerResumes
  <2>2. /\ DOMAIN e = Fields /\ e.ch = ch /\ e.sh = sh /\ IsSeq(e.rest) /\ e.resumed = TRUE /\ e.offered = state
        /\ e.peer = state.cert /\ e.master = state.master
    <3> HIDE DEF sh, state, ch
    <3>1. /\ DOMAIN Answered(ch, sh) = Fields /\ Answered(ch, sh).ch = ch /\ Answered(ch, sh).sh = sh
          /\ Answered(ch, sh).rest = <<>>
      BY AnsweredFields
    <3> QED BY <3>1, Short DEF Fields
  <2>3. /\ Wire(ticket)
        /\ \A m \in ToSet(ticket) :
             /\ m.type = "ticket" /\ m.body.state.master = e.master /\ m.body.state.cert = e.peer
             /\ m.body.state.vers = e.sh.vers /\ m.body.state.suite = e.sh.suite
    <3> HIDE DEF e, sh
    <3> QED BY Granted, NothingSent
  <2> HIDE DEF e, ticket, state, sh
  <2>4. /\ DOMAIN done = Fields /\ IsSeq(done.rest) /\ \A f \in Fields \ {"rest"} : done[f] = e[f]
    BY <2>2, <2>3, LoggingAll DEF Wire, Extends
  <2>5. /\ DOMAIN Logged(done, Msg("finished", None)) = Fields /\ IsSeq(Logged(done, Msg("finished", None)).rest)
        /\ \A f \in Fields \ {"rest"} : Logged(done, Msg("finished", None))[f] = done[f]
    <3> HIDE DEF done
    <3> QED BY <2>4, Logging DEF Extends
  <2>6. /\ DOMAIN final = Fields /\ IsSeq(final.rest) /\ final.pc = "ccs" /\ final.sum = SumOf("server", done)
        /\ \A f \in Fields \ {"rest", "pc", "sum"} : final[f] = done[f]
    <3> HIDE DEF done
    <3> QED BY <2>5 DEF Fields
  <2> DEFINE others == ToSet(ticket) \cup ToSet(FinishedFlight("server", done))
  <2>7. Opens(sent, hello, others)
    <3> HIDE DEF done, hello
    <3>1. Opens(<<hello>> \o ticket, hello, {} \cup ToSet(ticket))
      BY <1>3, <2>3, Opening
    <3>2. Opens(sent, hello, {} \cup ToSet(ticket) \cup ToSet(FinishedFlight("server", done)))
      BY <1>3, <3>1, ServerFlight, Opening
    <3> QED BY <3>2
  <2>8. srv' = final /\ ServerTakesHello(hello, others) /\ NetShape'
    <3> HIDE DEF final, sent, hello, others
    <3> QED BY <2>1, <2>7, AnswerNet
  <2>9. /\ final.ch = ch /\ final.sh = sh /\ final.resumed = TRUE /\ final.offered = state
        /\ final.peer = state.cert /\ final.master = state.master
        /\ done.ch = ch /\ done.sh = sh /\ done.master = state.master
    <3> HIDE DEF done, final
    <3> QED BY <2>2, <2>4, <2>6 DEF Fields
  <2>10. Closing(others, final)
    <3> HIDE DEF done, final
    <3> QED BY <2>2, <2>3, <2>6, <2>9, ServerFlight DEF Closing, Closes, Sealed
  <2>11. Signed(final, "server")
    <3> HIDE DEF done, final
    <3> QED BY <2>6, <2>9 DEF Signed, SumOf, Transcript
  <2>12. ServerGoesOn
    <3> HIDE DEF done, final, others
    <3> QED BY <1>1, <1>2, <1>5, <2>6, <2>8, <2>9, <2>10, <2>11, Shown
           DEF ServerGoesOn, ServerTakesHello, Closing
  <2> QED BY <2>8, <2>12
<1> QED BY <1>4, <1>5

\* The messages between the hello of a server and its hello done.
LEMMA FullFlight ==
  ASSUME NEW ch, NEW sh, NEW cert, NEW vers
  PROVE  LET certs  == <<Msg("certificate", cert)>> \o (IF cert.staple THEN <<Msg("status", None)>> ELSE <<>>)
             flight == certs \o Exchange(ch, sh, cert) \o Request(vers) \o <<Msg("helloDone", None)>>
         IN  /\ Wire(certs) /\ \A m \in ToSet(certs) : Plain(m)
             /\ Wire(flight) /\ \A m \in ToSet(flight) : Plain(m)
             /\ flight # <<>> /\ flight[1] = Msg("certificate", cert)
<1> DEFINE first  == <<Msg("certificate", cert)>>
           status == IF cert.staple THEN <<Msg("status", None)>> ELSE <<>>
           certs  == first \o status
           done   == <<Msg("helloDone", None)>>
           all    == certs \o Exchange(ch, sh, cert) \o Request(vers) \o done
           Good(q) == Wire(q) /\ \A m \in ToSet(q) : Plain(m)
<1>1. Good(first) /\ first # <<>> /\ first[1] = Msg("certificate", cert)
  BY Short, Headers DEF Wire, Plain
<1>2. Good(status) /\ Good(done)
  BY Short, Headers DEF Wire, Plain
<1>3. Good(Exchange(ch, sh, cert))
  <2>1. \A body : Good(<<Msg("keyExchange", body)>>)
    BY Short, Headers DEF Wire, Plain
  <2> HIDE DEF Good
  <2>2. Good(<<>>)
    BY NothingSent DEF Good
  <2> QED BY <2>1, <2>2 DEF Exchange
<1>4. Good(Request(vers))
  <2>1. \A body : Good(<<Msg("request", body)>>)
    BY Short, Headers DEF Wire, Plain
  <2> HIDE DEF Good
  <2>2. Good(<<>>)
    BY NothingSent DEF Good
  <2> QED BY <2>1, <2>2 DEF Request
<1>5. \A q, r : Good(q) /\ Good(r) => Good(q \o r) /\ (q # <<>> => q \o r # <<>> /\ (q \o r)[1] = q[1])
  BY Joined DEF Wire
<1> HIDE DEF Good, first, status, done
<1>6. Good(certs) /\ certs # <<>> /\ certs[1] = Msg("certificate", cert)
  BY <1>1, <1>2, <1>5
<1> HIDE DEF certs
<1>7. LET q == certs \o Exchange(ch, sh, cert) IN Good(q) /\ q # <<>> /\ q[1] = Msg("certificate", cert)
  BY <1>3, <1>5, <1>6
<1>8. LET q == certs \o Exchange(ch, sh, cert) \o Request(vers) IN Good(q) /\ q # <<>> /\ q[1] = Msg("certificate", cert)
  BY <1>4, <1>5, <1>7
<1>9. Good(all) /\ all # <<>> /\ all[1] = Msg("certificate", cert)
  BY <1>2, <1>5, <1>8
<1> QED BY <1>6, <1>9 DEF Good, certs, first, status, done

\* ServerStartsFull starts, with the certificate it has for the name, or refuses.
LEMMA StartsFullDoes ==
  ASSUME NetShape, DOMAIN srv = Fields, srv.rest = <<>>, srv.resumed = FALSE, srv.peer = None, s2c = <<>>,
         srv.pc = "clientHello", ServerGets("clientHello"), NEW vers, NEW suite,
         ServerStartsFull(Head(c2s).body, vers, suite, GetCertificate(scfg, Head(c2s).body.serverName))
  PROVE  (ServerRefuses \/ ServerStarts) /\ NetShape'
<1> DEFINE ch     == Head(c2s).body
           cert   == GetCertificate(scfg, ch.serverName)
           sh     == [ServerHello(ch, vers, suite) EXCEPT
                        !.ticketSupported = ch.ticketSupported /\ scfg.tickets, !.ocspStapling = cert.staple]
           hello  == Msg("serverHello", sh)
           certs  == <<Msg("certificate", cert)>> \o (IF cert.staple THEN <<Msg("status", None)>> ELSE <<>>)
           flight == certs \o Exchange(ch, sh, cert) \o Request(vers) \o <<Msg("helloDone", None)>>
           final  == [LoggedAll(Answered(ch, sh), flight) EXCEPT
                        !.pc = IF scfg.clientAuth = "NoClientCert" THEN "clientKeyExchange" ELSE "certificate"]
<1>1. \/ ServerFails(Answered(ch, sh), <<hello>> \o certs)
      \/ ServerNext(final, <<hello>> \o flight)
  BY DEF ServerStartsFull
<1>2. sh.sessionId = None
  BY DEF ServerHello
<1> HIDE DEF sh, cert
<1>3. /\ Wire(certs) /\ \A m \in ToSet(certs) : Plain(m)
      /\ Wire(flight) /\ \A m \in ToSet(flight) : Plain(m)
      /\ flight # <<>> /\ flight[1] = Msg("certificate", cert)
  BY FullFlight
<1> HIDE DEF flight, certs
<1>4. OpensPlainly(<<hello>> \o certs, hello) /\ OpensPlainly(<<hello>> \o flight, hello)
  <2>1. DOMAIN hello = Header /\ Opens(<<hello>>, hello, {})
    BY Headers, Opening
  <2> HIDE DEF hello
  <2>2. Opens(<<hello>> \o certs, hello, {} \cup ToSet(certs)) /\ Opens(<<hello>> \o flight, hello, {} \cup ToSet(flight))
    BY <1>3, <2>1, Opening
  <2> QED BY <1>3, <2>2 DEF OpensPlainly
<1>5. CASE ServerFails(Answered(ch, sh), <<hello>> \o certs)
  BY <1>4, <1>5, RefusalDoes
<1>6. CASE ServerNext(final, <<hello>> \o flight)
  <2> PICK others : Opens(<<hello>> \o flight, hello, others) /\ \A m \in others : Plain(m)
    BY <1>4 DEF OpensPlainly
  <2>1. srv' = final /\ ServerTakesHello(hello, others) /\ NetShape'
    <3> HIDE DEF final, hello
    <3> QED BY <1>6, AnswerNet
  <2>2. /\ DOMAIN Answered(ch, sh) = Fields /\ Answered(ch, sh).ch = ch /\ Answered(ch, sh).sh = sh
        /\ Answered(ch, sh).rest = <<>> /\ \A f \in Fields \ {"ch", "sh"} : Answered(ch, sh)[f] = srv[f]
    BY AnsweredFields
  <2>3. /\ DOMAIN LoggedAll(Answered(ch, sh), flight) = Fields
        /\ IsSeq(LoggedAll(Answered(ch, sh), flight).rest)
        /\ \A f \in Fields \ {"rest"} : LoggedAll(Answered(ch, sh), flight)[f] = Answered(ch, sh)[f]
    <3>1. IsSeq(flight) /\ IsSeq(Answered(ch, sh).rest)
      BY <1>3, <2>2, Short DEF Wire
    <3> QED BY <2>2, <3>1, LoggingAll DEF Extends
  <2>4. LET r == LoggedAll(Answered(ch, sh), flight).rest IN r # <<>> /\ r[1] = Msg("certificate", cert)
    <3> DEFINE kept == [i \in DOMAIN flight |-> Kept(flight[i])]
    <3>1. LoggedAll(Answered(ch, sh), flight).rest = <<>> \o kept
      BY <2>2 DEF LoggedAll, Fields
    <3>2. IsSeq(flight) /\ DOMAIN flight = 1 .. Len(flight) /\ Len(flight) \in Nat /\ Len(flight) # 0
      BY <1>3, SetOf DEF Wire, IsSeq
    <3>3. kept \in Seq({Kept(flight[i]) : i \in DOMAIN flight}) /\ Len(kept) = Len(flight)
      BY <3>2
    <3>4. kept # <<>> /\ kept[1] = Kept(flight[1]) /\ <<>> \o kept = kept
      BY <3>2, <3>3
    <3>5. Kept(Msg("certificate", cert)) = Msg("certificate", cert)
      BY Headers DEF Kept
    <3> QED BY <1>3, <3>1, <3>4, <3>5
  <2>5. /\ DOMAIN final = Fields /\ final.ch = ch /\ final.sh = sh /\ final.resumed = FALSE /\ final.peer = None
        /\ final.pc = IF scfg.clientAuth = "NoClientCert" THEN "clientKeyExchange" ELSE "certificate"
        /\ IsSeq(final.rest) /\ final.rest # <<>> /\ final.rest[1] = Msg("certificate", cert)
    BY <2>2, <2>3, <2>4 DEF Fields
  <2>6. cert = GetCertificate(scfg, ch.serverName)
    BY DEF cert
  <2>7. ServerStarts
    <3> HIDE DEF final
    <3> QED BY <1>2, <2>1, <2>5, <2>6, Shown DEF ServerStarts, ServerTakesHello
  <2> QED BY <2>1, <2>7
<1> QED BY <1>1, <1>5, <1>6

\* ServerClientHello gives up, refuses, resumes or starts in full.
LEMMA ClientHelloDoes ==
  ASSUME NetShape, srv = Fresh("clientHello"), s2c = <<>>, ServerClientHello
  PROVE  (ServerGivesUp \/ ServerRefuses \/ ServerGoesOn \/ ServerStarts) /\ NetShape'
<1> DEFINE ch    == Head(c2s).body
           vers  == MutualVersion(scfg, FALSE, ClientVersions(ch))
           cert  == GetCertificate(scfg, ch.serverName)
           suite == PickCipherSuite(vers, scfg, ch, cert)
<1>1. /\ DOMAIN srv = Fields /\ srv.rest = <<>> /\ srv.resumed = FALSE /\ srv.peer = None /\ srv.pc = "clientHello"
  BY DEF Fresh, Fields
<1>2. ServerGets("clientHello") /\ c2s # <<>> /\ ~Ended(srv)
  BY <1>1 DEF ServerClientHello, ServerGets, Ended
<1>3. \/ ServerFails(srv, <<>>)
      \/ Resumes(ch, vers, cert) /\ ServerResumes(ch, vers, cert)
      \/ ServerStartsFull(ch, vers, suite, cert)
  BY DEF ServerClientHello
<1>4. CASE ServerFails(srv, <<>>)
  BY <1>2, <1>4, ServerQuits
<1> HIDE DEF vers, suite
<1>5. CASE Resumes(ch, vers, cert) /\ ServerResumes(ch, vers, cert)
  <2> HIDE DEF cert
  <2> QED BY <1>1, <1>2, <1>5, ResumptionDoes
<1>6. CASE ServerStartsFull(ch, vers, suite, cert)
  BY <1>1, <1>2, <1>6, StartsFullDoes
<1> QED BY <1>3, <1>4, <1>5, <1>6

\* The client's Finished is the one expected: a full handshake is established,
\* and the server's ticket and Finished follow.
ServerCompletes ==
  /\ srv.pc = "finished" /\ srv'.pc = "complete" /\ DOMAIN srv' = DOMAIN srv
  /\ Head(c2s).type = "finished" /\ Head(c2s).body = SumOf("client", srv)
  /\ srv'.ch = srv.ch /\ srv'.sh = srv.sh /\ srv'.offered = srv.offered /\ srv'.resumed = srv.resumed
  /\ srv'.peer = srv.peer /\ srv'.master = srv.master
  /\ srv'.peerSum = Head(c2s).body
  /\ Extends(srv'.rest, srv.rest)
  /\ IF srv.resumed THEN srv'.sum = srv.sum ELSE Signed(srv', "server") /\ srv'.sum.log.rest = srv'.rest
  /\ ServerReads
  /\ \A m \in ToSet(s2c') : m \in ToSet(s2c) \/ (~srv.resumed /\ Closes(m, srv'))
  /\ \A m \in Later(s2c') : m \in Later(s2c) \/ (~srv.resumed /\ Closes(m, srv'))
  /\ sessions' = IF srv.resumed THEN sessions ELSE sessions \cup {Established}

\* ServerFinished gives up on any other Finished.
LEMMA ServerFinishedDoes ==
  ASSUME NetShape, DOMAIN srv = Fields, IsSeq(srv.rest), srv.resumed \in BOOLEAN, ServerFinished
  PROVE  (ServerGivesUp \/ ServerCompletes) /\ NetShape'
<1> DEFINE read   == [Logged(srv, Head(c2s)) EXCEPT !.pc = "complete", !.peerSum = Head(c2s).body]
           ticket == IF srv.sh.ticketSupported THEN <<Msg("ticket", SessionTicket(srv))>> ELSE <<>>
           done   == LoggedAll(read, ticket)
           final  == [done EXCEPT !.sum = SumOf("server", done)]
           flight == ticket \o FinishedFlight("server", done)
<1>1. srv.pc = "finished" /\ c2s # <<>> /\ Head(c2s).type = "finished" /\ ~Ended(srv)
  BY DEF ServerFinished, ServerGets, Ended
<1>2. CASE ~GoodFinished("client", srv, Head(c2s))
  BY <1>1, <1>2, ServerQuits DEF ServerFinished
<1>3. CASE GoodFinished("client", srv, Head(c2s))
  <2>1. /\ srv' = IF srv.resumed THEN read ELSE final
        /\ s2c' = IF srv.resumed THEN s2c ELSE Send(s2c, flight)
        /\ c2s' = Tail(c2s)
        /\ sessions' = IF srv.resumed THEN sessions ELSE sessions \cup {Established}
        /\ UNCHANGED <<world, cache, cli, burnt>>
    BY <1>3 DEF ServerFinished
  <2>2. Head(c2s).body = SumOf("client", srv)
    BY <1>3 DEF GoodFinished
  <2>3. /\ DOMAIN read = Fields /\ Extends(read.rest, srv.rest)
        /\ \A f \in Fields \ {"rest", "pc", "peerSum"} : read[f] = srv[f]
        /\ read.pc = "complete" /\ read.peerSum = Head(c2s).body
    <3>1. /\ DOMAIN Logged(srv, Head(c2s)) = Fields
          /\ Extends(Logged(srv, Head(c2s)).rest, srv.rest)
          /\ \A f \in Fields \ {"rest"} : Logged(srv, Head(c2s))[f] = srv[f]
      BY Logging
    <3> QED BY <3>1 DEF Fields
  <2>4. /\ Wire(ticket)
        /\ \A m \in ToSet(ticket) :
             /\ m.type = "ticket" /\ m.body.state.master = srv.master /\ m.body.state.cert = srv.peer
             /\ m.body.state.vers = srv.sh.vers /\ m.body.state.suite = srv.sh.suite
    BY Granted, NothingSent
  <2> HIDE DEF read, ticket
  <2>5. /\ DOMAIN done = Fields /\ Extends(done.rest, read.rest)
        /\ \A f \in Fields \ {"rest"} : done[f] = read[f]
    <3>1. IsSeq(read.rest) /\ IsSeq(ticket)
      BY <2>3, <2>4 DEF Extends, Wire
    <3> QED BY <2>3, <3>1, LoggingAll
  <2> HIDE DEF done
  <2>6. Extends(done.rest, srv.rest)
    BY <2>3, <2>5, ExtendsTwice
  <2>7. /\ DOMAIN final = Fields /\ Extends(final.rest, srv.rest) /\ final.rest = done.rest
        /\ \A f \in Fields \ {"rest", "pc", "peerSum", "sum"} : final[f] = srv[f]
        /\ final.pc = "complete" /\ final.peerSum = Head(c2s).body /\ final.sum = SumOf("server", done)
    BY <2>3, <2>5, <2>6 DEF Fields
  <2>8. Signed(final, "server") /\ final.sum.log.rest = final.rest
    <3>1. /\ done.ch = srv.ch /\ done.sh = srv.sh /\ done.master = srv.master
      BY <2>3, <2>5 DEF Fields
    <3>2. /\ final.ch = srv.ch /\ final.sh = srv.sh /\ final.master = srv.master
      BY <2>7 DEF Fields
    <3> HIDE DEF final
    <3> QED BY <2>7, <3>1, <3>2 DEF Signed, SumOf, Transcript
  <2> HIDE DEF final
  <2>9. /\ DOMAIN srv' = Fields /\ Extends(srv'.rest, srv.rest)
        /\ \A f \in Fields \ {"rest", "pc", "peerSum", "sum"} : srv'[f] = srv[f]
        /\ srv'.pc = "complete" /\ srv'.peerSum = Head(c2s).body
        /\ srv.resumed => srv'.sum = srv.sum
        /\ ~srv.resumed => srv' = final
    BY <2>1, <2>3, <2>7 DEF Fields
  <2>10. /\ IsSeq(c2s') /\ ToSet(c2s') = Later(c2s) /\ Later(c2s') \subseteq Later(c2s)
         /\ Head(c2s) \in ToSet(c2s) /\ Later(c2s) \subseteq ToSet(c2s)
    BY <1>1, <2>1, Taken DEF NetShape
  <2>11. Wire(flight) /\ ToSet(flight) = ToSet(ticket) \cup ToSet(FinishedFlight("server", done))
    BY <2>4, ServerFlight, Joined DEF Wire
  <2>12. Closing(ToSet(flight), final)
    <3>1. final.master = srv.master /\ final.peer = srv.peer /\ final.sh = srv.sh
      BY <2>7 DEF Fields
    <3> HIDE DEF flight
    <3> QED BY <2>4, <2>7, <2>11, <3>1, ServerFlight DEF Closing, Closes, Sealed
  <2> HIDE DEF flight
  <2> DEFINE sent == IF srv.resumed THEN {} ELSE ToSet(flight)
  <2>13. /\ IsSeq(s2c') /\ ToSet(s2c') \subseteq ToSet(s2c) \cup sent /\ Later(s2c') \subseteq Later(s2c) \cup sent
    BY <2>1, <2>11, Sent DEF Wire, NetShape
  <2>14. \A m \in sent : DOMAIN m = Header
    BY <2>11 DEF Wire
  <2>15. NetShape'
    <3> HIDE DEF sent
    <3> QED BY <2>10, <2>13, <2>14 DEF NetShape
  <2>16. IF srv.resumed THEN sent = {} ELSE Closing(sent, srv')
    BY <2>9, <2>12
  <2> HIDE DEF sent
  <2>17. ServerReads
    BY <1>1, <2>1, <2>10 DEF ServerReads
  <2>19. /\ \A m \in ToSet(s2c') : m \in ToSet(s2c) \/ (~srv.resumed /\ Closes(m, srv'))
         /\ \A m \in Later(s2c') : m \in Later(s2c) \/ (~srv.resumed /\ Closes(m, srv'))
    BY <2>13, <2>16 DEF Closing
  <2>18. ServerCompletes
    <3>1. IF srv.resumed THEN srv'.sum = srv.sum ELSE Signed(srv', "server") /\ srv'.sum.log.rest = srv'.rest
      BY <2>8, <2>9
    <3> QED BY <1>1, <2>1, <2>2, <2>9, <2>17, <2>19, <3>1 DEF ServerCompletes, Fields
  <2> QED BY <2>15, <2>18
<1> QED BY <1>2, <1>3

----------------------------------------------------------------------------
(* Every step of the specification, by what it does.                       *)

\* Every step of the client.
ClientSteps ==
  \/ ClientGivesUp \/ ClientGreets \/ ClientHears \/ ClientIdentifies \/ ClientReadsOn \/ ClientSealsFlight
  \/ ClientKeepsTicket \/ ClientRekeys \/ ClientCompletes
ServerSteps ==
  \/ ServerGivesUp \/ ServerRefuses \/ ServerGoesOn \/ ServerStarts \/ ServerReadsOn \/ ServerRekeys
  \/ ServerCompletes

\* Every step of the client.
LEMMA ClientDoes ==
  ASSUME Shape, cli.pc = "start" => c2s = <<>>, Client \/ ClientCut PROVE ClientSteps /\ NetShape'
<1>1. NetShape /\ DOMAIN cli = Fields /\ IsSeq(cli.rest) /\ cli.resumed \in BOOLEAN
  BY DEF Shape, NetShape, Header
<1>2. ASSUME ClientUnexpected \/ ClientCut PROVE ClientGivesUp /\ NetShape'
  BY <1>1, <1>2, ClientQuits DEF ClientUnexpected, ClientCut
<1>3. ASSUME ClientStart PROVE (ClientGivesUp \/ ClientGreets) /\ NetShape'
  BY <1>1, <1>3, StartDoes DEF ClientStart
<1>4. ASSUME ClientServerHello PROVE (ClientGivesUp \/ ClientHears) /\ NetShape'
  BY <1>1, <1>4, ServerHelloDoes
<1>5. ASSUME ClientCertificate PROVE (ClientGivesUp \/ ClientIdentifies) /\ NetShape'
  BY <1>1, <1>5, CertificateDoes
<1>6. ASSUME ClientStatus \/ ClientKeyExchange \/ ClientRequest PROVE (ClientGivesUp \/ ClientReadsOn) /\ NetShape'
  BY <1>1, <1>6, MiddleDoes
<1>7. ASSUME ClientHelloDone PROVE (ClientGivesUp \/ ClientSealsFlight) /\ NetShape'
  BY <1>1, <1>7, HelloDoneDoes
<1>8. ASSUME ClientTicket PROVE ClientKeepsTicket /\ NetShape'
  BY <1>1, <1>8, TicketDoes
<1>9. ASSUME ClientChangeCipherSpec PROVE ClientRekeys /\ NetShape'
  BY <1>1, <1>9, ClientCcsDoes
<1>10. ASSUME ClientFinished PROVE (ClientGivesUp \/ ClientCompletes) /\ NetShape'
  BY <1>1, <1>10, ClientFinishedDoes
<1> QED BY <1>2, <1>3, <1>4, <1>5, <1>6, <1>7, <1>8, <1>9, <1>10 DEF Client, ClientSteps

\* Every step of the server.
LEMMA ServerDoes ==
  ASSUME Shape, srv.pc = "clientHello" => srv = Fresh("clientHello") /\ s2c = <<>>, Server \/ ServerCut
  PROVE  ServerSteps /\ NetShape'
<1>1. NetShape /\ DOMAIN srv = Fields /\ IsSeq(srv.rest) /\ srv.resumed \in BOOLEAN
  BY DEF Shape, NetShape, Header
<1>2. ASSUME ServerUnexpected \/ ServerCut PROVE ServerGivesUp /\ NetShape'
  BY <1>1, <1>2, ServerQuits DEF ServerUnexpected, ServerCut
<1>3. ASSUME ServerClientHello PROVE (ServerGivesUp \/ ServerRefuses \/ ServerGoesOn \/ ServerStarts) /\ NetShape'
  <2>1. srv = Fresh("clientHello") /\ s2c = <<>>
    BY <1>3 DEF ServerClientHello
  <2> QED BY <1>1, <1>3, <2>1, ClientHelloDoes
<1>4. ASSUME ServerCertificate \/ ServerClientKeyExchange \/ ServerVerify PROVE (ServerGivesUp \/ ServerReadsOn) /\ NetShape'
  BY <1>1, <1>4, ServerReadsOnDoes
<1>5. ASSUME ServerChangeCipherSpec PROVE ServerRekeys /\ NetShape'
  BY <1>1, <1>5, ServerCcsDoes
<1>6. ASSUME ServerFinished PROVE (ServerGivesUp \/ ServerCompletes) /\ NetShape'
  BY <1>1, <1>6, ServerFinishedDoes
<1> QED BY <1>2, <1>3, <1>4, <1>5, <1>6 DEF Server, ServerSteps

\* A hello on its way is damaged.
Damaged(q, nextq, type) ==
  /\ q # <<>> /\ Head(q) \in ToSet(q) /\ Head(q).type = type
  /\ \E m : /\ ToSet(nextq) = {m} \cup Later(q)
            /\ m.type = type /\ m.body # Head(q).body
            /\ DOMAIN m = DOMAIN Head(q)
            /\ type = "clientHello" /\ DOMAIN Head(q).body = HelloFields =>
                 /\ DOMAIN m.body = HelloFields
                 /\ m.body.sessionTicket \in {None, Head(q).body.sessionTicket}
  /\ Later(nextq) = Later(q) /\ IsSeq(nextq)

\* The same at either direction.
HelloDamaged ==
  /\ ~damaged /\ damaged' = TRUE
  /\ \E type \in {"clientHello", "serverHello"} :
       \/ Damaged(c2s, c2s', type) /\ UNCHANGED s2c
       \/ Damaged(s2c, s2c', type) /\ UNCHANGED c2s
  /\ UNCHANGED <<plan, ccfg, scfg, conn, now, up, cache, cli, srv, sessions, burnt>>

\* Damages gives a hello another body, and at most drops its ticket.
LEMMA DamagedHello ==
  ASSUME NEW q, NEW nextq, Wire(q), q # <<>>, nextq \in DamagedHead(q, Damages(Head(q)))
  PROVE  \E type \in {"clientHello", "serverHello"} : Damaged(q, nextq, type)
<1> DEFINE h == Head(q)
<1>1. PICK m : /\ m.body \in Damages(h) /\ m.body # h.body /\ m.type = h.type /\ DOMAIN m = Header
               /\ ToSet(nextq) = {m} \cup Later(q) /\ Later(nextq) = Later(q) /\ Wire(nextq)
               /\ h \in ToSet(q) /\ Later(q) \subseteq ToSet(q)
  BY DamagedNet
<1> DEFINE b == m.body
<1> HIDE DEF b
<1>2. DOMAIN h = Header
  BY <1>1 DEF Wire
<1>3. b \in Damages(h) /\ b # h.body /\ m.body = b
  BY <1>1 DEF b
<1>4. IsSeq(nextq)
  BY <1>1 DEF Wire
<1>5. CASE h.type = "clientHello"
  <2>1. \/ b = [h.body EXCEPT !.sessionTicket = None] \/ b = [h.body EXCEPT !.alpnProtocols = <<>>]
        \/ b = [h.body EXCEPT !.supportedVersions = <<VersionTLS10>>] \/ b = [h.body EXCEPT !.random = None]
    BY <1>3, <1>5 DEF Damages
  <2>2. DOMAIN h.body = HelloFields => DOMAIN b = HelloFields /\ b.sessionTicket \in {None, h.body.sessionTicket}
    BY <2>1 DEF HelloFields
  <2>3. Damaged(q, nextq, "clientHello")
    BY <1>1, <1>2, <1>3, <1>4, <1>5, <2>2 DEF Damaged
  <2> QED BY <2>3
<1>6. CASE h.type = "serverHello"
  <2>1. Damaged(q, nextq, "serverHello")
    BY <1>1, <1>2, <1>3, <1>4, <1>6 DEF Damaged
  <2> QED BY <2>1
<1>7. CASE h.type \notin {"clientHello", "serverHello"}
  BY <1>3, <1>7 DEF Damages
<1> QED BY <1>5, <1>6, <1>7

\* DamageHello damages the next message of one direction.
LEMMA DamageDoes ==
  ASSUME NetShape, DamageHello(Damages) PROVE HelloDamaged /\ NetShape'
<1>1. Wire(c2s) /\ Wire(s2c)
  BY DEF NetShape, Wire
<1>2. /\ ~damaged /\ damaged' = TRUE
      /\ UNCHANGED <<plan, ccfg, scfg, conn, now, up, cache, cli, srv, sessions, burnt>>
  BY DEF DamageHello
<1>3. CASE c2s # <<>> /\ c2s' \in DamagedHead(c2s, Damages(Head(c2s))) /\ UNCHANGED s2c
  <2>1. PICK type \in {"clientHello", "serverHello"} : Damaged(c2s, c2s', type)
    BY <1>1, <1>3, DamagedHello
  <2>2. NetShape'
    <3>1. Wire(c2s')
      BY <1>1, <2>1, Taken DEF Damaged, Wire
    <3> QED BY <1>1, <1>3, <3>1 DEF NetShape, Wire
  <2> QED BY <1>2, <1>3, <2>1, <2>2 DEF HelloDamaged
<1>4. CASE s2c # <<>> /\ s2c' \in DamagedHead(s2c, Damages(Head(s2c))) /\ UNCHANGED c2s
  <2>1. PICK type \in {"clientHello", "serverHello"} : Damaged(s2c, s2c', type)
    BY <1>1, <1>4, DamagedHello
  <2>2. NetShape'
    <3>1. Wire(s2c')
      BY <1>1, <2>1, Taken DEF Damaged, Wire
    <3> QED BY <1>1, <1>4, <3>1 DEF NetShape, Wire
  <2> QED BY <1>2, <1>4, <2>1, <2>2 DEF HelloDamaged
<1> QED BY <1>3, <1>4 DEF DamageHello

\* Every step of the handshake.
Effects == ClientSteps \/ ServerSteps \/ HelloDamaged \/ Idles \/ Begins

\* Every step of the specification.
LEMMA StepDoes ==
  ASSUME Shape, ClientInv, ServerInv, HelloInv, [Next]_vars PROVE Effects /\ NetShape'
<1>1. NetShape /\ (cli.pc = "start" => c2s = <<>>) /\ (srv.pc = "clientHello" => srv = Fresh("clientHello") /\ s2c = <<>>)
  BY DEF Shape, NetShape, Header, ServerInv, HelloInv
<1>2. ASSUME Client \/ ClientCut PROVE Effects /\ NetShape'
  BY <1>1, <1>2, ClientDoes DEF Effects
<1>3. ASSUME Server \/ ServerCut PROVE Effects /\ NetShape'
  BY <1>1, <1>3, ServerDoes DEF Effects
<1>4. ASSUME DamageHello(Damages) PROVE Effects /\ NetShape'
  BY <1>1, <1>4, DamageDoes DEF Effects
<1>5. ASSUME Lose \/ Rotate \/ Reconnect \/ UNCHANGED vars PROVE Effects /\ NetShape'
  BY <1>1, <1>5, AroundDoes DEF Effects
<1> QED BY <1>2, <1>3, <1>4, <1>5 DEF Next

----------------------------------------------------------------------------
(* Every step preserves the invariant, part by part.                       *)

\* No step leaves the shape of the state.
LEMMA ShapeStep ==
  ASSUME Shape, Effects, NetShape' PROVE Shape'
<1> USE DEF Shape, NetShape, Header, Fields, world
<1>0. IsSeq(Append(cli.rest, Kept(Head(s2c)))) /\ IsSeq(<<>>)
  BY Appended, Short
<1>1. CASE ClientGivesUp
  BY <1>1 DEF ClientGivesUp, Ended, Evicted
<1>2. CASE ClientGreets
  BY <1>2 DEF ClientGreets, Full
<1>3. CASE ClientHears
  BY <1>3 DEF ClientHears, ClientQuiet, ClientTakes, ClientReads, ClientAdds,
     ServerResumedSession, AwaitServer, Full, Late
<1>4. CASE ClientIdentifies
  BY <1>4, <1>0 DEF ClientIdentifies, ClientQuiet, ClientTakes, ClientReads, ClientAdds, Logged,
     Full
<1>5. CASE ClientReadsOn
  BY <1>5, <1>0 DEF ClientReadsOn, ClientQuiet, ClientTakes, ClientReads, ClientAdds, Middle, Full
<1>6. CASE ClientSealsFlight
  BY <1>6 DEF ClientSealsFlight, ClientReads, Extends, Late
<1>7. CASE ClientKeepsTicket
  BY <1>7, <1>0 DEF ClientKeepsTicket, ClientQuiet, ClientTakes, ClientReads, ClientAdds, Logged,
     Late
<1>8. CASE ClientRekeys
  BY <1>8 DEF ClientRekeys, ClientQuiet, ClientTakes, ClientReads, ClientAdds, Late
<1>9. CASE ClientCompletes
  BY <1>9 DEF ClientCompletes, ClientReads, Extends, Late
<1>10. CASE ServerGivesUp
  BY <1>10 DEF ServerGivesUp, Ended
<1>11. CASE ServerRefuses
  BY <1>11 DEF ServerRefuses, ServerReadsHello
<1>12. CASE ServerGoesOn
  BY <1>12 DEF ServerGoesOn, ServerReadsHello
<1>13. CASE ServerStarts
  BY <1>13 DEF ServerStarts, ServerReadsHello
<1>14. CASE ServerReadsOn
  BY <1>14 DEF ServerReadsOn, ServerQuiet, ServerTakes, ServerReads, ServerAdds, Extends
<1>15. CASE ServerRekeys
  BY <1>15 DEF ServerRekeys, ServerQuiet, ServerTakes, ServerReads, ServerAdds
<1>16. CASE ServerCompletes
  BY <1>16 DEF ServerCompletes, ServerReads, Extends
<1>17. CASE HelloDamaged
  BY <1>17 DEF HelloDamaged
<1>18. CASE Idles
  BY <1>18 DEF Idles, net
<1>19. CASE Begins
  BY <1>19, <1>0 DEF Begins, Fresh, Ended
<1> QED BY <1>1, <1>2, <1>3, <1>4, <1>5, <1>6, <1>7, <1>8, <1>9, <1>10, <1>11, <1>12, <1>13,
           <1>14, <1>15, <1>16, <1>17, <1>18, <1>19 DEF Effects, ClientSteps, ServerSteps

\* The client's secret, certificate and session go back to this handshake or to the
\* session it resumes.
LEMMA ClientStep ==
  ASSUME Shape, ClientInv, Effects PROVE ClientInv'
<1> DEFINE r == Append(cli.rest, Kept(Head(s2c)))
<1>0. /\ cli.rest = <<>> => r # <<>> /\ r[1] = Kept(Head(s2c))
      /\ cli.rest # <<>> => r # <<>> /\ r[1] = cli.rest[1]
  <2>1. IsSeq(cli.rest)
    BY DEF Shape
  <2> QED BY <2>1, Appended
<1> USE DEF Shape, ClientInv, Fields, world, Full, Late
<1>1. CASE ClientGivesUp
  BY <1>1 DEF ClientGivesUp, Ended
<1>2. CASE ClientGreets
  <2>1. PICK hello :
          cli' = [cli EXCEPT !.pc = "serverHello", !.ch = Greeting(hello, Offered(hello)), !.offered = Offered(hello)]
    BY <1>2 DEF ClientGreets
  <2>2. /\ cli'.pc = "serverHello" /\ cli'.ch = Greeting(hello, Offered(hello)) /\ cli'.offered = Offered(hello)
        /\ cli'.resumed = cli.resumed /\ cli'.rest = cli.rest /\ cli'.session = cli.session
        /\ conn' = conn /\ cli = Fresh("start")
    BY <1>2, <2>1 DEF ClientGreets
  <2>3. cli.resumed = FALSE /\ cli.rest = <<>> /\ cli.session = None
    BY <2>2 DEF Fresh
  <2>4. cli'.ch.sessionId = conn
        /\ cli'.ch.sessionTicket = IF cli'.offered = None THEN None ELSE cli'.offered.ticket
    BY <2>2 DEF Greeting
  <2> QED BY <2>2, <2>3, <2>4
<1>3. CASE ClientHears
  <2> DEFINE sh == Head(s2c).body
  <2>1. /\ cli.pc = "serverHello" /\ cli'.sh = sh /\ cli'.resumed = ServerResumedSession(sh)
        /\ cli'.pc = IF cli'.resumed THEN AwaitServer(sh) ELSE "certificate"
        /\ cli'.master = IF cli'.resumed THEN cli.offered.master ELSE None
        /\ cli'.peer = IF cli'.resumed THEN cli.offered.cert ELSE None
        /\ cli'.ch = cli.ch /\ cli'.offered = cli.offered /\ cli'.rest = cli.rest
        /\ cli'.session = cli.session /\ conn' = conn
    BY <1>3 DEF ClientHears, ClientQuiet, ClientTakes, ClientReads
  <2>2. AwaitServer(sh) \in {"ticket", "ccs"}
    BY DEF AwaitServer
  <2>3. ServerResumedSession(sh) <=> cli.offered # None /\ sh.sessionId = cli.ch.sessionId
    BY DEF ServerResumedSession
  <2> HIDE DEF sh
  <2> QED BY <2>1, <2>2, <2>3
<1>4. CASE ClientIdentifies
  BY <1>4, <1>0 DEF ClientIdentifies, ClientQuiet, ClientTakes, ClientReads, ClientAdds, Logged,
     Kept, Msg, Under
<1>5. CASE ClientReadsOn
  BY <1>5, <1>0 DEF ClientReadsOn, ClientQuiet, ClientTakes, ClientReads, ClientAdds, Middle
<1>6. CASE ClientSealsFlight
  BY <1>6 DEF ClientSealsFlight, ClientReads, Extends, Middle
<1>7. CASE ClientKeepsTicket
  BY <1>7, <1>0 DEF ClientKeepsTicket, ClientQuiet, ClientTakes, ClientReads, ClientAdds, Logged,
     Kept
<1>8. CASE ClientRekeys
  BY <1>8 DEF ClientRekeys, ClientQuiet, ClientTakes, ClientReads, ClientAdds
<1>9. CASE ClientCompletes
  BY <1>9, <1>0 DEF ClientCompletes, ClientReads, Extends
<1>10. CASE ServerGivesUp
  BY <1>10 DEF ServerGivesUp, Ended
<1>11. CASE ServerRefuses
  BY <1>11 DEF ServerRefuses, ServerReadsHello
<1>12. CASE ServerGoesOn
  BY <1>12 DEF ServerGoesOn, ServerReadsHello
<1>13. CASE ServerStarts
  BY <1>13 DEF ServerStarts, ServerReadsHello
<1>14. CASE ServerReadsOn
  BY <1>14, <1>0 DEF ServerReadsOn, ServerQuiet, ServerTakes, ServerReads, ServerAdds
<1>15. CASE ServerRekeys
  BY <1>15 DEF ServerRekeys, ServerQuiet, ServerTakes, ServerReads, ServerAdds
<1>16. CASE ServerCompletes
  BY <1>16, <1>0 DEF ServerCompletes, ServerReads
<1>17. CASE HelloDamaged
  BY <1>17 DEF HelloDamaged
<1>18. CASE Idles
  BY <1>18 DEF Idles, net
<1>19. CASE Begins
  BY <1>19, <1>0 DEF Begins, Fresh, Ended
<1> QED BY <1>1, <1>2, <1>3, <1>4, <1>5, <1>6, <1>7, <1>8, <1>9, <1>10, <1>11, <1>12, <1>13,
           <1>14, <1>15, <1>16, <1>17, <1>18, <1>19 DEF Effects, ClientSteps, ServerSteps

\* The same of the server.
LEMMA ServerStep ==
  ASSUME Shape, ServerInv, HelloInv, Effects PROVE ServerInv'
<1> USE DEF Shape, ServerInv, Fields, world
<1>1. CASE ClientGivesUp
  BY <1>1 DEF ClientGivesUp, Ended
<1>2. CASE ClientGreets
  BY <1>2 DEF ClientGreets
<1>3. CASE ClientHears
  BY <1>3 DEF ClientHears, ClientQuiet, ClientTakes, ClientReads, ClientAdds
<1>4. CASE ClientIdentifies
  BY <1>4 DEF ClientIdentifies, ClientQuiet, ClientTakes, ClientReads, ClientAdds
<1>5. CASE ClientReadsOn
  BY <1>5 DEF ClientReadsOn, ClientQuiet, ClientTakes, ClientReads, ClientAdds
<1>6. CASE ClientSealsFlight
  BY <1>6 DEF ClientSealsFlight, ClientReads
<1>7. CASE ClientKeepsTicket
  BY <1>7 DEF ClientKeepsTicket, ClientQuiet, ClientTakes, ClientReads, ClientAdds
<1>8. CASE ClientRekeys
  BY <1>8 DEF ClientRekeys, ClientQuiet, ClientTakes, ClientReads, ClientAdds
<1>9. CASE ClientCompletes
  BY <1>9 DEF ClientCompletes, ClientReads
<1>10. CASE ServerGivesUp
  BY <1>10 DEF ServerGivesUp, Ended
<1>11. CASE ServerRefuses
  BY <1>11 DEF ServerRefuses, ServerReadsHello
<1>12. CASE ServerGoesOn
  BY <1>12 DEF ServerGoesOn, ServerReadsHello
<1>13. CASE ServerStarts
  BY <1>13 DEF ServerStarts, ServerReadsHello
<1>14. CASE ServerReadsOn
  BY <1>14 DEF ServerReadsOn, ServerQuiet, ServerTakes, ServerReads, ServerAdds, Extends
<1>15. CASE ServerRekeys
  BY <1>15 DEF ServerRekeys, ServerQuiet, ServerTakes, ServerReads, ServerAdds
<1>16. CASE ServerCompletes
  BY <1>16 DEF ServerCompletes, ServerReads, Extends
<1>17. CASE HelloDamaged
  BY <1>17 DEF HelloDamaged
<1>18. CASE Idles
  BY <1>18 DEF Idles, net
<1>19. CASE Begins
  BY <1>19 DEF Begins, Fresh, Ended
<1> QED BY <1>1, <1>2, <1>3, <1>4, <1>5, <1>6, <1>7, <1>8, <1>9, <1>10, <1>11, <1>12, <1>13,
           <1>14, <1>15, <1>16, <1>17, <1>18, <1>19 DEF Effects, ClientSteps, ServerSteps

\* The hellos come first, and once.
LEMMA HelloStep ==
  ASSUME Shape, ClientInv, ServerInv, HelloInv, FinishedInv, Effects, NetShape' PROVE HelloInv'
<1> USE DEF HelloInv, Unsigned, Plain, Fields, world
<1>0. /\ DOMAIN cli = Fields /\ DOMAIN srv = Fields /\ Later(c2s) \subseteq ToSet(c2s) /\ Later(s2c) \subseteq ToSet(s2c)
  BY DEF Shape, Later, ToSet, IsSeq
<1>1. CASE ClientGivesUp
  BY <1>1, <1>0 DEF ClientGivesUp, Ended
<1>2. CASE ClientGreets
  BY <1>2, <1>0 DEF ClientGreets, Greeting, HelloFields, Msg, Under
<1>3. CASE ClientHears
  BY <1>3, <1>0 DEF ClientHears, ClientQuiet, ClientTakes, ClientReads, ClientAdds, AwaitServer
<1>4. CASE ClientIdentifies
  BY <1>4, <1>0 DEF ClientIdentifies, ClientQuiet, ClientTakes, ClientReads, ClientAdds, Logged
<1>5. CASE ClientReadsOn
  BY <1>5, <1>0 DEF ClientReadsOn, ClientQuiet, ClientTakes, ClientReads, ClientAdds, Middle, Full
<1>6. CASE ClientSealsFlight
  BY <1>6, <1>0 DEF ClientSealsFlight, ClientReads, Sealed, Middle, Full, FinishedInv,
     ClientSigned, Late
<1>7. CASE ClientKeepsTicket
  BY <1>7, <1>0 DEF ClientKeepsTicket, ClientQuiet, ClientTakes, ClientReads, ClientAdds, Logged
<1>8. CASE ClientRekeys
  BY <1>8, <1>0 DEF ClientRekeys, ClientQuiet, ClientTakes, ClientReads, ClientAdds
<1>9. CASE ClientCompletes
  BY <1>9, <1>0 DEF ClientCompletes, ClientReads, Sealed
<1>10. CASE ServerGivesUp
  BY <1>10, <1>0 DEF ServerGivesUp, Ended
<1>11. CASE ServerRefuses
  BY <1>11, <1>0 DEF ServerRefuses, ServerReadsHello, ShowsHello
<1>12. CASE ServerGoesOn
  BY <1>12, <1>0 DEF ServerGoesOn, ServerReadsHello, Closes, Sealed, ShowsHello
<1>13. CASE ServerStarts
  BY <1>13, <1>0 DEF ServerStarts, ServerReadsHello, ShowsHello
<1>14. CASE ServerReadsOn
  BY <1>14, <1>0 DEF ServerReadsOn, ServerQuiet, ServerTakes, ServerReads, ServerAdds, ServerInv
<1>15. CASE ServerRekeys
  BY <1>15, <1>0 DEF ServerRekeys, ServerQuiet, ServerTakes, ServerReads, ServerAdds
<1>16. CASE ServerCompletes
  BY <1>16, <1>0 DEF ServerCompletes, ServerReads, Closes, Sealed
<1>17. CASE HelloDamaged
  BY <1>17, <1>0 DEF HelloDamaged, Damaged
<1>18. CASE Idles
  BY <1>18, <1>0 DEF Idles, net
<1>19. CASE Begins
  BY <1>19, <1>0 DEF Begins, Fresh, Ended
<1> QED BY <1>1, <1>2, <1>3, <1>4, <1>5, <1>6, <1>7, <1>8, <1>9, <1>10, <1>11, <1>12, <1>13,
           <1>14, <1>15, <1>16, <1>17, <1>18, <1>19 DEF Effects, ClientSteps, ServerSteps

\* Who accepts a Finished has the hellos and the secret of who sent it.
LEMMA FinishedStep ==
  ASSUME Shape, ClientInv, ServerInv, HelloInv, FinishedInv, Effects PROVE FinishedInv'
<1> USE DEF FinishedInv, ClientSigned, ServerSigned, SameHandshake, Signed, Plain, Fields, world,
            Full, Late
<1>0. /\ DOMAIN cli = Fields /\ DOMAIN srv = Fields /\ Later(c2s) \subseteq ToSet(c2s) /\ Later(s2c) \subseteq ToSet(s2c)
  BY DEF Shape, Later, ToSet, IsSeq
<1>1. CASE ClientGivesUp
  BY <1>1, <1>0 DEF ClientGivesUp, Ended
<1>2. CASE ClientGreets
  BY <1>2, <1>0 DEF ClientGreets, Msg, Under, HelloInv
<1>3. CASE ClientHears
  BY <1>3, <1>0 DEF ClientHears, ClientQuiet, ClientTakes, ClientReads, ClientAdds, HelloInv,
     Unsigned, AwaitServer
<1>4. CASE ClientIdentifies
  BY <1>4, <1>0 DEF ClientIdentifies, ClientQuiet, ClientTakes, ClientReads, ClientAdds, Logged
<1>5. CASE ClientReadsOn
  BY <1>5, <1>0 DEF ClientReadsOn, ClientQuiet, ClientTakes, ClientReads, ClientAdds, Middle
<1>6. CASE ClientSealsFlight
  BY <1>6, <1>0 DEF ClientSealsFlight, ClientReads, Sealed, Middle, ClientInv
<1>7. CASE ClientKeepsTicket
  BY <1>7, <1>0 DEF ClientKeepsTicket, ClientQuiet, ClientTakes, ClientReads, ClientAdds, Logged
<1>8. CASE ClientRekeys
  BY <1>8, <1>0 DEF ClientRekeys, ClientQuiet, ClientTakes, ClientReads, ClientAdds
<1>9. CASE ClientCompletes
  BY <1>9, <1>0 DEF ClientCompletes, ClientReads, Sealed, SumOf, Transcript, ClientInv
<1>10. CASE ServerGivesUp
  BY <1>10, <1>0 DEF ServerGivesUp, Ended
<1>11. CASE ServerRefuses
  BY <1>11, <1>0 DEF ServerRefuses, ServerReadsHello, ShowsHello, HelloInv, Unsigned
<1>12. CASE ServerGoesOn
  BY <1>12, <1>0 DEF ServerGoesOn, ServerReadsHello, Closes, Sealed, HelloInv, Unsigned, ShowsHello
<1>13. CASE ServerStarts
  BY <1>13, <1>0 DEF ServerStarts, ServerReadsHello, ShowsHello, HelloInv, Unsigned
<1>14. CASE ServerReadsOn
  BY <1>14, <1>0 DEF ServerReadsOn, ServerQuiet, ServerTakes, ServerReads, ServerAdds, ServerInv
<1>15. CASE ServerRekeys
  BY <1>15, <1>0 DEF ServerRekeys, ServerQuiet, ServerTakes, ServerReads, ServerAdds
<1>16. CASE ServerCompletes
  BY <1>16, <1>0 DEF ServerCompletes, ServerReads, Closes, Sealed, SumOf, Transcript
<1>17. CASE HelloDamaged
  BY <1>17, <1>0 DEF HelloDamaged, Damaged
<1>18. CASE Idles
  BY <1>18, <1>0 DEF Idles, net
<1>19. CASE Begins
  BY <1>19, <1>0 DEF Begins, Fresh, Ended
<1> QED BY <1>1, <1>2, <1>3, <1>4, <1>5, <1>6, <1>7, <1>8, <1>9, <1>10, <1>11, <1>12, <1>13,
           <1>14, <1>15, <1>16, <1>17, <1>18, <1>19 DEF Effects, ClientSteps, ServerSteps

\* A damaged hello differs from what was sent for good.
LEMMA DamageStep ==
  ASSUME Shape, HelloInv, FinishedInv, DamageInv, Effects PROVE DamageInv'
<1> USE DEF DamageInv, Unsigned, Plain, Fields, world
<1>0. /\ DOMAIN cli = Fields /\ DOMAIN srv = Fields /\ Later(c2s) \subseteq ToSet(c2s) /\ Later(s2c) \subseteq ToSet(s2c)
  BY DEF Shape, Later, ToSet, IsSeq
<1>1. CASE ClientGivesUp
  BY <1>1, <1>0 DEF ClientGivesUp, Ended
<1>2. CASE ClientGreets
  BY <1>2, <1>0 DEF ClientGreets, Msg, Under, HelloInv
<1>3. CASE ClientHears
  BY <1>3, <1>0 DEF ClientHears, ClientQuiet, ClientTakes, ClientReads, ClientAdds, HelloInv,
     AwaitServer
<1>4. CASE ClientIdentifies
  BY <1>4, <1>0 DEF ClientIdentifies, ClientQuiet, ClientTakes, ClientReads, ClientAdds, Logged
<1>5. CASE ClientReadsOn
  BY <1>5, <1>0 DEF ClientReadsOn, ClientQuiet, ClientTakes, ClientReads, ClientAdds, Middle, Full
<1>6. CASE ClientSealsFlight
  BY <1>6, <1>0 DEF ClientSealsFlight, ClientReads, Sealed, Middle, Full
<1>7. CASE ClientKeepsTicket
  BY <1>7, <1>0 DEF ClientKeepsTicket, ClientQuiet, ClientTakes, ClientReads, ClientAdds, Logged
<1>8. CASE ClientRekeys
  BY <1>8, <1>0 DEF ClientRekeys, ClientQuiet, ClientTakes, ClientReads, ClientAdds
<1>9. CASE ClientCompletes
  BY <1>9, <1>0 DEF ClientCompletes, ClientReads, Sealed
<1>10. CASE ServerGivesUp
  BY <1>10, <1>0 DEF ServerGivesUp, Ended
<1>11. CASE ServerRefuses
  <2>1. /\ srv.pc = "clientHello" /\ srv'.pc = "failed" /\ srv'.ch = Head(c2s).body
        /\ Head(c2s) \in ToSet(c2s) /\ Head(c2s).type = "clientHello" /\ ToSet(c2s') \subseteq ToSet(c2s)
        /\ UNCHANGED <<cli, damaged>>
    BY <1>0, <1>11 DEF ServerRefuses, ServerReadsHello
  <2>2. \A m \in ToSet(s2c') : m.type # "finished"
    BY <1>11 DEF ServerRefuses, ShowsHello
  <2> QED BY <2>1, <2>2 DEF HelloInv
<1>12. CASE ServerGoesOn
  <2>1. /\ srv.pc = "clientHello" /\ srv'.pc = "ccs" /\ srv'.ch = Head(c2s).body
        /\ Head(c2s) \in ToSet(c2s) /\ Head(c2s).type = "clientHello" /\ ToSet(c2s') \subseteq ToSet(c2s)
        /\ UNCHANGED <<cli, damaged>>
    BY <1>0, <1>12 DEF ServerGoesOn, ServerReadsHello
  <2> QED BY <2>1 DEF HelloInv
<1>13. CASE ServerStarts
  BY <1>13, <1>0 DEF ServerStarts, ServerReadsHello, ShowsHello, HelloInv
<1>14. CASE ServerReadsOn
  BY <1>14, <1>0 DEF ServerReadsOn, ServerQuiet, ServerTakes, ServerReads, ServerAdds
<1>15. CASE ServerRekeys
  BY <1>15, <1>0 DEF ServerRekeys, ServerQuiet, ServerTakes, ServerReads, ServerAdds
<1>16. CASE ServerCompletes
  BY <1>16, <1>0 DEF ServerCompletes, ServerReads, Closes, Sealed
<1>17. CASE HelloDamaged
  <2>1. ~damaged /\ damaged' = TRUE /\ UNCHANGED <<cli, srv>>
    BY <1>17 DEF HelloDamaged
  <2>2. PICK type \in {"clientHello", "serverHello"} :
          \/ Damaged(c2s, c2s', type) /\ UNCHANGED s2c
          \/ Damaged(s2c, s2c', type) /\ UNCHANGED c2s
    BY <1>17 DEF HelloDamaged
  <2>3. CASE Damaged(c2s, c2s', type) /\ UNCHANGED s2c
    <3>1. PICK m : /\ ToSet(c2s') = {m} \cup Later(c2s) /\ m.type = type /\ m.body # Head(c2s).body
      BY <2>3 DEF Damaged
    <3>2. Head(c2s) \in ToSet(c2s) /\ Head(c2s).type = type
      BY <2>3 DEF Damaged
    <3>3. type = "clientHello" /\ Head(c2s).body = cli.ch /\ s2c = <<>>
      BY <2>1, <3>2 DEF HelloInv
    <3>4. cli.pc \in {"serverHello", "failed"} /\ srv.pc \in {"clientHello", "failed"} /\ ToSet(s2c) = {}
      BY <2>1, <3>2, <3>3, Short DEF HelloInv
    <3>5. \A x \in ToSet(c2s') : x.type = "clientHello" => x.body # cli.ch
      BY <3>1, <3>3 DEF HelloInv
    <3> QED BY <2>1, <2>3, <3>4, <3>5
  <2>4. CASE Damaged(s2c, s2c', type) /\ UNCHANGED c2s
    <3>1. PICK m : /\ ToSet(s2c') = {m} \cup Later(s2c) /\ m.type = type /\ m.body # Head(s2c).body
      BY <2>4 DEF Damaged
    <3>2. s2c # <<>> /\ Head(s2c) \in ToSet(s2c) /\ Head(s2c).type = type
      BY <2>4 DEF Damaged
    <3>3. type = "serverHello" /\ Head(s2c).body = srv.sh /\ srv.pc # "clientHello"
      BY <2>1, <3>2 DEF HelloInv
    <3>4. cli.pc \in {"serverHello", "failed"} /\ srv.pc # "complete" /\ Unsigned(ToSet(c2s))
      BY <2>1, <3>2, <3>3 DEF HelloInv
    <3>5. \A x \in ToSet(s2c') : x.type = "serverHello" => x.body # srv.sh
      BY <3>1, <3>3 DEF HelloInv
    <3> QED BY <2>1, <2>4, <3>3, <3>4, <3>5
  <2> QED BY <2>2, <2>3, <2>4
<1>18. CASE Idles
  BY <1>18, <1>0 DEF Idles, net
<1>19. CASE Begins
  BY <1>19, <1>0 DEF Begins, Fresh, Ended
<1> QED BY <1>1, <1>2, <1>3, <1>4, <1>5, <1>6, <1>7, <1>8, <1>9, <1>10, <1>11, <1>12, <1>13,
           <1>14, <1>15, <1>16, <1>17, <1>18, <1>19 DEF Effects, ClientSteps, ServerSteps

\* Sessions and tickets go back to a handshake that was completed.
LEMMA SessionStep ==
  ASSUME Shape, ClientInv, ServerInv, HelloInv, FinishedInv, SessionInv, Effects PROVE SessionInv'
<1> USE DEF SessionInv, SessionOk, TicketOk, Known, Plain, Fields, world, Late
<1>0. /\ DOMAIN cli = Fields /\ DOMAIN srv = Fields /\ Later(c2s) \subseteq ToSet(c2s) /\ Later(s2c) \subseteq ToSet(s2c)
      /\ CacheKey(ccfg) \in DOMAIN cache
  BY DEF Shape, Later, ToSet, IsSeq
<1>1. CASE ClientGivesUp
  BY <1>1, <1>0 DEF ClientGivesUp, Ended, Evicted
<1>2. CASE ClientGreets
  <2>1. PICK hello :
          cli' = [cli EXCEPT !.pc = "serverHello", !.ch = Greeting(hello, Offered(hello)), !.offered = Offered(hello)]
    BY <1>2 DEF ClientGreets
  <2>2. /\ cli'.pc = "serverHello" /\ cli'.ch = Greeting(hello, cli'.offered)
        /\ cli'.offered # None => cli'.offered = cache[CacheKey(ccfg)]
    BY <1>0, <2>1 DEF Offered, Stored
  <2>3. cli'.ch.sessionTicket = IF cli'.offered = None THEN None ELSE cli'.offered.ticket
    BY <2>2 DEF Greeting
  <2>4. /\ \A m \in ToSet(c2s') : m.body = cli'.ch
        /\ \A k \in DOMAIN cache' : k \in DOMAIN cache /\ (cache'[k] # None => cache'[k] = cache[k])
        /\ UNCHANGED <<srv, scfg, s2c, sessions>>
    BY <1>0, <1>2, Headers DEF ClientGreets
  <2> QED BY <1>0, <2>2, <2>3, <2>4
<1>3. CASE ClientHears
  BY <1>3, <1>0 DEF ClientHears, ClientQuiet, ClientTakes, ClientReads, ClientAdds, HelloInv,
     AwaitServer, ClientInv
<1>4. CASE ClientIdentifies
  BY <1>4, <1>0 DEF ClientIdentifies, ClientQuiet, ClientTakes, ClientReads, ClientAdds, Logged,
     Full
<1>5. CASE ClientReadsOn
  BY <1>5, <1>0 DEF ClientReadsOn, ClientQuiet, ClientTakes, ClientReads, ClientAdds, Middle, Full
<1>6. CASE ClientSealsFlight
  BY <1>6, <1>0 DEF ClientSealsFlight, ClientReads, Sealed, Middle, Full, ClientInv
<1>7. CASE ClientKeepsTicket
  <2>1. /\ cli'.offered = cli.offered /\ cli'.session.ticket = Head(s2c).body
        /\ Head(s2c) \in ToSet(s2c) /\ Head(s2c).type = "ticket"
        /\ ToSet(s2c') \subseteq ToSet(s2c) /\ ToSet(c2s') \subseteq ToSet(c2s)
        /\ UNCHANGED <<cache, srv, scfg, sessions>>
    BY <1>0, <1>7 DEF ClientKeepsTicket, ClientQuiet, ClientTakes, ClientReads, ClientAdds, Logged
  <2> QED BY <2>1
<1>8. CASE ClientRekeys
  BY <1>8, <1>0 DEF ClientRekeys, ClientQuiet, ClientTakes, ClientReads, ClientAdds
<1>9. CASE ClientCompletes
  <2>1. /\ cli'.offered = cli.offered /\ cli'.session = cli.session /\ UNCHANGED <<sessions, srv, scfg>>
        /\ \A m \in ToSet(s2c') : m \in ToSet(s2c)
        /\ \A m \in ToSet(c2s') : m \in ToSet(c2s) \/ m.type # "clientHello"
        /\ cache' = IF cli.session = None THEN cache ELSE [cache EXCEPT ![CacheKey(ccfg)] = cli.session]
        /\ cli.pc = "finished"
    BY <1>0, <1>9 DEF ClientCompletes, ClientReads, Sealed
  <2>2. cli.session # None => SessionOk(cli.session)
    <3>1. Head(s2c) \in ToSet(s2c) /\ Head(s2c).type = "finished" /\ Head(s2c).body = SumOf("server", cli)
      BY <1>9 DEF ClientCompletes, ClientReads
    <3>2. srv.sum = SumOf("server", cli) /\ ServerSigned
      BY <3>1 DEF FinishedInv
    <3>3. SameHandshake /\ srv.sum.log.rest = cli.rest
      BY <3>2 DEF ServerSigned, Signed, SameHandshake, SumOf, Transcript
    <3>4. ASSUME cli.session # None PROVE cli.session.master = cli.master /\ cli.session.cert = cli.peer /\ TicketOk(cli.session.ticket)
      BY <2>1, <3>4 DEF ClientInv
    <3>5. CASE cli.resumed
      <4>1. cli.offered # None /\ cli.master = cli.offered.master /\ cli.peer = cli.offered.cert
        BY <2>1, <3>5 DEF ClientInv
      <4> QED BY <3>4, <4>1
    <3>6. CASE ~cli.resumed
      <4>1. ~srv.resumed
        BY <2>1, <3>3, <3>6 DEF ServerInv, ClientInv, SameHandshake
      <4>2. srv.pc = "complete" /\ srv.rest = cli.rest
        BY <3>2, <3>3, <4>1 DEF ServerSigned
      <4>3. cli.rest[1] = Msg("certificate", cli.peer) /\ srv.rest[1] = Msg("certificate", GetCertificate(scfg, srv.ch.serverName))
        BY <2>1, <3>6, <4>1, <4>2 DEF ClientInv, ServerInv
      <4>4. cli.peer = GetCertificate(scfg, srv.ch.serverName)
        BY <4>2, <4>3, Headers
      <4>5. \E x \in sessions : x.master = cli.master /\ x.server = cli.peer
        BY <3>3, <4>1, <4>2, <4>4 DEF SameHandshake
      <4> QED BY <3>4, <4>5
    <3> QED BY <3>5, <3>6
  <2>3. \A k \in DOMAIN cache' : cache'[k] # None => SessionOk(cache'[k])
    BY <1>0, <2>1, <2>2
  <2> QED BY <1>9, <2>1, <2>3 DEF ClientCompletes
<1>10. CASE ServerGivesUp
  BY <1>10, <1>0 DEF ServerGivesUp, Ended
<1>11. CASE ServerRefuses
  <2>1. /\ srv'.pc = "failed" /\ srv'.resumed = FALSE /\ ToSet(c2s') \subseteq ToSet(c2s)
        /\ UNCHANGED <<cache, cli, sessions>>
    BY <1>0, <1>11 DEF ServerRefuses, ServerReadsHello
  <2>2. \A m \in ToSet(s2c') : m.type # "ticket"
    BY <1>11 DEF ServerRefuses, ShowsHello
  <2> QED BY <2>1, <2>2
<1>12. CASE ServerGoesOn
  <2>1. /\ srv'.pc = "ccs" /\ srv'.ch = Head(c2s).body /\ ToSet(c2s') \subseteq ToSet(c2s)
        /\ Head(c2s) \in ToSet(c2s) /\ Head(c2s).type = "clientHello"
        /\ srv'.ch.sessionTicket # None /\ srv'.offered = srv'.ch.sessionTicket.state
        /\ srv'.master = srv'.offered.master /\ srv'.peer = srv'.offered.cert
        /\ UNCHANGED <<cache, cli, sessions>>
    BY <1>0, <1>12 DEF ServerGoesOn, ServerReadsHello
  <2>2. \A m \in ToSet(s2c') : m.type = "ticket" =>
          m.body.state.master = srv'.master /\ m.body.state.cert = srv'.peer
    BY <1>12 DEF ServerGoesOn, Closes, Sealed, ShowsHello
  <2>3. Known(srv'.master, srv'.peer) /\ UNCHANGED <<cache, cli, sessions>>
    BY <2>1
  <2>4. \A m \in ToSet(s2c') : m.type = "ticket" => TicketOk(m.body)'
    BY <2>2, <2>3
  <2>5. \A m \in ToSet(c2s') : m.type = "clientHello" /\ m.body.sessionTicket # None => TicketOk(m.body.sessionTicket)'
    BY <2>1, <2>3
  <2>6. srv'.pc # "complete"
    BY <2>1
  <2> QED BY <2>3, <2>4, <2>5, <2>6
<1>13. CASE ServerStarts
  BY <1>13, <1>0 DEF ServerStarts, ServerReadsHello, ShowsHello, HelloInv
<1>14. CASE ServerReadsOn
  <2>1. /\ UNCHANGED <<sessions, cli, cache>> /\ ~srv.resumed /\ srv'.resumed = srv.resumed /\ srv'.pc # "complete"
        /\ (\A m \in ToSet(s2c') : m \in ToSet(s2c)) /\ (\A m \in ToSet(c2s') : m \in ToSet(c2s))
    BY <1>0, <1>14 DEF ServerReadsOn, ServerQuiet, ServerTakes, ServerReads, ServerAdds, ServerInv
  <2> QED BY <2>1
<1>15. CASE ServerRekeys
  BY <1>15, <1>0 DEF ServerRekeys, ServerQuiet, ServerTakes, ServerReads, ServerAdds
<1>16. CASE ServerCompletes
  <2>1. /\ UNCHANGED <<cli, cache, scfg>> /\ srv'.resumed = srv.resumed /\ srv'.pc = "complete"
        /\ srv'.master = srv.master /\ srv'.peer = srv.peer /\ srv'.ch = srv.ch
        /\ \A m \in ToSet(c2s') : m \in ToSet(c2s)
        /\ sessions' = IF srv.resumed THEN sessions ELSE sessions \cup {Established}
    BY <1>0, <1>16 DEF ServerCompletes, ServerReads
  <2>2. /\ Established.master = srv'.master /\ Established.client = srv'.peer
        /\ Established.server = GetCertificate(scfg', srv'.ch.serverName)
    BY <2>1 DEF Established
  <2>3. \A m \in ToSet(s2c') : m.type = "ticket" =>
           \/ m \in ToSet(s2c)
           \/ ~srv.resumed /\ m.body.state.master = srv'.master /\ m.body.state.cert = srv'.peer
    BY <1>16 DEF ServerCompletes, Closes, Sealed
  <2>4. sessions \subseteq sessions' /\ (~srv.resumed => Established \in sessions')
    BY <2>1
  <2> HIDE DEF Established
  <2>5. \A m \in ToSet(s2c') : m.type = "ticket" => TicketOk(m.body)'
    BY <2>2, <2>3, <2>4
  <2>6. srv'.resumed => Known(srv.master, srv.peer)'
    BY <2>1, <2>4
  <2>7. ~srv'.resumed => \E s \in sessions' : s.master = srv'.master /\ s.server = GetCertificate(scfg', srv'.ch.serverName)
    BY <2>1, <2>2, <2>4
  <2>8. /\ \A t : TicketOk(t) => TicketOk(t)'
        /\ \A s : SessionOk(s) => SessionOk(s)'
    BY <2>4
  <2> HIDE DEF SessionOk, TicketOk, Known
  <2> QED BY <2>1, <2>5, <2>6, <2>7, <2>8
<1>17. CASE HelloDamaged
  <2>1. /\ \A m \in ToSet(s2c') : m.type = "ticket" => m \in ToSet(s2c)
        /\ \A m \in ToSet(c2s') : m.type = "clientHello" =>
             \E h \in ToSet(c2s) : h.type = "clientHello" /\ m.body.sessionTicket \in {None, h.body.sessionTicket}
        /\ UNCHANGED <<cache, cli, srv, scfg, sessions>>
    BY <1>0, <1>17 DEF HelloDamaged, Damaged, HelloInv
  <2> QED BY <2>1
<1>18. CASE Idles
  BY <1>18, <1>0 DEF Idles, net
<1>19. CASE Begins
  BY <1>19, <1>0 DEF Begins, Fresh, Ended
<1> QED BY <1>1, <1>2, <1>3, <1>4, <1>5, <1>6, <1>7, <1>8, <1>9, <1>10, <1>11, <1>12, <1>13,
           <1>14, <1>15, <1>16, <1>17, <1>18, <1>19 DEF Effects, ClientSteps, ServerSteps

\* The session of a ticket that a failed handshake offered is in no cache.
LEMMA BurntStep ==
  ASSUME Shape, ClientInv, ServerInv, HelloInv, FinishedInv, BurntInv, Effects PROVE BurntInv'
<1> USE DEF BurntInv, Born, Plain, Fields, world, Late
<1>0. /\ DOMAIN cli = Fields /\ DOMAIN srv = Fields /\ Later(c2s) \subseteq ToSet(c2s) /\ Later(s2c) \subseteq ToSet(s2c)
      /\ CacheKey(ccfg) \in DOMAIN cache /\ conn \in Nat \ {0}
  BY DEF Shape, Later, ToSet, IsSeq
<1>1. CASE ClientGivesUp
  BY <1>1, <1>0 DEF ClientGivesUp, Ended, Evicted
<1>2. CASE ClientGreets
  BY <1>2, <1>0 DEF ClientGreets, Offered, Stored
<1>3. CASE ClientHears
  <2>1. /\ cli.pc = "serverHello" /\ cli'.pc \in {"ticket", "ccs", "certificate"}
        /\ cli'.offered = cli.offered /\ cli'.session = cli.session /\ ToSet(s2c') \subseteq ToSet(s2c)
        /\ UNCHANGED <<cache, srv, conn, ccfg, burnt>>
    BY <1>0, <1>3 DEF ClientHears, ClientQuiet, ClientTakes, ClientReads, AwaitServer
  <2>2. cli.session = None
    BY <2>1 DEF ClientInv
  <2> QED BY <2>1, <2>2
<1>4. CASE ClientIdentifies
  BY <1>4, <1>0 DEF ClientIdentifies, ClientQuiet, ClientTakes, ClientReads, ClientAdds, Logged,
     Full
<1>5. CASE ClientReadsOn
  BY <1>5, <1>0 DEF ClientReadsOn, ClientQuiet, ClientTakes, ClientReads, ClientAdds, Middle, Full
<1>6. CASE ClientSealsFlight
  BY <1>6, <1>0 DEF ClientSealsFlight, ClientReads, Sealed, Middle, Full, ClientInv
<1>7. CASE ClientKeepsTicket
  BY <1>7, <1>0 DEF ClientKeepsTicket, ClientQuiet, ClientTakes, ClientReads, ClientAdds, Logged
<1>8. CASE ClientRekeys
  BY <1>8, <1>0 DEF ClientRekeys, ClientQuiet, ClientTakes, ClientReads, ClientAdds
<1>9. CASE ClientCompletes
  <2>1. /\ cli'.offered = cli.offered /\ cli'.session = cli.session /\ UNCHANGED <<burnt, srv, conn, ccfg>>
        /\ \A m \in ToSet(s2c') : m \in ToSet(s2c)
        /\ cache' = IF cli.session = None THEN cache ELSE [cache EXCEPT ![CacheKey(ccfg)] = cli.session]
        /\ cli.pc = "finished" /\ cli'.pc = "complete"
    BY <1>0, <1>9 DEF ClientCompletes, ClientReads
  <2>2. cli.session # None => cli.session.ticket.state.master = cli.session.master /\ cli.session.master = cli.master
    <3>1. Head(s2c) \in ToSet(s2c) /\ Head(s2c).type = "finished" /\ Head(s2c).body = SumOf("server", cli)
      BY <1>9 DEF ClientCompletes, ClientReads
    <3>2. cli.master = srv.master
      BY <3>1 DEF FinishedInv, ServerSigned, Signed, SumOf
    <3> QED BY <2>1, <3>2 DEF ClientInv
  <2>3. IF cli.resumed THEN cli.offered # None /\ cli.master = cli.offered.master ELSE cli.master.pre.conn = conn
    BY <2>1 DEF ClientInv
  <2>4. \A k \in DOMAIN cache : cache[k] # None => Born(cache[k]) \in 1 .. conn - 1
    BY <1>0, <2>1
  <2>5. cli.session # None =>
          /\ Born(cli.session) \in 1 .. conn
          /\ \A k \in DOMAIN cache : cache[k] # None /\ k # CacheKey(ccfg) => cache[k].master # cli.session.master
          /\ \A b \in burnt : cli.session.master # b.state.master
    BY <1>0, <2>1, <2>2, <2>3, <2>4
  <2>6. \A k \in DOMAIN cache' : cache'[k] # None =>
          /\ cache'[k].ticket.state.master = cache'[k].master
          /\ Born(cache'[k]) \in 1 .. conn
    BY <1>0, <2>1, <2>2, <2>4, <2>5
  <2>7. \A j, k \in DOMAIN cache' : cache'[j] # None /\ cache'[k] # None /\ j # k => cache'[j].master # cache'[k].master
    BY <1>0, <2>1, <2>5
  <2>8. \A b \in burnt : \A k \in DOMAIN cache' : cache'[k] # None => cache'[k].master # b.state.master
    BY <1>0, <2>1, <2>5
  <2> HIDE DEF Born
  <2> QED BY <1>0, <2>1, <2>6, <2>7, <2>8
<1>10. CASE ServerGivesUp
  BY <1>10, <1>0 DEF ServerGivesUp, Ended
<1>11. CASE ServerRefuses
  BY <1>11, <1>0 DEF ServerRefuses, ServerReadsHello, ShowsHello, HelloInv
<1>12. CASE ServerGoesOn
  BY <1>12, <1>0 DEF ServerGoesOn, ServerReadsHello, Closes, Sealed, HelloInv, ShowsHello
<1>13. CASE ServerStarts
  BY <1>13, <1>0 DEF ServerStarts, ServerReadsHello, ShowsHello, HelloInv
<1>14. CASE ServerReadsOn
  BY <1>14, <1>0 DEF ServerReadsOn, ServerQuiet, ServerTakes, ServerReads, ServerAdds, ServerInv
<1>15. CASE ServerRekeys
  BY <1>15, <1>0 DEF ServerRekeys, ServerQuiet, ServerTakes, ServerReads, ServerAdds
<1>16. CASE ServerCompletes
  BY <1>16, <1>0 DEF ServerCompletes, ServerReads, Closes, Sealed
<1>17. CASE HelloDamaged
  <2>1. /\ \A m \in ToSet(s2c') : m.type = "ticket" => m \in ToSet(s2c)
        /\ UNCHANGED <<cache, cli, srv, conn, ccfg, burnt>>
    BY <1>0, <1>17 DEF HelloDamaged, Damaged
  <2> QED BY <2>1
<1>18. CASE Idles
  BY <1>18, <1>0 DEF Idles, net
<1>19. CASE Begins
  BY <1>19, <1>0 DEF Begins, Fresh, Ended
<1> QED BY <1>1, <1>2, <1>3, <1>4, <1>5, <1>6, <1>7, <1>8, <1>9, <1>10, <1>11, <1>12, <1>13,
           <1>14, <1>15, <1>16, <1>17, <1>18, <1>19 DEF Effects, ClientSteps, ServerSteps

\* The client's certificate checks, its session cache included.
LEMMA PeerStep ==
  ASSUME SameRoots, Shape, ClientInv, ServerInv, HelloInv, BurntInv, PeerInv, Effects PROVE PeerInv'
<1> USE DEF PeerInv, Fields, world, Late, Full, AcceptsServer, Verify, Current
<1>0. /\ DOMAIN cli = Fields /\ DOMAIN srv = Fields
      /\ CacheKey(ccfg) \in DOMAIN cache /\ conn \in Nat \ {0} /\ plan.conns \in Nat /\ ccfg \in plan.clients
      /\ plan \in Plans
  BY PlansAssumption DEF Shape
<1>1. CASE ClientGivesUp
  BY <1>1, <1>0 DEF ClientGivesUp, Ended, Evicted
<1>2. CASE ClientGreets
  <2>1. PICK hello : cli' = [cli EXCEPT !.pc = "serverHello", !.ch = Greeting(hello, Offered(hello)), !.offered = Offered(hello)]
    BY <1>2 DEF ClientGreets
  <2>2. /\ cli'.pc = "serverHello" /\ cli'.offered = Offered(hello) /\ UNCHANGED <<plan, ccfg, scfg, conn, now, srv>>
        /\ \A k \in DOMAIN cache' : k \in DOMAIN cache /\ (cache'[k] # None => cache'[k] = cache[k])
        /\ cli.pc = "start"
    BY <1>0, <1>2, <2>1 DEF ClientGreets
  <2>3. Offered(hello) # None => Offered(hello) = cache[CacheKey(ccfg)] /\ Usable(hello) /\ Stored = cache[CacheKey(ccfg)]
    BY DEF Offered, Stored
  <2>4. Offered(hello) # None /\ ~ccfg.insecure => Offered(hello).verified /\ Verify(Offered(hello).cert, ccfg.roots, ccfg.server.name)
    <3> SUFFICES ASSUME Offered(hello) # None, ~ccfg.insecure
                 PROVE  Offered(hello).verified /\ Verify(Offered(hello).cert, ccfg.roots, ccfg.server.name)
      OBVIOUS
    <3> DEFINE s == cache[CacheKey(ccfg)]
    <3>1. s # None /\ s = Stored /\ s.verified /\ ~Expired /\ Names(s.cert, ccfg.server.name) /\ Offered(hello) = s
      BY <2>3 DEF Usable, Trusted
    <3>2. conn > 1
      BY <1>0, <2>2, <3>1 DEF BurntInv
    <3>3. PICK c \in plan.clients : s.cert.issuer \in c.roots
      BY <1>0, <3>1
    <3>4. s.cert.issuer \in ccfg.roots
      BY <1>0, <3>2, <3>3 DEF SameRoots
    <3>5. now <= s.cert.notAfter
      BY <3>1 DEF Expired
    <3> QED BY <3>1, <3>4, <3>5
  <2>5. Offered(hello) # None /\ Offered(hello).verified => \E c \in plan.clients : Offered(hello).cert.issuer \in c.roots
    BY <1>0, <2>3
  <2> QED BY <2>2, <2>4, <2>5
<1>3. CASE ClientHears
  <2> DEFINE sh == Head(s2c).body
  <2>1. /\ cli.pc = "serverHello" /\ cli'.session = cli.session /\ cli'.offered = cli.offered
        /\ cli'.pc = IF ServerResumedSession(sh) THEN AwaitServer(sh) ELSE "certificate"
        /\ cli'.peer = IF ServerResumedSession(sh) THEN cli.offered.cert ELSE None
        /\ UNCHANGED <<plan, ccfg, scfg, conn, now, srv, cache>>
    BY <1>0, <1>3 DEF ClientHears, ClientQuiet, ClientTakes, ClientReads
  <2>2. cli.session = None /\ AwaitServer(sh) \in {"ticket", "ccs"}
    BY <2>1 DEF ClientInv, AwaitServer
  <2>3. ServerResumedSession(sh) => AcceptsServer(cli.offered.cert)
    BY DEF ServerResumedSession
  <2> QED BY <2>1, <2>2, <2>3
<1>4. CASE ClientIdentifies
  BY <1>4, <1>0 DEF ClientIdentifies, ClientQuiet, ClientTakes, ClientReads, ClientAdds, Logged
<1>5. CASE ClientReadsOn
  BY <1>5, <1>0 DEF ClientReadsOn, ClientQuiet, ClientTakes, ClientReads, ClientAdds, Middle
<1>6. CASE ClientSealsFlight
  BY <1>6, <1>0 DEF ClientSealsFlight, ClientReads, Middle, ClientInv
<1>7. CASE ClientKeepsTicket
  BY <1>7, <1>0 DEF ClientKeepsTicket, ClientQuiet, ClientTakes, ClientReads, ClientAdds, Logged,
     ClientInv
<1>8. CASE ClientRekeys
  BY <1>8, <1>0 DEF ClientRekeys, ClientQuiet, ClientTakes, ClientReads, ClientAdds
<1>9. CASE ClientCompletes
  BY <1>9, <1>0 DEF ClientCompletes, ClientReads
<1>10. CASE ServerGivesUp
  BY <1>10, <1>0 DEF ServerGivesUp, Ended
<1>11. CASE ServerRefuses
  BY <1>11, <1>0 DEF ServerRefuses, ServerReadsHello
<1>12. CASE ServerGoesOn
  BY <1>12, <1>0 DEF ServerGoesOn, ServerReadsHello
<1>13. CASE ServerStarts
  BY <1>13, <1>0 DEF ServerStarts, ServerReadsHello
<1>14. CASE ServerReadsOn
  BY <1>14, <1>0 DEF ServerReadsOn, ServerQuiet, ServerTakes, ServerReads, ServerAdds, ServerInv
<1>15. CASE ServerRekeys
  BY <1>15, <1>0 DEF ServerRekeys, ServerQuiet, ServerTakes, ServerReads, ServerAdds
<1>16. CASE ServerCompletes
  BY <1>16, <1>0 DEF ServerCompletes, ServerReads
<1>17. CASE HelloDamaged
  BY <1>17, <1>0 DEF HelloDamaged
<1>18. CASE Idles
  BY <1>18, <1>0 DEF Idles, net
<1>19. CASE Begins
  BY <1>19, <1>0 DEF Begins, Fresh, Ended
<1> QED BY <1>1, <1>2, <1>3, <1>4, <1>5, <1>6, <1>7, <1>8, <1>9, <1>10, <1>11, <1>12, <1>13,
           <1>14, <1>15, <1>16, <1>17, <1>18, <1>19 DEF Effects, ClientSteps, ServerSteps

\* The server's certificate checks, its tickets included.
LEMMA PolicyStep ==
  ASSUME Shape, ServerInv, PolicyInv, Effects PROVE PolicyInv'
<1> USE DEF PolicyInv, Fields, world, AcceptsClient, Verify, Current
<1>0. DOMAIN cli = Fields /\ DOMAIN srv = Fields
  BY DEF Shape
<1>1. CASE ClientGivesUp
  BY <1>1, <1>0 DEF ClientGivesUp, Ended
<1>2. CASE ClientGreets
  BY <1>2, <1>0 DEF ClientGreets
<1>3. CASE ClientHears
  BY <1>3, <1>0 DEF ClientHears, ClientQuiet, ClientTakes, ClientReads, ClientAdds
<1>4. CASE ClientIdentifies
  BY <1>4, <1>0 DEF ClientIdentifies, ClientQuiet, ClientTakes, ClientReads, ClientAdds
<1>5. CASE ClientReadsOn
  BY <1>5, <1>0 DEF ClientReadsOn, ClientQuiet, ClientTakes, ClientReads, ClientAdds
<1>6. CASE ClientSealsFlight
  BY <1>6, <1>0 DEF ClientSealsFlight, ClientReads
<1>7. CASE ClientKeepsTicket
  BY <1>7, <1>0 DEF ClientKeepsTicket, ClientQuiet, ClientTakes, ClientReads, ClientAdds
<1>8. CASE ClientRekeys
  BY <1>8, <1>0 DEF ClientRekeys, ClientQuiet, ClientTakes, ClientReads, ClientAdds
<1>9. CASE ClientCompletes
  BY <1>9, <1>0 DEF ClientCompletes, ClientReads
<1>10. CASE ServerGivesUp
  BY <1>10, <1>0 DEF ServerGivesUp, Ended
<1>11. CASE ServerRefuses
  BY <1>11, <1>0 DEF ServerRefuses, ServerReadsHello
<1>12. CASE ServerGoesOn
  BY <1>12, <1>0 DEF ServerGoesOn, ServerReadsHello, CarriesOver
<1>13. CASE ServerStarts
  BY <1>13, <1>0 DEF ServerStarts, ServerReadsHello, RequiresClientCert
<1>14. CASE ServerReadsOn
  BY <1>14, <1>0 DEF ServerReadsOn, ServerQuiet, ServerTakes, ServerReads, ServerAdds
<1>15. CASE ServerRekeys
  BY <1>15, <1>0 DEF ServerRekeys, ServerQuiet, ServerTakes, ServerReads, ServerAdds
<1>16. CASE ServerCompletes
  BY <1>16, <1>0 DEF ServerCompletes, ServerReads
<1>17. CASE HelloDamaged
  BY <1>17, <1>0 DEF HelloDamaged
<1>18. CASE Idles
  BY <1>18, <1>0 DEF Idles, net
<1>19. CASE Begins
  BY <1>19, <1>0 DEF Begins, Fresh, Ended
<1> QED BY <1>1, <1>2, <1>3, <1>4, <1>5, <1>6, <1>7, <1>8, <1>9, <1>10, <1>11, <1>12, <1>13,
           <1>14, <1>15, <1>16, <1>17, <1>18, <1>19 DEF Effects, ClientSteps, ServerSteps

----------------------------------------------------------------------------
(* The theorems.                                                           *)

\* The invariant holds at the start.
LEMMA InitInv == ASSUME Init PROVE IInv /\ PeerInv
<1>1. /\ DOMAIN Fresh("start") = Fields /\ DOMAIN Fresh("clientHello") = Fields
      /\ IsSeq(<<>>) /\ ToSet(<<>>) = {} /\ Later(<<>>) = {}
  BY Short DEF Fresh, Fields, Later
<1>2. /\ \A pc : /\ Fresh(pc).pc = pc /\ Fresh(pc).rest = <<>> /\ Fresh(pc).resumed = FALSE
                 /\ Fresh(pc).session = None /\ Fresh(pc).offered = None /\ Fresh(pc).peer = None
  BY DEF Fresh
<1>3. /\ cli = Fresh("start") /\ srv = Fresh("clientHello") /\ c2s = <<>> /\ s2c = <<>> /\ damaged = FALSE
      /\ conn = 1 /\ sessions = {} /\ burnt = {} /\ \A k \in DOMAIN cache : cache[k] = None
      /\ DOMAIN cache = {CacheKey(c) : c \in plan.clients}
      /\ plan \in Plans /\ ccfg \in plan.clients /\ scfg \in plan.servers
  BY DEF Init
<1>4. Shape
  <2>1. /\ DOMAIN cli = Fields /\ DOMAIN srv = Fields /\ cli.pc = "start" /\ srv.pc = "clientHello"
        /\ cli.resumed = FALSE /\ srv.resumed = FALSE /\ cli.rest = <<>> /\ srv.rest = <<>>
    BY <1>1, <1>2, <1>3
  <2>2. IsSeq(c2s) /\ IsSeq(s2c) /\ ToSet(c2s) = {} /\ ToSet(s2c) = {}
    BY <1>1, <1>3
  <2>3. conn \in Nat \ {0}
    BY <1>3
  <2> QED BY <1>1, <1>3, <2>1, <2>2, <2>3 DEF Shape
<1>5. ClientInv /\ ServerInv
  BY <1>2, <1>3 DEF ClientInv, ServerInv, Full, Late
<1>6. HelloInv
  BY <1>1, <1>2, <1>3 DEF HelloInv, Unsigned
<1>7. FinishedInv /\ DamageInv
  BY <1>1, <1>2, <1>3 DEF FinishedInv, DamageInv
<1>8. SessionInv
  BY <1>1, <1>2, <1>3 DEF SessionInv, Late
<1>9. BurntInv
  BY <1>1, <1>2, <1>3 DEF BurntInv, Late
<1>10. PeerInv
  BY <1>1, <1>2, <1>3 DEF PeerInv, Late, Full
<1>11. PolicyInv
  BY <1>2, <1>3 DEF PolicyInv
<1> QED BY <1>4, <1>5, <1>6, <1>7, <1>8, <1>9, <1>10, <1>11 DEF IInv

\* It is inductive.
LEMMA StepInv == ASSUME IInv, [Next]_vars PROVE IInv'
<1>1. Effects /\ NetShape'
  BY StepDoes DEF IInv
<1> QED BY <1>1, ShapeStep, ClientStep, ServerStep, HelloStep, FinishedStep, DamageStep,
           SessionStep, BurntStep, PolicyStep DEF IInv

\* Every state of the handshake satisfies the inductive invariant.
THEOREM Invariance == Spec => []IInv
<1>1. Init => IInv
  BY InitInv
<1>2. IInv /\ [Next]_vars => IInv'
  BY StepInv
<1> QED BY <1>1, <1>2, PTL DEF Spec

\* A hello damaged on its way is found out: neither clientHandshake nor
\* serverHandshake returns without an error.
THEOREM DamageFoundOut == Spec => []DamageIsFoundOut
<1>1. IInv => DamageIsFoundOut
  BY DEF IInv, DamageInv, FinishedInv, SameHandshake, DamageIsFoundOut
<1> QED BY <1>1, Invariance, PTL

\* Two ends that agree on the hellos agree on whether the handshake is resumed.
LEMMA SameKind ==
  ASSUME IInv, SameHandshake, cli.pc = "complete" \/ (ClientSigned /\ ~cli.resumed),
         srv.pc = "complete" \/ srv.resumed
  PROVE  cli.resumed = srv.resumed
<1>1. cli.resumed \in BOOLEAN /\ srv.resumed \in BOOLEAN
  BY DEF IInv, Shape
<1>2. srv.resumed => srv.sh.sessionId = srv.ch.sessionId /\ srv.ch.sessionTicket # None
  BY DEF IInv, ServerInv
<1>3. ~srv.resumed => srv.sh.sessionId = None
  BY DEF IInv, ServerInv
<1>4. CASE cli.pc = "complete"
  <2>1. /\ cli.ch.sessionId = conn /\ cli.ch.sessionTicket = IF cli.offered = None THEN None ELSE cli.offered.ticket
        /\ cli.resumed <=> cli.offered # None /\ cli.sh.sessionId = cli.ch.sessionId
    BY <1>4 DEF IInv, ClientInv, Late
  <2>2. conn # None
    BY NoneAssumption DEF IInv, Shape
  <2> QED BY <1>1, <1>2, <1>3, <2>1, <2>2 DEF SameHandshake
<1>5. CASE ClientSigned /\ ~cli.resumed
  BY <1>1, <1>2, <1>5 DEF ClientSigned, SameHandshake
<1> QED BY <1>4, <1>5

\* Who does not have the last word completes second: the client of a full handshake
\* only after its server, the server of a resumed one only after its client.
THEOREM LastFlightLast == Spec => []LastFlight
<1>1. ASSUME IInv, cli.pc = "complete", ~cli.resumed PROVE srv.pc = "complete"
  <2>1. SameHandshake /\ ServerSigned
    BY <1>1 DEF IInv, FinishedInv
  <2> QED BY <1>1, <2>1, SameKind DEF ServerSigned
<1>2. ASSUME IInv, srv.pc = "complete", srv.resumed PROVE cli.pc = "complete"
  <2>1. SameHandshake /\ ClientSigned
    BY <1>2 DEF IInv, FinishedInv
  <2> QED BY <1>2, <2>1, SameKind DEF ClientSigned
<1>3. IInv => LastFlight
  BY <1>1, <1>2 DEF LastFlight
<1> QED BY <1>3, Invariance, PTL

\* A ticket that a failed handshake offered is never offered again: clientHandshake
\* has put nil in the cache, and no other entry is of the same session.
THEOREM FailedTicketsNotOffered == Spec => []FailedNotOffered
<1>1. IInv => FailedNotOffered
  BY DEF IInv, BurntInv, FailedNotOffered
<1> QED BY <1>1, Invariance, PTL

\* A server that completes knows its client as its ClientAuth demands, with a ticket
\* issued under another configuration too, and a resumed handshake goes on with
\* one that was completed, with the certificates of then.
THEOREM PolicyKept == Spec => [](ClientAuthPolicy /\ ResumesEstablished)
<1>1. IInv => ClientAuthPolicy
  BY DEF IInv, PolicyInv, ClientAuthPolicy, AcceptsClient
<1>2. IInv => ResumesEstablished
  <2> SUFFICES ASSUME IInv, NEW e \in {cli, srv}, e.pc = "complete", e.resumed
               PROVE  \E s \in sessions : /\ s.master = e.offered.master
                                          /\ (e = cli => s.server = cli.peer)
                                          /\ (e = srv => s.client = srv.peer)
    BY DEF ResumesEstablished
  <2>1. cli # srv
    <3>1. ASSUME cli = srv PROVE FALSE
      <4>1. cli.peerSum.role = "server" /\ srv.peerSum.role = "client"
        BY <3>1 DEF IInv, FinishedInv, ServerSigned, ClientSigned, Signed
      <4> QED BY <3>1, <4>1
    <3> QED BY <3>1
  <2>2. CASE e = cli
    <3>1. cli.offered # None /\ cli.peer = cli.offered.cert
      BY <2>2 DEF IInv, ClientInv, Late
    <3> QED BY <2>1, <2>2, <3>1 DEF IInv, SessionInv, SessionOk
  <2>3. CASE e = srv
    BY <2>1, <2>3 DEF IInv, SessionInv, ServerInv, Known
  <2> QED BY <2>2, <2>3
<1> QED BY <1>1, <1>2, Invariance, PTL

\* A client that verifies completes only with a server of its name, of its roots and
\* of today, also out of a session another connection has stored, as long as
\* clients that share a cache share their roots; and all of PolicyKept.
THEOREM Authentication == ASSUME SameRoots PROVE Spec => []Authenticated
<1>1. PeerInv => AuthenticServer
  BY DEF PeerInv, AuthenticServer, AcceptsServer, Late
<1>2. Init => IInv /\ PeerInv
  BY InitInv
<1>3. IInv /\ PeerInv /\ [Next]_vars => (IInv /\ PeerInv)'
  BY StepInv, StepDoes, PeerStep DEF IInv
<1>4. AuthenticServer /\ ClientAuthPolicy /\ ResumesEstablished => Authenticated
  BY DEF Authenticated
<1> QED BY <1>1, <1>2, <1>3, <1>4, PolicyKept, PTL DEF Spec

----------------------------------------------------------------------------
(* The handshake implements Agreement.                                     *)

\* What each end has come to, as HandshakeSpec sees it.
clientOutcome == Outcome(cli, cli.sum)
serverOutcome == Outcome(srv, srv.peerSum)

\* An outcome tells how far its end is.
LEMMA Outcomes ==
  \A e, sum : /\ ~Ended(e) <=> Outcome(e, sum) = Running
              /\ e.pc = "failed" <=> Outcome(e, sum) = Failed
              /\ e.pc = "complete" <=> Outcome(e, sum).state = "complete"
<1> SUFFICES ASSUME NEW e, NEW sum
             PROVE  /\ ~Ended(e) <=> Outcome(e, sum) = Running
                    /\ e.pc = "failed" <=> Outcome(e, sum) = Failed
                    /\ e.pc = "complete" <=> Outcome(e, sum).state = "complete"
  OBVIOUS
<1>1. Running.state = "running" /\ Failed.state = "failed"
  BY DEF Running, Failed
<1>2. CASE e.pc = "complete"
  <2>1. Outcome(e, sum).state = "complete"
    BY <1>2 DEF Outcome
  <2> QED BY <1>1, <1>2, <2>1 DEF Ended
<1>3. CASE e.pc = "failed"
  <2>1. Outcome(e, sum) = Failed
    BY <1>3 DEF Outcome
  <2> QED BY <1>1, <1>3, <2>1 DEF Ended
<1>4. CASE ~Ended(e)
  <2>1. Outcome(e, sum) = Running
    BY <1>4 DEF Outcome, Ended
  <2> QED BY <1>1, <1>4, <2>1 DEF Ended
<1> QED BY <1>2, <1>3, <1>4 DEF Ended

\* Two ends that have both completed report the same.
LEMMA Agreeing ==
  ASSUME IInv PROVE Promise!Agree(clientOutcome, serverOutcome)
<1>1. CASE cli.pc = "complete" /\ srv.pc = "complete"
  <2>1. SameHandshake /\ srv.peerSum = cli.sum
    BY <1>1 DEF IInv, FinishedInv
  <2>2. cli.resumed = srv.resumed
    BY <1>1, <2>1, SameKind
  <2>3. clientOutcome = serverOutcome
    BY <1>1, <2>1, <2>2 DEF clientOutcome, serverOutcome, Outcome, SameHandshake
  <2> QED BY <2>3 DEF Promise!Agree
<1>2. CASE ~(cli.pc = "complete" /\ srv.pc = "complete")
  BY <1>2, Outcomes DEF Promise!Agree, clientOutcome, serverOutcome, Ended
<1> QED BY <1>1, <1>2

\* The promise, of the two outcomes.
Agreed == Promise!Agree(clientOutcome, serverOutcome)

\* The handshake implements Agreement: who completes reports what its peer reports,
\* the hellos, the secret, and whether the handshake was resumed, and an outcome
\* stays.
THEOREM AgreementRefined == Spec => Agrees
<1>1. Init => Promise!Init
  <2> SUFFICES ASSUME Init PROVE Promise!Init
    OBVIOUS
  <2>1. cli.pc = "start" /\ srv.pc = "clientHello"
    BY DEF Init, Fresh
  <2>2. clientOutcome = Running /\ serverOutcome = Running
    BY <2>1, Outcomes DEF Ended, clientOutcome, serverOutcome
  <2> QED BY <2>2 DEF Promise!Init, clientOutcome, serverOutcome
<1>2. IInv => Agreed
  BY Agreeing DEF Agreed
<1>3. IInv /\ Agreed' /\ [Next]_vars => [Promise!Next]_<<clientOutcome, serverOutcome>>
  <2> SUFFICES ASSUME IInv, Agreed', [Next]_vars
               PROVE  [Promise!Next]_<<clientOutcome, serverOutcome>>
    OBVIOUS
  <2>1. Effects
    BY StepDoes DEF IInv
  <2>2. Promise!Agree(clientOutcome', serverOutcome')
    BY DEF Agreed
  <2>3. CASE ClientSteps
    <3>1. ~Ended(cli) /\ srv' = srv
      BY <2>3 DEF ClientSteps, ClientGivesUp, ClientGreets, ClientHears, ClientIdentifies,
         ClientReadsOn,
                  ClientSealsFlight, ClientKeepsTicket, ClientRekeys, ClientCompletes, ClientQuiet, ClientTakes,
                  ClientReads, Ended, Middle, Full
    <3>2. clientOutcome = Running /\ serverOutcome' = serverOutcome
      BY <3>1, Outcomes DEF clientOutcome, serverOutcome
    <3>3. Promise!ClientEnds \/ UNCHANGED <<clientOutcome, serverOutcome>>
      BY <2>2, <3>2 DEF Promise!ClientEnds, clientOutcome, serverOutcome
    <3> QED BY <3>3 DEF Promise!Next
  <2>4. CASE ServerSteps
    <3>1. ~Ended(srv) /\ cli' = cli
      BY <2>4 DEF ServerSteps, ServerGivesUp, ServerRefuses, ServerGoesOn, ServerStarts,
         ServerReadsOn, ServerRekeys,
                  ServerCompletes, ServerQuiet, ServerTakes, ServerReads, ServerReadsHello, Ended
    <3>2. serverOutcome = Running /\ clientOutcome' = clientOutcome
      BY <3>1, Outcomes DEF clientOutcome, serverOutcome
    <3>3. Promise!ServerEnds \/ UNCHANGED <<clientOutcome, serverOutcome>>
      BY <2>2, <3>2 DEF Promise!ServerEnds, clientOutcome, serverOutcome
    <3> QED BY <3>3 DEF Promise!Next
  <2>5. CASE HelloDamaged \/ Idles
    <3>1. UNCHANGED <<cli, srv>>
      BY <2>5 DEF HelloDamaged, Idles
    <3> QED BY <3>1 DEF clientOutcome, serverOutcome
  <2>6. CASE Begins
    <3>1. Ended(cli) /\ Ended(srv) /\ cli'.pc = "start" /\ srv'.pc = "clientHello"
      BY <2>6 DEF Begins, Fresh
    <3>2. ~Ended(cli') /\ ~Ended(srv')
      BY <3>1 DEF Ended
    <3>3. clientOutcome # Running /\ serverOutcome # Running /\ clientOutcome' = Running /\ serverOutcome' = Running
      BY <3>1, <3>2, Outcomes DEF clientOutcome, serverOutcome
    <3> QED BY <3>3 DEF Promise!Next, Promise!Again, clientOutcome, serverOutcome
  <2> QED BY <2>1, <2>3, <2>4, <2>5, <2>6 DEF Effects
<1> QED BY <1>1, <1>2, <1>3, Invariance, PTL DEF Spec, Agrees, Promise!Spec, clientOutcome,
           serverOutcome
----------------------------------------------------------------------------
(* Queues and logs.                                                        *)

\* What the log keeps of a flight.
Keep(ms) == [i \in DOMAIN ms |-> Kept(ms[i])]

\* Sequences of any kind, over one set.
LEMMA Common ==
  ASSUME NEW p, NEW q, IsSeq(p), IsSeq(q)
  PROVE  p \in Seq(ToSet(p) \cup ToSet(q)) /\ q \in Seq(ToSet(p) \cup ToSet(q))
BY SeqGrows DEF IsSeq

\* The first message of a queue, and the others.
LEMMA Queued ==
  ASSUME NEW x, NEW q, IsSeq(q)
  PROVE  /\ IsSeq(<<x>> \o q) /\ <<x>> \o q # <<>> /\ Head(<<x>> \o q) = x /\ Tail(<<x>> \o q) = q
<1> DEFINE S == {x} \cup ToSet(q)
           c == <<x>> \o q
<1>1. q \in Seq(S) /\ <<x>> \in Seq(S)
  <2>1. q \in Seq(S)
    BY SeqGrows DEF IsSeq
  <2> QED BY <2>1
<1>2. IsSeq(c)
  BY Short, Joined
<1> HIDE DEF S
<1>3. c \in Seq(S) /\ Len(c) = Len(q) + 1 /\ c[1] = x /\ Len(q) \in Nat
  BY <1>1
<1>4. \A i \in 1 .. Len(q) : c[i + 1] = q[i]
  BY <1>1
<1> HIDE DEF c
<1>5. c # <<>> /\ Head(c) = x
  BY <1>3
<1>6. Tail(c) \in Seq(S) /\ Len(Tail(c)) = Len(q) /\ \A i \in 1 .. Len(q) : Tail(c)[i] = q[i]
  BY <1>3, <1>4
<1>7. Tail(c) = q
  BY <1>1, <1>6
<1> QED BY <1>2, <1>5, <1>7 DEF c

\* Nothing before and nothing behind a queue.
LEMMA Nothing ==
  ASSUME NEW q, IsSeq(q) PROVE <<>> \o q = q /\ q \o <<>> = q
BY DEF IsSeq

\* Sequences are joined in any order.
LEMMA Assoc ==
  ASSUME NEW p, NEW q, NEW r, IsSeq(p), IsSeq(q), IsSeq(r)
  PROVE  (p \o q) \o r = p \o (q \o r)
<1> DEFINE S == ToSet(p) \cup ToSet(q) \cup ToSet(r)
<1>1. p \in Seq(S) /\ q \in Seq(S) /\ r \in Seq(S)
  BY SeqGrows DEF IsSeq
<1> HIDE DEF S
<1> QED BY <1>1

\* Append is joining one.
LEMMA AppendIs == ASSUME NEW q, NEW x, IsSeq(q) PROVE Append(q, x) = q \o <<x>>
<1> DEFINE S == ToSet(q) \cup {x}
<1>1. q \in Seq(S) /\ x \in S
  BY SeqGrows DEF IsSeq
<1> HIDE DEF S
<1> QED BY <1>1

\* What the log keeps of no message, of one, of two flights.
LEMMA KeepIs ==
  /\ Keep(<<>>) = <<>> /\ \A x : Keep(<<x>>) = <<Kept(x)>>
  /\ \A p : IsSeq(p) => IsSeq(Keep(p))
  /\ \A p, q : IsSeq(p) /\ IsSeq(q) => Keep(p \o q) = Keep(p) \o Keep(q)
<1>1. Keep(<<>>) = <<>> /\ \A x : Keep(<<x>>) = <<Kept(x)>>
  BY DEF Keep
<1>2. ASSUME NEW p, IsSeq(p) PROVE Keep(p) \in Seq({Kept(x) : x \in ToSet(p)}) /\ Len(Keep(p)) = Len(p)
                                   /\ \A i \in 1 .. Len(p) : Keep(p)[i] = Kept(p[i])
  BY <1>2, SetOf DEF Keep
<1>3. ASSUME NEW p, NEW q, IsSeq(p), IsSeq(q) PROVE Keep(p \o q) = Keep(p) \o Keep(q)
  <2> DEFINE S == ToSet(p) \cup ToSet(q)
             T == {Kept(x) : x \in S}
             k == Keep(p) \o Keep(q)
             l == Keep(p \o q)
  <2>1. p \in Seq(S) /\ q \in Seq(S) /\ Len(p) \in Nat /\ Len(q) \in Nat
    <3>1. p \in Seq(S) /\ q \in Seq(S)
      BY <1>3, Common
    <3> HIDE DEF S
    <3> QED BY <3>1
  <2>2. IsSeq(p \o q)
    BY <1>3, Joined
  <2>3. Keep(p) \in Seq(T) /\ Keep(q) \in Seq(T)
    <3>1. {Kept(x) : x \in ToSet(p)} \subseteq T /\ {Kept(x) : x \in ToSet(q)} \subseteq T
      OBVIOUS
    <3>2. Keep(p) \in Seq({Kept(x) : x \in ToSet(p)}) /\ Keep(q) \in Seq({Kept(x) : x \in ToSet(q)})
      BY <1>2, <1>3
    <3> HIDE DEF T
    <3> QED BY <3>1, <3>2, SeqGrows
  <2> HIDE DEF S, T
  <2>4. Len(p \o q) = Len(p) + Len(q) /\ \A i \in 1 .. Len(p) + Len(q) :
          (p \o q)[i] = IF i <= Len(p) THEN p[i] ELSE q[i - Len(p)]
    BY <2>1
  <2>5. Len(k) = Len(p) + Len(q) /\ k \in Seq(T) /\ \A i \in 1 .. Len(p) + Len(q) :
          k[i] = IF i <= Len(p) THEN Kept(p[i]) ELSE Kept(q[i - Len(p)])
    <3>1. Len(Keep(p)) = Len(p) /\ Len(Keep(q)) = Len(q)
      BY <1>2, <1>3
    <3>2. Len(k) = Len(p) + Len(q) /\ k \in Seq(T) /\ \A i \in 1 .. Len(p) + Len(q) :
            k[i] = IF i <= Len(p) THEN Keep(p)[i] ELSE Keep(q)[i - Len(p)]
      BY <2>1, <2>3, <3>1
    <3>3. \A i \in 1 .. Len(p) + Len(q) : i <= Len(p) => Keep(p)[i] = Kept(p[i])
      <4>1. \A i \in 1 .. Len(p) + Len(q) : i <= Len(p) => i \in 1 .. Len(p)
        BY <2>1
      <4>2. \A j \in 1 .. Len(p) : Keep(p)[j] = Kept(p[j])
        BY <1>2, <1>3
      <4> QED BY <4>1, <4>2
    <3>4. \A i \in 1 .. Len(p) + Len(q) : ~(i <= Len(p)) => Keep(q)[i - Len(p)] = Kept(q[i - Len(p)])
      <4>1. \A i \in 1 .. Len(p) + Len(q) : ~(i <= Len(p)) => i - Len(p) \in 1 .. Len(q)
        BY <2>1
      <4>2. \A j \in 1 .. Len(q) : Keep(q)[j] = Kept(q[j])
        BY <1>2, <1>3
      <4> QED BY <4>1, <4>2
    <3> HIDE DEF k
    <3> QED BY <3>2, <3>3, <3>4
  <2>6. Len(l) = Len(p) + Len(q) /\ l \in Seq({Kept(x) : x \in ToSet(p \o q)})
        /\ \A i \in 1 .. Len(p) + Len(q) : l[i] = IF i <= Len(p) THEN Kept(p[i]) ELSE Kept(q[i - Len(p)])
    <3>1. l \in Seq({Kept(x) : x \in ToSet(p \o q)}) /\ Len(l) = Len(p \o q)
          /\ \A i \in 1 .. Len(p \o q) : l[i] = Kept((p \o q)[i])
      BY <1>2, <2>2
    <3> HIDE DEF l
    <3> QED BY <2>4, <3>1
  <2> HIDE DEF k, l
  <2>7. k = l
    BY <2>5, <2>6
  <2> QED BY <2>7 DEF k, l
<1>4. ASSUME NEW p, IsSeq(p) PROVE IsSeq(Keep(p))
  BY <1>2, <1>4, SeqIsSeq
<1> QED BY <1>1, <1>3, <1>4

\* Who logs one message after the other has logged the flight.
LEMMA LogReads ==
  ASSUME NEW r, NEW q, NEW x, IsSeq(r), IsSeq(q)
  PROVE  Append(r, Kept(x)) \o Keep(q) = r \o Keep(<<x>> \o q)
<1>1. IsSeq(<<x>>) /\ IsSeq(<<Kept(x)>>) /\ IsSeq(Keep(q))
  BY Short, KeepIs
<1>2. Keep(<<x>> \o q) = <<Kept(x)>> \o Keep(q)
  <2> DEFINE one == <<x>>
  <2>1. IsSeq(one) /\ Keep(one) = <<Kept(x)>>
    BY <1>1, KeepIs
  <2> HIDE DEF one
  <2>2. Keep(one \o q) = Keep(one) \o Keep(q)
    BY <2>1, KeepIs
  <2> QED BY <2>1, <2>2 DEF one
<1>3. (r \o <<Kept(x)>>) \o Keep(q) = r \o (<<Kept(x)>> \o Keep(q))
  BY <1>1, Assoc
<1> QED BY <1>2, <1>3, AppendIs

----------------------------------------------------------------------------
(* What compatible ends agree on.                                          *)

TheHello == MakeClientHello(ccfg)
TheVers  == MutualVersion(scfg, FALSE, TheHello.supportedVersions)
TheCert  == GetCertificate(scfg, TheHello.serverName)
TheSuite == PickCipherSuite(TheVers, scfg, TheHello, TheCert)

\* The client takes that version.
VersionTaken == MutualVersion(ccfg, TRUE, <<TheVers>>) # None

\* The version that the server picks is one the client takes.
LEMMA VersionAgreed ==
  ASSUME Compatible
  PROVE  /\ TheVers \in {768, 769, 770, 771} /\ TheVers \in ToSet(AllVersions) /\ TheVers # None
         /\ VersionTaken
         /\ TheHello.supportedVersions # <<>>
         /\ TheVers >= VersionTLS12 => TheHello.supportedSignatureAlgorithms = SupportedSignatureAlgorithms
<1> DEFINE ours   == SupportedVersions(ccfg, TRUE)
           theirs == ToSet(SupportedVersions(scfg, FALSE))
<1>1. TheHello # None /\ TheVers # None
  BY DEF Compatible, TheHello, TheVers
<1>2. /\ TheHello.supportedVersions = ours /\ ours # <<>> /\ TheHello.vers \in Nat
      /\ \A v \in ToSet(ours) : v <= VersionTLS12 => v <= TheHello.vers
      /\ TheHello.vers >= VersionTLS12 => TheHello.supportedSignatureAlgorithms = SupportedSignatureAlgorithms
  BY <1>1, HelloIs DEF TheHello
<1>3. ours \in Seq(Nat) /\ ToSet(ours) \subseteq ToSet(AllVersions)
  BY Supported
<1>4. VersionTLS13 \notin ToSet(ours)
  <2> DEFINE chosen == {v \in ToSet(AllVersions) :
                          /\ ccfg.minVersion # None => v >= ccfg.minVersion
                          /\ ccfg.maxVersion # None => v <= ccfg.maxVersion
                          /\ TRUE => v >= VersionTLS10
                          /\ v = VersionTLS13 => Tls13}
  <2>1. ours = Among(AllVersions, chosen) /\ VersionTLS13 \notin chosen
    BY OldVersionsOnly DEF SupportedVersions
  <2>2. AllVersions \in Seq(Nat)
    BY Versions
  <2> HIDE DEF chosen, ours
  <2> QED BY <2>1, <2>2, AmongIs
<1>5. TheVers = FirstIn(ours, theirs)
  BY <1>2 DEF TheVers, MutualVersion
<1> HIDE DEF ours, theirs
<1>6. TheVers \in ToSet(ours)
  BY <1>1, <1>3, <1>5, FirstInEither
<1>7. TheVers \in {768, 769, 770, 771}
  BY <1>3, <1>4, <1>6, Versions DEF VersionTLS13
<1>8. FirstIn(<<TheVers>>, ToSet(ours)) # None
  <2>1. <<TheVers>> \in Seq(Nat) /\ ToSet(<<TheVers>>) = {TheVers}
    BY <1>7, Short
  <2>2. FirstIn(<<TheVers>>, ToSet(ours)) \in ToSet(<<TheVers>>) \cap ToSet(ours)
    BY <1>6, <2>1, FirstInEither
  <2> QED BY <1>1, <2>1, <2>2
<1>9. VersionTaken
  BY <1>8 DEF VersionTaken, MutualVersion, ours
<1>10. TheVers >= VersionTLS12 => TheHello.supportedSignatureAlgorithms = SupportedSignatureAlgorithms
  <2>1. SUFFICES ASSUME TheVers >= VersionTLS12
                 PROVE  TheHello.vers >= VersionTLS12
    BY <1>2
  <2>2. TheVers = VersionTLS12
    BY <1>7, <2>1 DEF VersionTLS12
  <2>3. TheVers <= TheHello.vers
    BY <1>2, <1>6, <2>2 DEF VersionTLS12
  <2> QED BY <2>2, <2>3
<1>11. TheVers \in ToSet(AllVersions)
  BY <1>3, <1>6
<1>12. TheHello.supportedVersions # <<>>
  BY <1>2
<1> QED BY <1>1, <1>7, <1>9, <1>10, <1>11, <1>12

\* The suites of the program, and of a configuration, are lists.
LEMMA SuiteLists ==
  ASSUME Shape
  PROVE  \A c \in {ccfg, scfg} : \E S : ConfigSuites(c) \in Seq(S)
<1>1. \E S : DefaultCipherSuites \in Seq(S)
  <2> DEFINE top == <<"ECDHE_RSA_CHACHA20", "ECDHE_ECDSA_CHACHA20", "ECDHE_RSA_AES128_GCM",
                      "ECDHE_RSA_AES256_GCM", "ECDHE_ECDSA_AES128_GCM", "ECDHE_ECDSA_AES256_GCM">>
             others == Among(CipherSuites, ToSet(CipherSuites) \ (ToSet(top) \cup suiteDefaultOff))
  <2>1. DefaultCipherSuites = top \o others
    BY DEF DefaultCipherSuites
  <2>2. CipherSuites \in Seq(ToSet(CipherSuites)) /\ top \in Seq(ToSet(CipherSuites))
    BY DEF CipherSuites, ToSet
  <2>3. others \in Seq(ToSet(CipherSuites))
    BY <2>2, AmongIs
  <2> DEFINE own == ToSet(CipherSuites)
  <2>4. top \in Seq(own) /\ others \in Seq(own)
    BY <2>2, <2>3
  <2> HIDE DEF top, others, own
  <2>5. top \o others \in Seq(own)
    BY <2>4
  <2> QED BY <2>1, <2>5
<1>2. ASSUME NEW c \in {ccfg, scfg} PROVE \E S : ConfigSuites(c) \in Seq(S)
  <2>1. c \in plan.clients \cup plan.servers /\ plan \in Plans
    BY DEF Shape
  <2>2. c.cipherSuites # None => c.cipherSuites \in Seq(ToSet(c.cipherSuites))
    BY <2>1, SuitesAssumption
  <2> QED BY <1>1, <2>2 DEF ConfigSuites
<1> QED BY <1>2

\* The suite that the server picks is one the client offers.
LEMMA SuiteAgreed ==
  ASSUME Shape, Compatible
  PROVE  TheSuite \in ToSet(TheHello.cipherSuites) /\ TheSuite \in ToSet(CipherSuites) /\ TheSuite # None
<1>1. TheHello # None /\ TheSuite # None
  BY DEF Compatible, TheHello, TheSuite, TheVers, TheCert
<1> DEFINE mine       == TheHello.cipherSuites
           ours       == ConfigSuites(scfg)
           preference == IF scfg.preferServer THEN ours ELSE mine
           supported  == IF scfg.preferServer THEN mine ELSE ours
           good       == {id \in ToSet(preference) : CanUseSuite(id, supported, TheVers, scfg, TheHello, TheCert)}
<1>2. TheSuite = FirstIn(preference, good)
  BY DEF TheSuite, PickCipherSuite
<1>3. \E S : mine \in Seq(S)
  <2> DEFINE adv == AdvertisedSuites(ccfg, TheHello.vers)
  <2>1. PICK S : ConfigSuites(ccfg) \in Seq(S)
    BY SuiteLists
  <2>2. adv \in Seq(ToSet(ConfigSuites(ccfg)))
    BY <2>1, AmongIs DEF AdvertisedSuites
  <2>3. mine = adv \o <<>> \/ mine = adv \o DefaultCipherSuitesTLS13
    BY <1>1, HelloIs DEF TheHello
  <2> DEFINE T == ToSet(ConfigSuites(ccfg)) \cup ToSet(DefaultCipherSuitesTLS13)
             more == DefaultCipherSuitesTLS13
  <2>4. <<>> \in Seq(T) /\ more \in Seq(ToSet(more))
    BY DEF DefaultCipherSuitesTLS13, ToSet
  <2>5. ToSet(ConfigSuites(ccfg)) \subseteq T /\ ToSet(more) \subseteq T
    OBVIOUS
  <2> HIDE DEF adv, T, mine, more
  <2>6. adv \in Seq(T) /\ more \in Seq(T)
    BY <2>2, <2>4, <2>5, SeqGrows
  <2>7. adv \o <<>> \in Seq(T) /\ adv \o more \in Seq(T)
    BY <2>4, <2>6
  <2>8. mine \in Seq(T)
    BY <2>3, <2>7 DEF more
  <2> QED BY <2>8
<1>4. \E S : preference \in Seq(S)
  BY <1>3, SuiteLists
<1> HIDE DEF mine, ours
<1>5. TheSuite \in ToSet(preference) \cap good
  <2> HIDE DEF preference, good
  <2> QED BY <1>1, <1>2, <1>4, FirstInEither
<1>6. TheSuite \in ToSet(supported) \cap ToSet(CipherSuites)
  BY <1>5 DEF CanUseSuite
<1> QED BY <1>1, <1>5, <1>6 DEF mine

\* The signature schemes of certificates that sign.
Schemes == {"ecdsa", "pkcs1"} \X {0, 1, 256, 384, 512}

\* The scheme one end picks is one the other end, who has all of them, takes.
LEMMA SchemeAgreed ==
  ASSUME NEW key, NEW peer, NEW vers \in Nat, NEW theirs,
         vers >= VersionTLS12 => IsSeq(peer) /\ peer # <<>>,
         vers >= VersionTLS12 => ToSet(SupportedSignatureAlgorithmsTLS12) \subseteq ToSet(theirs),
         PickSignatureAlgorithm(key, peer, SupportedSignatureAlgorithmsTLS12, vers) # None
  PROVE  LET scheme == PickSignatureAlgorithm(key, peer, SupportedSignatureAlgorithmsTLS12, vers)
         IN  scheme \in Schemes /\ PickSignatureAlgorithm(key, <<scheme>>, theirs, vers) # None
<1> DEFINE ours   == ToSet(SupportedSignatureAlgorithmsTLS12)
           scheme == PickSignatureAlgorithm(key, peer, SupportedSignatureAlgorithmsTLS12, vers)
<1>1. CASE vers < VersionTLS12
  <2>1. scheme = IF IsECDSA(key) THEN <<"ecdsa", 1>> ELSE <<"pkcs1", 0>>
    BY <1>1 DEF PickSignatureAlgorithm
  <2>2. PickSignatureAlgorithm(key, <<scheme>>, theirs, vers) = scheme
    BY <1>1, <2>1 DEF PickSignatureAlgorithm
  <2>3. scheme \in Schemes
    BY <2>1 DEF Schemes
  <2> QED BY <2>2, <2>3
<1>2. CASE ~(vers < VersionTLS12)
  <2> DEFINE good == {s \in ours : SignsWith(key, s)}
             fits == {s \in ToSet(theirs) : SignsWith(key, s)}
  <2>1. vers >= VersionTLS12 /\ peer # <<>> /\ IsSeq(peer)
    BY <1>2 DEF VersionTLS12
  <2>2. scheme = FirstIn(peer, good)
    BY <1>2, <2>1 DEF PickSignatureAlgorithm
  <2>3. \A s : <<s>> # <<>>
    BY Queued, Nothing, Short
  <2>4. PickSignatureAlgorithm(key, <<scheme>>, theirs, vers) = FirstIn(<<scheme>>, fits)
    <3> HIDE DEF scheme
    <3> QED BY <1>2, <2>3 DEF PickSignatureAlgorithm
  <2> HIDE DEF good, scheme, fits
  <2>5. scheme \in good
    BY <2>1, <2>2, FirstInEither DEF IsSeq, scheme
  <2>6. scheme \in fits
    BY <2>1, <2>5 DEF good, fits
  <2>7. FirstIn(<<scheme>>, fits) # None
    <3>1. <<scheme>> \in Seq({scheme}) /\ ToSet(<<scheme>>) = {scheme}
      BY Short DEF IsSeq
    <3>2. FirstIn(<<scheme>>, fits) \in ToSet(<<scheme>>) \cap fits
      BY <2>6, <3>1, FirstInEither
    <3> QED BY <3>1, <3>2 DEF scheme
  <2>8. ours \subseteq Schemes
    BY DEF SupportedSignatureAlgorithmsTLS12, SupportedSignatureAlgorithms, Schemes, ToSet
  <2> QED BY <2>4, <2>5, <2>7, <2>8 DEF good, scheme
<1> QED BY <1>1, <1>2

\* The lists of schemes are lists, and not empty.
LEMMA SchemeLists ==
  /\ IsSeq(SupportedSignatureAlgorithms) /\ SupportedSignatureAlgorithms # <<>>
  /\ IsSeq(SupportedSignatureAlgorithmsTLS12) /\ SupportedSignatureAlgorithmsTLS12 # <<>>
  /\ ToSet(SupportedSignatureAlgorithmsTLS12) \subseteq ToSet(SupportedSignatureAlgorithms)
<1>1. IsSeq(SupportedSignatureAlgorithms) /\ SupportedSignatureAlgorithms # <<>>
  BY DEF SupportedSignatureAlgorithms, IsSeq, ToSet
<1>2. IsSeq(SupportedSignatureAlgorithmsTLS12) /\ SupportedSignatureAlgorithmsTLS12 # <<>>
  BY DEF SupportedSignatureAlgorithmsTLS12, SupportedSignatureAlgorithms, IsSeq, ToSet
<1>3. ToSet(SupportedSignatureAlgorithmsTLS12) \subseteq ToSet(SupportedSignatureAlgorithms)
  BY DEF SupportedSignatureAlgorithmsTLS12, SupportedSignatureAlgorithms, ToSet
<1> QED BY <1>1, <1>2, <1>3

\* The client accepts the key exchange that the server makes of its hello.
LEMMA KeyAgreed ==
  ASSUME Compatible, TheSuite \in suiteECDHE, NEW signed
  PROVE  LET kx  == KeyExchange(TheSuite, TheVers, scfg, TheHello, TheCert)
             skx == [curve |-> kx.curve, sig |-> kx.sig, signed |-> signed]
         IN  /\ kx # None /\ kx.curve \in ToSet(DefaultCurves) /\ kx.sig \in Schemes
             /\ AcceptsKeyExchange(TheSuite, TheVers, TheHello, TheCert, skx)
<1> DEFINE kx     == KeyExchange(TheSuite, TheVers, scfg, TheHello, TheCert)
           skx    == [curve |-> kx.curve, sig |-> kx.sig, signed |-> signed]
           theirs == TheHello.supportedSignatureAlgorithms
           curve  == MutualCurve(scfg, TheHello.supportedCurves)
           sig    == PickSignatureAlgorithm(TheCert.key, theirs, SupportedSignatureAlgorithmsTLS12, TheVers)
<1>1. kx # None
  BY DEF Compatible, TheHello, TheVers, TheCert, TheSuite
<1>2. /\ kx = [curve |-> curve, sig |-> sig] /\ curve \in ToSet(DefaultCurves) /\ sig # None
      /\ (TheSuite \in suiteECDSA) = IsECDSA(TheCert.key)
  BY <1>1 DEF KeyExchange
<1>3. TheVers \in Nat /\ (TheVers >= VersionTLS12 => theirs = SupportedSignatureAlgorithms)
  BY VersionAgreed
<1>4. sig \in Schemes /\ PickSignatureAlgorithm(TheCert.key, <<sig>>, theirs, TheVers) # None
  <2> HIDE DEF theirs
  <2>1. TheVers >= VersionTLS12 => IsSeq(theirs) /\ theirs # <<>>
                                   /\ ToSet(SupportedSignatureAlgorithmsTLS12) \subseteq ToSet(theirs)
    BY <1>3, SchemeLists
  <2> QED BY <1>2, <1>3, <2>1, SchemeAgreed
<1> HIDE DEF kx, curve, sig
<1>5. AcceptsKeyExchange(TheSuite, TheVers, TheHello, TheCert, skx)
  BY <1>2, <1>4 DEF AcceptsKeyExchange
<1> QED BY <1>1, <1>2, <1>4, <1>5 DEF kx

\* The certificate with which the client answers a request, and its scheme.
TheChain ==
  IF scfg.clientAuth = "NoClientCert" THEN None
  ELSE GetClientCertificate(ccfg, TheVers, RequestedSchemes(TheVers), scfg.clientCAs)
TheScheme ==
  PickSignatureAlgorithm(TheChain.key, RequestedSchemes(TheVers), SupportedSignatureAlgorithmsTLS12, TheVers)

\* The server accepts the certificate of the client, and its signature.
LEMMA ChainAgreed ==
  ASSUME Compatible
  PROVE  /\ scfg.clientAuth # "NoClientCert" => AcceptsClient(TheChain)
         /\ TheChain # None =>
              TheScheme # None /\ PickSignatureAlgorithm(TheChain.key, <<TheScheme>>,
                                                       SupportedSignatureAlgorithmsTLS12, TheVers) # None
<1>1. /\ scfg.clientAuth # "NoClientCert" => AcceptsClient(TheChain)
      /\ TheChain # None => TheScheme # None
  BY DEF Compatible, TheHello, TheVers, TheCert, TheSuite, TheChain, TheScheme
<1>2. ASSUME TheChain # None
      PROVE  PickSignatureAlgorithm(TheChain.key, <<TheScheme>>, SupportedSignatureAlgorithmsTLS12, TheVers) # None
  <2>1. TheVers \in Nat
    BY VersionAgreed
  <2> DEFINE peer == RequestedSchemes(TheVers)
  <2>2. TheVers >= VersionTLS12 => IsSeq(peer) /\ peer # <<>>
    BY SchemeLists DEF RequestedSchemes
  <2> HIDE DEF peer
  <2> QED BY <1>1, <1>2, <2>1, <2>2, SchemeAgreed DEF TheScheme, peer
<1> QED BY <1>1, <1>2

----------------------------------------------------------------------------
(* How far a handshake of compatible ends has come.                        *)

Fin == Msg("finished", None)

\* What a Finished of this end covers, after these messages.
SumFor(role, e, rest) ==
  [role |-> role, prf |-> PrfForVersion(e.sh.vers, e.sh.suite), master |-> e.master,
   log |-> [ch |-> e.ch, sh |-> e.sh, rest |-> rest]]

\* The last two messages of an end.
Switch    == Msg("ccs", None)
SealOf(e) == Under(Keys(e), "finished", e.sum)
Seal(e)   == <<Switch, SealOf(e)>>

\* What the server settles in a full handshake, and by resumption.
Settles ==
  /\ srv.ch = cli.ch /\ srv.sh.vers = TheVers
  /\ cli.ch.alpnProtocols = <<>> => srv.sh.alpnProtocol = None
SettlesFull ==
  /\ Settles /\ ~srv.resumed /\ srv.sh.suite = TheSuite /\ srv.sh.sessionId = None
  /\ srv.sh.random = <<"server", conn>>
SettlesResumed ==
  /\ Settles /\ srv.resumed /\ srv.sh.sessionId = cli.ch.sessionId
  /\ cli.offered # None /\ cli.offered.vers = srv.sh.vers /\ cli.offered.suite = srv.sh.suite
  /\ cli.offered.master = srv.master

\* Nothing has happened yet; the server has the hello of the client to read.
Waiting == cli = Fresh("start") /\ srv = Fresh("clientHello") /\ c2s = <<>> /\ s2c = <<>>
Asking  ==
  /\ cli.pc = "serverHello" /\ cli.key = None /\ cli.request = None
  /\ srv = Fresh("clientHello") /\ s2c = <<>> /\ c2s = <<Msg("clientHello", cli.ch)>>

\* The flight of the server, from each of its messages on.
FromDone           == <<Msg("helloDone", None)>>
FromRequest(sh)    == Request(sh.vers) \o FromDone
FromExchange(ch, sh) == Exchange(ch, sh, TheCert) \o FromRequest(sh)
FromStatus(ch, sh) == (IF sh.ocspStapling THEN <<Msg("status", None)>> ELSE <<>>) \o FromExchange(ch, sh)
FromCert(ch, sh)   == <<Msg("certificate", TheCert)>> \o FromStatus(ch, sh)

\* The client reads the flight; what it has not read yet is what its log lacks.
HasKey == cli.sh.suite \in suiteECDHE => cli.kx # None
AtCertificate == cli.pc = "certificate" /\ s2c = FromCert(srv.ch, srv.sh)
AtStatus   == cli.pc = "afterCertificate" /\ s2c = FromStatus(srv.ch, srv.sh) /\ cli.peer = TheCert
AtExchange ==
  cli.pc \in {"afterCertificate", "afterStatus"} /\ s2c = FromExchange(srv.ch, srv.sh) /\ cli.peer = TheCert
AtRequest  == cli.pc \in {"afterCertificate", "afterStatus", "afterExchange"} /\ s2c = FromRequest(srv.sh) /\ HasKey
AtDone     ==
  cli.pc \in {"afterCertificate", "afterStatus", "afterExchange", "afterRequest"} /\ s2c = FromDone /\ HasKey

Asked ==
  IF scfg.clientAuth = "NoClientCert" THEN None
  ELSE [schemes |-> RequestedSchemes(TheVers), acceptableCAs |-> scfg.clientCAs]

Answering ==
  /\ SettlesFull /\ srv.peer = None /\ srv.key = None
  /\ srv.pc = IF scfg.clientAuth = "NoClientCert" THEN "clientKeyExchange" ELSE "certificate"
  /\ c2s = <<>> /\ cli.key = None
Hearing ==
  /\ Answering /\ cli.pc = "serverHello" /\ cli.request = None
  /\ s2c = <<Msg("serverHello", srv.sh)>> \o FromCert(srv.ch, srv.sh) /\ srv.rest = Keep(FromCert(srv.ch, srv.sh))
Reading ==
  /\ Answering /\ cli.sh = srv.sh /\ cli.rest \o Keep(s2c) = srv.rest
  /\ \/ (AtCertificate \/ AtStatus \/ AtExchange \/ AtRequest) /\ cli.request = None
     \/ AtDone /\ cli.request = Asked

\* The flight of the client, behind these messages.
Ident == Msg("certificate", TheChain)
Exch  == Msg("clientKeyExchange", cli.master.pre)
Verifies(rest) ==
  IF TheChain = None THEN <<>>
  ELSE <<Msg("verify", [scheme |-> TheScheme, signed |-> [ch |-> cli.ch, sh |-> cli.sh, rest |-> rest]])>>
Reply(before) == before \o Verifies(srv.rest \o Keep(before))

\* The server reads it.
Replied(sent) ==
  /\ c2s = sent \o Seal(cli)
  /\ cli.sum = SumFor("client", cli, srv.rest \o Keep(sent))
  /\ cli.rest = Append(srv.rest \o Keep(sent), Fin)
Responding ==
  /\ SettlesFull /\ cli.sh = srv.sh /\ cli.master = MasterFrom(cli, cli.master.pre)
  /\ ~cli.resumed /\ cli.pc = AwaitServer(cli.sh) /\ s2c = <<>> /\ cli.key = None /\ srv.key = None
  /\ \/ srv.pc = "certificate" /\ scfg.clientAuth # "NoClientCert" /\ Replied(Reply(<<Ident, Exch>>))
     \/ srv.pc = "clientKeyExchange" /\ srv.peer = TheChain /\ Replied(Reply(<<Exch>>))
     \/ srv.pc = "verify" /\ srv.peer = TheChain /\ TheChain # None /\ srv.master = cli.master /\ Replied(Reply(<<>>))

\* The server has only the Finished of the client to read.
ServerConcludes ==
  /\ SameHandshake /\ s2c = <<>> /\ cli.sum = SumFor("client", cli, srv.rest)
  /\ \/ srv.pc = "ccs" /\ srv.key = None /\ c2s = Seal(cli)
     \/ srv.pc = "finished" /\ srv.key = Keys(srv) /\ c2s = <<SealOf(cli)>>
  /\ \/ ~srv.resumed /\ ~cli.resumed /\ cli.pc = AwaitServer(cli.sh) /\ cli.key = None /\ cli.rest = Append(srv.rest, Fin)
     \/ srv.resumed /\ cli.pc = "complete"

\* The server has sent its Finished after these messages.
Concluded(rest) ==
  /\ srv.sum = SumFor("server", srv, rest)
  /\ \/ srv.resumed /\ srv.pc = "ccs" /\ srv.key = None /\ srv.rest = Append(rest, Fin)
     \/ ~srv.resumed /\ srv.pc = "complete"

\* The client has a hello that resumes to read, then only a ticket and a Finished.
Tickets(sh, tickets) == IF sh.ticketSupported THEN \E t : tickets = <<Msg("ticket", t)>> ELSE tickets = <<>>
Resuming ==
  /\ SettlesResumed /\ cli.pc = "serverHello" /\ cli.key = None /\ c2s = <<>>
  /\ \E tickets : /\ Tickets(srv.sh, tickets) /\ Concluded(Keep(tickets))
                  /\ s2c = <<Msg("serverHello", srv.sh)>> \o (tickets \o Seal(srv))
ClientConcludes ==
  /\ SameHandshake /\ cli.resumed = srv.resumed /\ c2s = <<>>
  /\ \/ /\ cli.pc = "ticket" /\ cli.key = None
        /\ \E t : s2c = <<Msg("ticket", t)>> \o Seal(srv) /\ Concluded(Append(cli.rest, Msg("ticket", t)))
     \/ cli.pc = "ccs" /\ cli.key = None /\ s2c = Seal(srv) /\ Concluded(cli.rest)
     \/ cli.pc = "finished" /\ cli.key = Keys(cli) /\ s2c = <<SealOf(srv)>> /\ Concluded(cli.rest)

\* Both are done.
Over == cli.pc = "complete" /\ srv.pc = "complete" /\ c2s = <<>> /\ s2c = <<>>

GoesWell ==
  \/ Waiting \/ Asking \/ Hearing \/ Reading \/ Responding \/ ServerConcludes \/ Resuming \/ ClientConcludes
  \/ Over \/ TicketRejected

\* A session and its ticket are of one handshake.
Fits(s) == s.ticket.state.vers = s.vers /\ s.ticket.state.suite = s.suite /\ s.ticket.state.master = s.master
\* A ticket of this handshake of the server.
Issued(t) ==
  /\ t.state.vers = srv.sh.vers /\ t.state.suite = srv.sh.suite /\ t.state.master = srv.master
  /\ srv.resumed \/ srv.pc = "complete"
FitInv ==
  /\ \A k \in DOMAIN cache : cache[k] # None => Fits(cache[k])
  /\ cli.offered # None => Fits(cli.offered)
  /\ \A m \in ToSet(s2c) : m.type = "ticket" => Issued(m.body)
  /\ cli.pc \in Late /\ cli.session # None =>
       Issued(cli.session.ticket) /\ cli.session.vers = cli.sh.vers /\ cli.session.suite = cli.sh.suite
OfferInv ==
  cli.pc \notin {"start", "failed"} =>
    /\ TheHello # None /\ cli.ch = Greeting(TheHello, cli.offered)
    /\ cli.offered # None => MutualCipherSuite(cli.ch.cipherSuites, cli.offered.suite) # None

----------------------------------------------------------------------------
(* What stays, and whose turn it is.                                       *)

\* What the two ends settle is a matter of their configurations.
LEMMA Settled ==
  ASSUME UNCHANGED <<ccfg, scfg, now>>
  PROVE  /\ UNCHANGED <<TheHello, TheVers, TheCert, TheSuite, TheChain, TheScheme, Asked>>
         /\ Compatible' <=> Compatible
<1>1. UNCHANGED <<TheHello, TheVers, TheCert, TheSuite>>
  BY DEF TheHello, TheVers, TheCert, TheSuite
<1>2. UNCHANGED <<TheChain, TheScheme, Asked>>
  BY <1>1 DEF TheChain, TheScheme, Asked
<1>3. Compatible' <=> Compatible
  BY DEF Compatible, AcceptsServer, AcceptsClient, Verify, Current
<1> QED BY <1>1, <1>2, <1>3

\* So is the flight of the server, once its hello is made.
LEMMA FlightSettled ==
  ASSUME UNCHANGED <<ccfg, scfg, now, srv>>
  PROVE  UNCHANGED <<FromCert(srv.ch, srv.sh), FromStatus(srv.ch, srv.sh), FromExchange(srv.ch, srv.sh),
                     FromRequest(srv.sh), FromDone>>
<1>1. TheCert' = TheCert
  BY Settled
<1>2. UNCHANGED <<Exchange(srv.ch, srv.sh, TheCert), Request(srv.sh.vers), FromDone>>
  BY <1>1 DEF Exchange, Request, FromDone
<1>3. UNCHANGED <<FromRequest(srv.sh), FromExchange(srv.ch, srv.sh)>>
  BY <1>2 DEF FromRequest, FromExchange
<1>4. UNCHANGED <<FromStatus(srv.ch, srv.sh), FromCert(srv.ch, srv.sh)>>
  BY <1>1, <1>3 DEF FromStatus, FromCert
<1> QED BY <1>2, <1>3, <1>4

\* A client that has said hello reads what it expects, and waits otherwise.
LEMMA ClientTurn ==
  ASSUME up, cli.pc # "start", Client \/ ClientCut
  PROVE  /\ s2c # <<>>
         /\ Head(s2c).type \in ClientExpects(cli.pc) /\ Head(s2c).key = cli.key =>
              \/ Head(s2c).type = "serverHello" /\ ClientServerHello
              \/ Head(s2c).type = "certificate" /\ ClientCertificate
              \/ Head(s2c).type = "status" /\ ClientStatus
              \/ Head(s2c).type = "keyExchange" /\ ClientKeyExchange
              \/ Head(s2c).type = "request" /\ ClientRequest
              \/ Head(s2c).type = "helloDone" /\ ClientHelloDone
              \/ Head(s2c).type = "ticket" /\ ClientTicket
              \/ Head(s2c).type = "ccs" /\ ClientChangeCipherSpec
              \/ Head(s2c).type = "finished" /\ ClientFinished
BY DEF Client, ClientCut, ClientStart, ClientServerHello, ClientCertificate, ClientStatus, ClientKeyExchange,
       ClientRequest, ClientHelloDone, ClientTicket, ClientChangeCipherSpec, ClientFinished, ClientUnexpected,
       ClientGets

\* So does the server.
LEMMA ServerTurn ==
  ASSUME up, Server \/ ServerCut
  PROVE  /\ c2s # <<>>
         /\ Head(c2s).type = srv.pc /\ Head(c2s).key = srv.key =>
              \/ srv.pc = "clientHello" /\ ServerClientHello
              \/ srv.pc = "certificate" /\ ServerCertificate
              \/ srv.pc = "clientKeyExchange" /\ ServerClientKeyExchange
              \/ srv.pc = "verify" /\ ServerVerify
              \/ srv.pc = "ccs" /\ ServerChangeCipherSpec
              \/ srv.pc = "finished" /\ ServerFinished
BY DEF Server, ServerCut, ServerClientHello, ServerCertificate, ServerClientKeyExchange, ServerVerify,
       ServerChangeCipherSpec, ServerFinished, ServerUnexpected, ServerGets

\* With nothing else on its way, a flight that is sent is what is on its way.
LEMMA ClientSendsAll ==
  ASSUME up, c2s = <<>>, NEW e, NEW sent, IsSeq(sent), ClientSends(e, sent)
  PROVE  cli' = e /\ c2s' = sent /\ s2c' = Tail(s2c) /\ UNCHANGED <<world, srv>>
BY Nothing DEF ClientSends, Send

\* The same of a client that sends nothing.
LEMMA ClientNextAll ==
  ASSUME up, c2s = <<>>, NEW e, ClientNext(e)
  PROVE  cli' = e /\ c2s' = <<>> /\ s2c' = Tail(s2c) /\ UNCHANGED <<world, srv>>
BY Short, ClientSendsAll DEF ClientNext

\* The same of the server.
LEMMA ServerSendsAll ==
  ASSUME up, s2c = <<>>, NEW e, NEW sent, IsSeq(sent), ServerNext(e, sent)
  PROVE  srv' = e /\ s2c' = sent /\ c2s' = Tail(c2s) /\ UNCHANGED <<world, cli>>
BY Nothing DEF ServerNext, Send

\* The flights are sequences.
LEMMA FlightsAre ==
  /\ IsSeq(FromDone)
  /\ \A ch, sh : /\ IsSeq(Exchange(ch, sh, TheCert)) /\ IsSeq(Request(sh.vers))
                 /\ IsSeq(FromRequest(sh)) /\ IsSeq(FromExchange(ch, sh)) /\ IsSeq(FromStatus(ch, sh))
                 /\ IsSeq(FromCert(ch, sh))
  /\ \A e : IsSeq(Seal(e)) /\ Head(Seal(e)) = Switch /\ Tail(Seal(e)) = <<SealOf(e)>>
<1>1. IsSeq(FromDone)
  BY Short DEF FromDone
<1>2. \A ch, sh : IsSeq(Exchange(ch, sh, TheCert)) /\ IsSeq(Request(sh.vers))
  BY Short DEF Exchange, Request
<1>3. \A ch, sh : IsSeq(FromRequest(sh))
  BY <1>1, <1>2, Joined DEF FromRequest
<1>4. \A ch, sh : IsSeq(FromExchange(ch, sh))
  BY <1>2, <1>3, Joined DEF FromExchange
<1>5. \A ch, sh : IsSeq(FromStatus(ch, sh))
  <2>1. \A x : IsSeq(IF x THEN <<Msg("status", None)>> ELSE <<>>)
    BY Short
  <2> QED BY <1>4, <2>1, Joined DEF FromStatus
<1>6. \A ch, sh : IsSeq(FromCert(ch, sh))
  BY <1>5, Short, Joined DEF FromCert
<1>7. \A e : IsSeq(Seal(e)) /\ Head(Seal(e)) = Switch /\ Tail(Seal(e)) = <<SealOf(e)>>
  BY Short DEF Seal
<1> QED BY <1>1, <1>2, <1>3, <1>4, <1>5, <1>6, <1>7

----------------------------------------------------------------------------
(* The client reads the flight of the server.                              *)

\* The client reads a message of the flight and answers nothing yet.
ReadsOn(m, q) ==
  /\ s2c' = q /\ c2s' = <<>> /\ cli'.rest = Append(cli.rest, Kept(m))
  /\ \A f \in Fields \ {"pc", "rest", "peer", "kx", "request"} : cli'[f] = cli[f]
  /\ UNCHANGED <<world, srv>>

\* What it has not read yet is still what its log lacks.
LEMMA StillReads ==
  ASSUME Answering, cli.sh = srv.sh, IsSeq(cli.rest), cli.rest \o Keep(s2c) = srv.rest,
         NEW m, NEW q, IsSeq(q), s2c = <<m>> \o q, ReadsOn(m, q)
  PROVE  Answering' /\ cli'.sh = srv'.sh /\ cli'.rest \o Keep(s2c') = srv'.rest
<1>1. cli'.ch = cli.ch /\ cli'.key = cli.key /\ cli'.sh = cli.sh
  BY DEF ReadsOn, Fields
<1>2. srv' = srv /\ UNCHANGED <<ccfg, scfg, conn, now>> /\ c2s' = <<>>
  BY DEF ReadsOn, world
<1>3. UNCHANGED <<TheVers, TheSuite>>
  BY <1>2, Settled
<1>4. Answering'
  BY <1>1, <1>2, <1>3 DEF Answering, SettlesFull, Settles
<1>5. cli'.rest \o Keep(s2c') = cli.rest \o Keep(s2c)
  <2>1. cli'.rest = Append(cli.rest, Kept(m)) /\ s2c' = q
    BY DEF ReadsOn
  <2>2. Append(cli.rest, Kept(m)) \o Keep(q) = cli.rest \o Keep(<<m>> \o q)
    <3> DEFINE r == cli.rest
    <3>1. IsSeq(r) /\ IsSeq(q)
      OBVIOUS
    <3> HIDE DEF r
    <3>2. Append(r, Kept(m)) \o Keep(q) = r \o Keep(<<m>> \o q)
      BY <3>1, LogReads, SMTT(30)
    <3> QED BY <3>2 DEF r
  <2> QED BY <2>1, <2>2
<1> QED BY <1>1, <1>2, <1>4, <1>5

\* The client takes the next message of a flight, if it expects it.
LEMMA ClientTakesNext ==
  ASSUME up, NEW type, NEW body, NEW key, NEW q, IsSeq(q), s2c = <<Under(key, type, body)>> \o q, cli.key = key,
         cli.pc # "start", type \in ClientExpects(cli.pc), Client \/ ClientCut
  PROVE  /\ Head(s2c) = Under(key, type, body) /\ Head(s2c).type = type /\ Head(s2c).body = body /\ Tail(s2c) = q
         /\ \/ type = "serverHello" /\ ClientServerHello
            \/ type = "certificate" /\ ClientCertificate
            \/ type = "status" /\ ClientStatus
            \/ type = "keyExchange" /\ ClientKeyExchange
            \/ type = "request" /\ ClientRequest
            \/ type = "helloDone" /\ ClientHelloDone
            \/ type = "ticket" /\ ClientTicket
            \/ type = "ccs" /\ ClientChangeCipherSpec
            \/ type = "finished" /\ ClientFinished
<1>1. s2c # <<>> /\ Head(s2c) = Under(key, type, body) /\ Tail(s2c) = q
  BY Queued
<1>2. Head(s2c).type = type /\ Head(s2c).body = body /\ Head(s2c).key = key
  BY <1>1 DEF Under
<1> QED BY <1>1, <1>2, ClientTurn

\* The hello of the server.
LEMMA HearingStep ==
  ASSUME Shape, ClientInv, OfferInv, Compatible, up, Hearing, Client \/ ClientCut
  PROVE  Reading'
<1> DEFINE q == FromCert(srv.ch, srv.sh)
           e == [cli EXCEPT !.pc = "certificate", !.sh = srv.sh, !.resumed = FALSE, !.master = None, !.peer = None]
<1>1. IsSeq(q) /\ s2c = <<Msg("serverHello", srv.sh)>> \o q /\ cli.pc = "serverHello" /\ cli.key = None /\ c2s = <<>>
  BY FlightsAre DEF Hearing, Answering
<1> HIDE DEF q
<1>2. Head(s2c).body = srv.sh /\ Tail(s2c) = q /\ ClientServerHello
  BY <1>1, ClientTakesNext DEF ClientExpects, Msg
<1>4. /\ MutualVersion(ccfg, TRUE, <<srv.sh.vers>>) # None
      /\ MutualCipherSuite(cli.ch.cipherSuites, srv.sh.suite) # None
      /\ ~(srv.sh.alpnProtocol # None /\ cli.ch.alpnProtocols = <<>>)
      /\ ServerResumedSession(srv.sh) = FALSE
  <2>1. srv.sh.vers = TheVers /\ srv.sh.suite = TheSuite /\ srv.sh.sessionId = None
    BY DEF Hearing, Answering, SettlesFull, Settles
  <2>2. cli.ch = Greeting(TheHello, cli.offered) /\ cli.ch.sessionId = conn /\ conn # None
    BY <1>1, NoneAssumption DEF OfferInv, ClientInv, Shape
  <2>3. cli.ch.cipherSuites = TheHello.cipherSuites
    BY <2>2 DEF Greeting
  <2>4. MutualVersion(ccfg, TRUE, <<srv.sh.vers>>) # None
    BY <2>1, VersionAgreed DEF VersionTaken
  <2>5. MutualCipherSuite(cli.ch.cipherSuites, srv.sh.suite) # None
    BY <2>1, <2>3, SuiteAgreed DEF MutualCipherSuite
  <2>6. ~(srv.sh.alpnProtocol # None /\ cli.ch.alpnProtocols = <<>>)
    BY DEF Hearing, Answering, SettlesFull, Settles
  <2>7. ServerResumedSession(srv.sh) = FALSE
    BY <2>1, <2>2 DEF ServerResumedSession
  <2> QED BY <2>4, <2>5, <2>6, <2>7
<1>5. ClientNext(e)
  <2> DEFINE resumed == ServerResumedSession(srv.sh)
  <2>2. ClientNext([cli EXCEPT
            !.pc = IF resumed THEN AwaitServer(srv.sh) ELSE "certificate",
            !.sh = srv.sh, !.resumed = resumed,
            !.master = IF resumed THEN cli.offered.master ELSE None,
            !.peer = IF resumed THEN cli.offered.cert ELSE None])
    BY <1>2, <1>4 DEF ClientServerHello
  <2> HIDE DEF resumed
  <2>3. resumed = FALSE
    BY <1>4 DEF resumed
  <2> QED BY <2>2, <2>3
<1>6. cli' = e /\ c2s' = <<>> /\ s2c' = q /\ UNCHANGED <<world, srv>>
  BY <1>1, <1>2, <1>5, ClientNextAll
<1>7. /\ cli'.pc = "certificate" /\ cli'.sh = srv.sh /\ cli'.ch = cli.ch /\ cli'.rest = <<>> /\ cli'.key = None
      /\ cli'.request = None
  BY <1>1, <1>6 DEF Shape, Fields, ClientInv, Hearing
<1>8. UNCHANGED <<ccfg, scfg, now, conn>>
  BY <1>6 DEF world
<1>9. UNCHANGED <<TheVers, TheSuite, FromCert(srv.ch, srv.sh)>>
  BY <1>6, <1>8, Settled, FlightSettled
<1>10. Answering'
  BY <1>6, <1>7, <1>8, <1>9 DEF Hearing, Answering, SettlesFull, Settles
<1>11. AtCertificate'
  BY <1>6, <1>7, <1>9 DEF AtCertificate, q
<1>12. cli'.rest \o Keep(s2c') = srv'.rest
  <2>1. srv'.rest = Keep(q) /\ cli'.rest = <<>> /\ s2c' = q
    BY <1>6, <1>7 DEF Hearing, q
  <2> QED BY <1>1, <2>1, KeepIs, Nothing
<1> QED BY <1>6, <1>7, <1>10, <1>11, <1>12 DEF Reading

\* The certificate.
LEMMA CertificateStep ==
  ASSUME Shape, Compatible, up, Reading, AtCertificate, Client \/ ClientCut
  PROVE  Reading'
<1> DEFINE q == FromStatus(srv.ch, srv.sh)
           m == Msg("certificate", TheCert)
<1>1. /\ IsSeq(q) /\ s2c = <<m>> \o q /\ cli.pc = "certificate" /\ cli.key = None /\ c2s = <<>>
      /\ Answering /\ cli.request = None /\ cli.sh = srv.sh /\ cli.rest \o Keep(s2c) = srv.rest
  BY FlightsAre DEF Reading, AtCertificate, Answering, FromCert, AtDone
<1> HIDE DEF q
<1>2. Head(s2c) = m /\ Head(s2c).body = TheCert /\ Tail(s2c) = q /\ ClientCertificate
  BY <1>1, ClientTakesNext DEF ClientExpects, Msg
<1>3. TheCert # None /\ AcceptsServer(TheCert)
  BY DEF Compatible, TheCert, TheHello
<1>4. ClientNext([Logged(cli, Head(s2c)) EXCEPT !.pc = "afterCertificate", !.peer = TheCert])
  BY <1>2, <1>3 DEF ClientCertificate
<1> HIDE DEF m
<1>5. /\ cli' = [Logged(cli, m) EXCEPT !.pc = "afterCertificate", !.peer = TheCert]
      /\ c2s' = <<>> /\ s2c' = q /\ UNCHANGED <<world, srv>>
  BY <1>1, <1>2, <1>4, ClientNextAll
<1>6. ReadsOn(m, q) /\ cli'.pc = "afterCertificate" /\ cli'.peer = TheCert /\ cli'.request = None
  BY <1>1, <1>5 DEF Shape, Fields, Logged, ReadsOn
<1>7. Answering' /\ cli'.sh = srv'.sh /\ cli'.rest \o Keep(s2c') = srv'.rest
  BY <1>1, <1>6, StillReads DEF Shape
<1>8. UNCHANGED <<TheCert, FromStatus(srv.ch, srv.sh)>>
  BY <1>5, Settled, FlightSettled DEF world
<1>9. AtStatus'
  BY <1>5, <1>6, <1>8 DEF AtStatus, q
<1> QED BY <1>6, <1>7, <1>9 DEF Reading

\* What the client of a certificate may read next, its flight being what it is.
LEMMA Positions ==
  ASSUME Reading, ~AtCertificate
  PROVE  \/ AtStatus /\ srv.sh.ocspStapling /\ cli.request = None
         \/ AtExchange /\ srv.sh.suite \in suiteECDHE /\ cli.request = None
         \/ AtRequest /\ scfg.clientAuth # "NoClientCert" /\ cli.request = None
         \/ AtDone /\ cli.request = Asked
<1>1. cli.sh = srv.sh
  BY DEF Reading
<1>2. ASSUME AtStatus, ~srv.sh.ocspStapling PROVE AtExchange
  <2>1. FromStatus(srv.ch, srv.sh) = FromExchange(srv.ch, srv.sh)
    BY <1>2, FlightsAre, Nothing DEF FromStatus
  <2> QED BY <1>2, <2>1 DEF AtStatus, AtExchange
<1>3. ASSUME AtExchange, srv.sh.suite \notin suiteECDHE PROVE AtRequest
  <2>1. FromExchange(srv.ch, srv.sh) = FromRequest(srv.sh)
    BY <1>3, FlightsAre, Nothing DEF FromExchange, Exchange
  <2> QED BY <1>1, <1>3, <2>1 DEF AtExchange, AtRequest, HasKey
<1>4. ASSUME AtRequest, scfg.clientAuth = "NoClientCert" PROVE AtDone /\ Asked = None
  <2>1. FromRequest(srv.sh) = FromDone
    BY <1>4, FlightsAre, Nothing DEF FromRequest, Request
  <2> QED BY <1>4, <2>1 DEF AtRequest, AtDone, Asked
<1>5. \/ (AtStatus \/ AtExchange \/ AtRequest) /\ cli.request = None
      \/ AtDone /\ cli.request = Asked
  BY DEF Reading
<1> QED BY <1>2, <1>3, <1>4, <1>5

\* The stapled status.
LEMMA StatusStep ==
  ASSUME Shape, up, Reading, AtStatus, srv.sh.ocspStapling, cli.request = None, Client \/ ClientCut
  PROVE  Reading'
<1> DEFINE q == FromExchange(srv.ch, srv.sh)
           m == Msg("status", None)
<1>1. /\ IsSeq(q) /\ s2c = <<m>> \o q /\ cli.pc = "afterCertificate" /\ cli.key = None /\ c2s = <<>>
      /\ Answering /\ cli.sh = srv.sh /\ cli.rest \o Keep(s2c) = srv.rest /\ cli.peer = TheCert
  BY FlightsAre DEF Reading, AtStatus, Answering, FromStatus
<1> HIDE DEF q
<1>2. Head(s2c) = m /\ Tail(s2c) = q /\ ClientStatus
  <2>1. "status" \in ClientExpects(cli.pc) /\ cli.pc # "start"
    BY <1>1 DEF ClientExpects
  <2>2. m = Under(None, "status", None)
    BY DEF Msg
  <2> HIDE DEF m
  <2>3. s2c # <<>> /\ Head(s2c) = m /\ Tail(s2c) = q
    BY <1>1, Queued
  <2>4. Head(s2c).type = "status" /\ Head(s2c).key = cli.key
    BY <1>1, <2>2, <2>3 DEF Under
  <2> QED BY <2>1, <2>3, <2>4, ClientTurn
<1>3. ClientNext([Logged(cli, Head(s2c)) EXCEPT !.pc = "afterStatus"])
  BY <1>1, <1>2 DEF ClientStatus
<1> HIDE DEF m
<1>4. /\ cli' = [Logged(cli, m) EXCEPT !.pc = "afterStatus"]
      /\ c2s' = <<>> /\ s2c' = q /\ UNCHANGED <<world, srv>>
  BY <1>1, <1>2, <1>3, ClientNextAll
<1>5. ReadsOn(m, q) /\ cli'.pc = "afterStatus" /\ cli'.peer = TheCert /\ cli'.request = None
  BY <1>1, <1>4 DEF Shape, Fields, Logged, ReadsOn
<1>6. Answering' /\ cli'.sh = srv'.sh /\ cli'.rest \o Keep(s2c') = srv'.rest
  BY <1>1, <1>5, StillReads DEF Shape
<1>7. UNCHANGED <<TheCert, FromExchange(srv.ch, srv.sh)>>
  BY <1>4, Settled, FlightSettled DEF world
<1>8. AtExchange'
  BY <1>4, <1>5, <1>7 DEF AtExchange, q
<1> QED BY <1>5, <1>6, <1>8 DEF Reading

\* The key exchange of the server: signed for these two hellos, and acceptable.
LEMMA ExchangeStep ==
  ASSUME Shape, ClientInv, OfferInv, Compatible, up, Reading, AtExchange, srv.sh.suite \in suiteECDHE,
         cli.request = None, Client \/ ClientCut
  PROVE  Reading'
<1> DEFINE q  == FromRequest(srv.sh)
           kx == KeyExchange(TheSuite, TheVers, scfg, TheHello, TheCert)
           skx == [curve |-> kx.curve, sig |-> kx.sig, signed |-> <<srv.ch.random, srv.sh.random>>]
           m == Msg("keyExchange", skx)
<1>1. /\ cli.pc \in {"afterCertificate", "afterStatus"} /\ cli.key = None /\ c2s = <<>> /\ Answering /\ cli.sh = srv.sh
      /\ cli.rest \o Keep(s2c) = srv.rest /\ cli.peer = TheCert /\ srv.ch = cli.ch
      /\ srv.sh.vers = TheVers /\ srv.sh.suite = TheSuite /\ srv.sh.random = <<"server", conn>>
  BY DEF Reading, AtExchange, Answering, SettlesFull, Settles
<1>2. /\ cli.ch = Greeting(TheHello, cli.offered) /\ cli.ch.random = <<"client", conn>>
      /\ cli.ch.supportedCurves = TheHello.supportedCurves
      /\ cli.ch.supportedSignatureAlgorithms = TheHello.supportedSignatureAlgorithms
  <2>1. cli.ch = Greeting(TheHello, cli.offered)
    BY <1>1 DEF OfferInv
  <2> QED BY <2>1 DEF Greeting
<1>3. KeyExchange(srv.sh.suite, srv.sh.vers, scfg, srv.ch, TheCert) = kx
  BY <1>1, <1>2 DEF KeyExchange
<1>4. IsSeq(q) /\ s2c = <<m>> \o q
  BY <1>3, FlightsAre DEF AtExchange, FromExchange, Exchange
<1>5. /\ kx.curve \in ToSet(DefaultCurves) /\ kx.sig \in Schemes
      /\ AcceptsKeyExchange(TheSuite, TheVers, TheHello, TheCert, skx)
  BY <1>1, KeyAgreed
<1> HIDE DEF q, kx
<1>6. Head(s2c) = m /\ Head(s2c).body = skx /\ Tail(s2c) = q /\ ClientKeyExchange
  <2>1. "keyExchange" \in ClientExpects(cli.pc) /\ cli.pc # "start"
    BY <1>1 DEF ClientExpects
  <2> HIDE DEF skx
  <2> QED BY <1>1, <1>4, <2>1, ClientTakesNext DEF Msg
<1>7. AcceptsKeyExchange(cli.sh.suite, cli.sh.vers, cli.ch, cli.peer, skx)
  BY <1>1, <1>2, <1>5 DEF AcceptsKeyExchange
<1>8. skx.signed = <<cli.ch.random, cli.sh.random>>
  BY <1>1
<1>9. skx # None
  <2>1. plan \in Plans /\ ccfg \in plan.clients /\ scfg \in plan.servers /\ conn \in Nat
    BY DEF Shape
  <2>2. skx.signed \in ({"client"} \X Nat) \X ({"server"} \X Nat)
    BY <1>1, <1>2, <2>1
  <2>3. skx \in [curve : ToSet(DefaultCurves), sig : {"ecdsa", "pkcs1"} \X {0, 1, 256, 384, 512},
                 signed : ({"client"} \X Nat) \X ({"server"} \X Nat)]
    BY <1>5, <2>2 DEF Schemes
  <2> HIDE DEF skx
  <2> QED BY <2>1, <2>3, BodiesAssumption
<1> HIDE DEF skx
<1>10. ClientNext([Logged(cli, Head(s2c)) EXCEPT !.pc = "afterExchange", !.kx = skx])
  BY <1>1, <1>6, <1>7, <1>8 DEF ClientKeyExchange
<1> HIDE DEF m
<1>11. /\ cli' = [Logged(cli, m) EXCEPT !.pc = "afterExchange", !.kx = skx]
       /\ c2s' = <<>> /\ s2c' = q /\ UNCHANGED <<world, srv>>
  BY <1>1, <1>6, <1>10, ClientNextAll
<1>12. ReadsOn(m, q) /\ cli'.pc = "afterExchange" /\ cli'.kx # None /\ cli'.request = None
  BY <1>1, <1>9, <1>11 DEF Shape, Fields, Logged, ReadsOn
<1>13. Answering' /\ cli'.sh = srv'.sh /\ cli'.rest \o Keep(s2c') = srv'.rest
  BY <1>1, <1>4, <1>12, StillReads DEF Shape
<1>14. FromRequest(srv.sh)' = FromRequest(srv.sh)
  BY <1>11, FlightSettled DEF world
<1>15. AtRequest'
  BY <1>11, <1>12, <1>14 DEF AtRequest, HasKey, q
<1> QED BY <1>12, <1>13, <1>15 DEF Reading

\* The request for a certificate.
LEMMA RequestStep ==
  ASSUME Shape, up, Reading, AtRequest, scfg.clientAuth # "NoClientCert", cli.request = None, Client \/ ClientCut
  PROVE  Reading'
<1> DEFINE q == FromDone
           m == Msg("request", Asked)
<1>1. /\ cli.pc \in {"afterCertificate", "afterStatus", "afterExchange"} /\ cli.key = None /\ c2s = <<>>
      /\ Answering /\ cli.sh = srv.sh /\ cli.rest \o Keep(s2c) = srv.rest /\ srv.sh.vers = TheVers
  BY DEF Reading, AtRequest, Answering, SettlesFull, Settles
<1>2. IsSeq(q) /\ s2c = <<m>> \o q
  BY <1>1, FlightsAre DEF AtRequest, FromRequest, Request, Asked
<1> HIDE DEF q
<1>3. Head(s2c) = m /\ Head(s2c).body = Asked /\ Tail(s2c) = q /\ ClientRequest
  <2>1. "request" \in ClientExpects(cli.pc) /\ cli.pc # "start"
    BY <1>1 DEF ClientExpects
  <2> QED BY <1>1, <1>2, <2>1, ClientTakesNext DEF Msg
<1>4. ClientNext([Logged(cli, Head(s2c)) EXCEPT !.pc = "afterRequest", !.request = Asked])
  BY <1>3 DEF ClientRequest
<1> HIDE DEF m
<1>5. /\ cli' = [Logged(cli, m) EXCEPT !.pc = "afterRequest", !.request = Asked]
      /\ c2s' = <<>> /\ s2c' = q /\ UNCHANGED <<world, srv>>
  BY <1>1, <1>3, <1>4, ClientNextAll
<1>6. ReadsOn(m, q) /\ cli'.pc = "afterRequest" /\ cli'.kx = cli.kx /\ cli'.sh = cli.sh /\ cli'.request = Asked
  BY <1>1, <1>5 DEF Shape, Fields, Logged, ReadsOn
<1>7. Answering' /\ cli'.sh = srv'.sh /\ cli'.rest \o Keep(s2c') = srv'.rest
  BY <1>1, <1>2, <1>6, StillReads DEF Shape
<1>8. UNCHANGED <<Asked, FromDone>>
  BY <1>5, Settled, FlightSettled DEF world
<1>9. AtDone'
  BY <1>5, <1>6, <1>8 DEF AtDone, HasKey, AtRequest, q
<1> QED BY <1>6, <1>7, <1>8, <1>9 DEF Reading

\* Two sequences over one set, joined.
LEMMA Concatenated ==
  ASSUME NEW S, NEW p \in Seq(S), NEW q \in Seq(S)
  PROVE  /\ p \o q \in Seq(S) /\ Len(p \o q) = Len(p) + Len(q)
         /\ \A i \in 1 .. Len(p) + Len(q) : (p \o q)[i] = IF i <= Len(p) THEN p[i] ELSE q[i - Len(p)]
OBVIOUS

\* Two messages, one by one.
LEMMA PairIs == \A x, y : <<x>> \o <<y>> = <<x, y>>
<1> SUFFICES ASSUME NEW x, NEW y PROVE <<x>> \o <<y>> = <<x, y>>
  OBVIOUS
<1> DEFINE S == {x, y}
           p == <<x>>
           q == <<y>>
           c == p \o q
<1>1. p \in Seq(S) /\ q \in Seq(S) /\ <<x, y>> \in Seq(S) /\ Len(p) = 1 /\ Len(q) = 1 /\ p[1] = x /\ q[1] = y
  OBVIOUS
<1> HIDE DEF S, p, q
<1>2. c \in Seq(S) /\ Len(c) = 2 /\ c[1] = x /\ c[2] = y
  <2>1. /\ c \in Seq(S) /\ Len(c) = Len(p) + Len(q)
        /\ \A i \in 1 .. Len(p) + Len(q) : c[i] = IF i <= Len(p) THEN p[i] ELSE q[i - Len(p)]
    BY <1>1, Concatenated
  <2> HIDE DEF c
  <2>2. c[1] = p[1] /\ c[2] = q[2 - 1]
    BY <1>1, <2>1
  <2>3. 2 - 1 = 1
    OBVIOUS
  <2> QED BY <1>1, <2>1, <2>2, <2>3
<1> HIDE DEF c
<1>3. c = <<x, y>>
  BY <1>1, <1>2
<1> QED BY <1>3 DEF c, p, q

\* A request that is there.
LEMMA AskedIs ==
  ASSUME Shape, Compatible
  PROVE  Asked = None <=> scfg.clientAuth = "NoClientCert"
<1>1. plan \in Plans /\ ccfg \in plan.clients /\ scfg \in plan.servers
  BY DEF Shape
<1>2. TheVers \in ToSet(AllVersions)
  BY VersionAgreed
<1> DEFINE request == [schemes |-> RequestedSchemes(TheVers), acceptableCAs |-> scfg.clientCAs]
<1>3. request \in [schemes : {RequestedSchemes(v) : v \in ToSet(AllVersions)}, acceptableCAs : {scfg.clientCAs}]
  BY <1>2
<1>4. request # None
  BY <1>1, <1>3, BodiesAssumption
<1> QED BY <1>4 DEF Asked

\* The end of the server's flight: the client sends its own.
LEMMA DoneStep ==
  ASSUME Shape, ClientInv, Compatible, up, Reading, AtDone, cli.request = Asked, Client \/ ClientCut
  PROVE  Responding'
<1> DEFINE m        == Msg("helloDone", None)
           chain    == IF cli.request = None THEN None ELSE ChainToSend
           certs    == IF cli.request = None THEN <<>> ELSE <<Msg("certificate", chain)>>
           exchange == <<Msg("clientKeyExchange", PreMaster)>>
           logged   == LoggedAll(Logged(cli, Head(s2c)), certs \o exchange)
           verify   == IF chain = None THEN <<>>
                       ELSE <<Msg("verify", [scheme |-> SigningScheme(chain), signed |-> Transcript(logged)])>>
           done     == [LoggedAll(logged, verify) EXCEPT !.master = MasterFrom(cli, PreMaster)]
           final    == [Logged(done, Msg("finished", None)) EXCEPT !.pc = AwaitServer(cli.sh), !.sum = SumOf("client", done)]
           flight   == certs \o exchange \o verify \o FinishedFlight("client", done)
           before   == certs \o exchange
           r1       == srv.rest \o Keep(before)
           r2       == r1 \o Keep(verify)
<1>1. /\ cli.pc \in {"afterCertificate", "afterStatus", "afterExchange", "afterRequest"} /\ cli.key = None
      /\ c2s = <<>> /\ Answering /\ cli.sh = srv.sh /\ cli.rest \o Keep(s2c) = srv.rest /\ HasKey /\ s2c = <<m>>
      /\ DOMAIN cli = Fields /\ IsSeq(cli.rest) /\ IsSeq(srv.rest) /\ ~cli.resumed /\ srv.sh.vers = TheVers
  BY DEF Reading, AtDone, Answering, SettlesFull, Settles, FromDone, Shape, ClientInv, Full
<1>2. Head(s2c) = m /\ Tail(s2c) = <<>> /\ ClientHelloDone
  <2>1. "helloDone" \in ClientExpects(cli.pc) /\ cli.pc # "start"
    BY <1>1 DEF ClientExpects
  <2>2. s2c # <<>> /\ Head(s2c) = m /\ Tail(s2c) = <<>>
    BY <1>1
  <2>3. Head(s2c).type = "helloDone" /\ Head(s2c).key = cli.key
    BY <1>1, <2>2 DEF Msg, Under
  <2> HIDE DEF m
  <2> QED BY <2>1, <2>2, <2>3, ClientTurn
<1>3. chain = TheChain /\ (cli.request = None <=> scfg.clientAuth = "NoClientCert")
      /\ (chain # None => SigningScheme(chain) = TheScheme)
  BY <1>1, AskedIs DEF Asked, TheChain, TheScheme, ChainToSend, SigningScheme
<1>4. IsSeq(certs) /\ IsSeq(exchange) /\ IsSeq(verify) /\ IsSeq(before) /\ IsSeq(FinishedFlight("client", done))
  <2>1. IsSeq(certs) /\ IsSeq(exchange) /\ IsSeq(verify)
    BY Short
  <2>2. IsSeq(before)
    <3> HIDE DEF certs, exchange
    <3> QED BY <2>1, Joined
  <2>3. IsSeq(FinishedFlight("client", done))
    BY Short DEF FinishedFlight
  <2> QED BY <2>1, <2>2, <2>3
<1>5. ClientSends(final, flight)
  <2>1. ~(cli.sh.suite \in suiteECDHE /\ cli.kx = None)
    BY <1>1 DEF HasKey
  <2>2. ~(chain # None /\ SigningScheme(chain) = None)
    BY <1>3, ChainAgreed
  <2> QED BY <1>2, <2>1, <2>2 DEF ClientHelloDone
<1>6. cli' = final /\ c2s' = flight /\ s2c' = <<>> /\ UNCHANGED <<world, srv>>
  <2>1. IsSeq(flight)
    <3> HIDE DEF certs, exchange, verify, done
    <3>1. IsSeq(before \o verify)
      BY <1>4, Joined
    <3> QED BY <1>4, <3>1, Joined
  <2> HIDE DEF final, flight
  <2> QED BY <1>1, <1>2, <1>5, <2>1, ClientSendsAll
<1> DEFINE read == Logged(cli, m)
<1>7. /\ DOMAIN read = Fields /\ read.rest = srv.rest /\ IsSeq(read.rest)
      /\ \A f \in Fields \ {"rest"} : read[f] = cli[f]
  <2>1. read.rest = Append(cli.rest, Kept(m)) /\ DOMAIN read = Fields /\ \A f \in Fields \ {"rest"} : read[f] = cli[f]
    BY <1>1 DEF Logged, Fields
  <2>2. Append(cli.rest, Kept(m)) = srv.rest
    <3> DEFINE r == cli.rest
    <3>0. IsSeq(r)
      BY <1>1
    <3> HIDE DEF m, r
    <3>1. Append(r, Kept(m)) = r \o <<Kept(m)>> /\ Keep(<<m>>) = <<Kept(m)>>
      BY <3>0, AppendIs, KeepIs
    <3> QED BY <1>1, <3>1 DEF r
  <2> QED BY <1>1, <2>1, <2>2
<1>8. /\ DOMAIN logged = Fields /\ logged.rest = r1 /\ \A f \in Fields \ {"rest"} : logged[f] = cli[f]
  <2>1. logged = LoggedAll(read, before)
    BY <1>2
  <2> HIDE DEF read, logged, before
  <2> QED BY <1>7, <2>1 DEF LoggedAll, Fields, Keep
<1>9. Transcript(logged) = [ch |-> cli.ch, sh |-> cli.sh, rest |-> r1]
  <2> HIDE DEF logged, r1
  <2> QED BY <1>8 DEF Transcript, Fields
<1>10. /\ DOMAIN done = Fields /\ done.rest = r2 /\ done.master = MasterFrom(cli, PreMaster)
       /\ \A f \in Fields \ {"rest", "master"} : done[f] = cli[f]
  <2> HIDE DEF logged, verify, r1
  <2> QED BY <1>8 DEF LoggedAll, Fields, Keep
<1>11. /\ final.pc = AwaitServer(cli.sh) /\ final.sum = SumOf("client", done)
       /\ final.rest = Append(r2, Fin) /\ final.master = MasterFrom(cli, PreMaster)
       /\ \A f \in Fields \ {"rest", "master", "pc", "sum"} : final[f] = cli[f]
  <2>1. Kept(Msg("finished", None)) = Fin
    BY DEF Kept, Fin, Msg, Under
  <2> HIDE DEF done, r2
  <2> QED BY <1>10, <2>1 DEF Logged, Fields
<1>12. verify = Verifies(r1)
  <2> HIDE DEF logged, chain, r1
  <2> QED BY <1>3, <1>9 DEF Verifies
<1> DEFINE sent == before \o verify
<1>13. r2 = srv.rest \o Keep(sent)
  <2> DEFINE r == srv.rest
  <2>1. Keep(before \o verify) = Keep(before) \o Keep(verify) /\ IsSeq(Keep(before)) /\ IsSeq(Keep(verify)) /\ IsSeq(r)
    <3> HIDE DEF before, verify
    <3> QED BY <1>1, <1>4, KeepIs
  <2> HIDE DEF before, verify, r
  <2>2. (r \o Keep(before)) \o Keep(verify) = r \o (Keep(before) \o Keep(verify))
    BY <2>1, Assoc
  <2> QED BY <2>1, <2>2 DEF r
<1> HIDE DEF r2
<1>14. /\ cli'.pc = AwaitServer(cli.sh) /\ cli'.sum = SumOf("client", done) /\ cli'.rest = Append(r2, Fin)
       /\ cli'.master = MasterFrom(cli, PreMaster) /\ cli'.ch = cli.ch /\ cli'.sh = cli.sh /\ cli'.key = None
       /\ cli'.resumed = cli.resumed
  <2> HIDE DEF final, done
  <2> QED BY <1>1, <1>6, <1>11 DEF Fields
<1>15. UNCHANGED <<ccfg, scfg, conn, TheVers, TheSuite, TheChain, TheScheme>> /\ srv' = srv
  <2> HIDE DEF final, flight
  <2> QED BY <1>6, Settled DEF world
<1>16. FinishedFlight("client", done) = Seal(cli')
  <2>1. done.sh = cli'.sh /\ done.master = cli'.master /\ done.ch = cli'.ch
    <3> HIDE DEF done
    <3> QED BY <1>10, <1>14 DEF Fields
  <2> HIDE DEF done
  <2> QED BY <1>14, <2>1 DEF FinishedFlight, Seal, SealOf, Switch, Keys
<1>17. cli'.sum = SumFor("client", cli', r2)
  <2>1. done.sh = cli'.sh /\ done.master = cli'.master /\ done.ch = cli'.ch /\ done.rest = r2
    <3> HIDE DEF done
    <3> QED BY <1>10, <1>14 DEF Fields
  <2> HIDE DEF done
  <2> QED BY <1>14, <2>1 DEF SumFor, SumOf, Transcript
<1>18. /\ c2s' = sent \o Seal(cli') /\ cli'.sum = SumFor("client", cli', srv'.rest \o Keep(sent))
       /\ cli'.rest = Append(srv'.rest \o Keep(sent), Fin)
  <2>1. c2s' = sent \o Seal(cli')
    <3>1. flight = sent \o FinishedFlight("client", done)
      OBVIOUS
    <3> HIDE DEF flight, sent, done
    <3> QED BY <1>6, <1>16, <3>1
  <2> HIDE DEF sent
  <2> QED BY <1>13, <1>14, <1>15, <1>17, <2>1
<1>19. /\ SettlesFull' /\ cli'.sh = srv'.sh /\ cli'.master = MasterFrom(cli', cli'.master.pre)
       /\ cli'.master.pre = PreMaster /\ ~cli'.resumed /\ cli'.pc = AwaitServer(cli'.sh) /\ srv'.key = None
       /\ srv'.pc = IF scfg'.clientAuth = "NoClientCert" THEN "clientKeyExchange" ELSE "certificate"
       /\ srv'.peer = None
  <2> HIDE DEF final, flight, done
  <2>1. cli'.master = MasterFrom(cli', cli'.master.pre) /\ cli'.master.pre = PreMaster
    BY <1>14 DEF MasterFrom
  <2>2. SettlesFull /\ srv.key = None /\ srv.peer = None
        /\ srv.pc = IF scfg.clientAuth = "NoClientCert" THEN "clientKeyExchange" ELSE "certificate"
    BY <1>1 DEF Answering
  <2>3. SettlesFull'
    BY <1>14, <1>15, <2>2 DEF SettlesFull, Settles
  <2> QED BY <1>1, <1>14, <1>15, <2>1, <2>2, <2>3
<1>20. Exch' = Msg("clientKeyExchange", PreMaster) /\ Ident' = Msg("certificate", chain)
  <2> HIDE DEF chain
  <2> QED BY <1>3, <1>15, <1>19 DEF Exch, Ident
<1>21. CASE scfg.clientAuth = "NoClientCert"
  <2>1. before = <<Exch'>>
    <3>1. certs = <<>>
      BY <1>3, <1>21
    <3>2. <<>> \o exchange = exchange
      BY <1>4, Nothing
    <3> HIDE DEF certs
    <3> QED BY <1>20, <3>1, <3>2
  <2>2. Reply(<<Exch>>)' = sent
    <3> HIDE DEF verify, chain, exchange, certs, done, logged
    <3>1. Verifies(srv.rest \o Keep(<<Exch>>))' = verify
      <4>1. srv'.rest \o Keep(<<Exch'>>) = r1
        BY <1>15, <2>1
      <4> HIDE DEF before, r1
      <4> QED BY <1>12, <1>14, <1>15, <4>1 DEF Verifies
    <3> HIDE DEF before, r1
    <3> QED BY <2>1, <3>1 DEF Reply
  <2>3. TheChain' = None
    BY <1>15, <1>21 DEF TheChain
  <2>4. Replied(Reply(<<Exch>>))'
    <3> HIDE DEF sent
    <3> QED BY <1>18, <2>2 DEF Replied
  <2>5. srv'.pc = "clientKeyExchange" /\ srv'.peer = TheChain'
    BY <1>15, <1>19, <1>21, <2>3
  <2> QED BY <1>6, <1>14, <1>19, <2>4, <2>5 DEF Responding
<1>22. CASE scfg.clientAuth # "NoClientCert"
  <2>1. before = <<Ident', Exch'>>
    <3>1. certs = <<Msg("certificate", chain)>>
      BY <1>3, <1>22
    <3>2. \A x, y : <<x>> \o <<y>> = <<x, y>>
      BY PairIs
    <3> HIDE DEF certs
    <3> QED BY <1>20, <3>1, <3>2
  <2>2. Reply(<<Ident, Exch>>)' = sent
    <3> HIDE DEF verify, chain, exchange, certs, done, logged
    <3>1. Verifies(srv.rest \o Keep(<<Ident, Exch>>))' = verify
      <4>1. srv'.rest \o Keep(<<Ident', Exch'>>) = r1
        BY <1>15, <2>1
      <4> HIDE DEF before, r1
      <4> QED BY <1>12, <1>14, <1>15, <4>1 DEF Verifies
    <3> HIDE DEF before, r1
    <3> QED BY <2>1, <3>1 DEF Reply
  <2>3. Replied(Reply(<<Ident, Exch>>))'
    <3> HIDE DEF sent
    <3> QED BY <1>18, <2>2 DEF Replied
  <2>4. srv'.pc = "certificate" /\ scfg'.clientAuth # "NoClientCert"
    BY <1>15, <1>19, <1>22
  <2> QED BY <1>6, <1>14, <1>19, <2>3, <2>4 DEF Responding
<1> QED BY <1>21, <1>22

----------------------------------------------------------------------------
(* The server reads the flight of the client.                              *)

\* The server takes the next message of a flight, if it expects it.
LEMMA ServerTakesNext ==
  ASSUME up, NEW type, NEW body, NEW key, NEW q, IsSeq(q), c2s = <<Under(key, type, body)>> \o q, srv.key = key,
         srv.pc = type, Server \/ ServerCut
  PROVE  /\ Head(c2s) = Under(key, type, body) /\ Head(c2s).type = type /\ Head(c2s).body = body /\ Tail(c2s) = q
         /\ \/ type = "clientHello" /\ ServerClientHello
            \/ type = "certificate" /\ ServerCertificate
            \/ type = "clientKeyExchange" /\ ServerClientKeyExchange
            \/ type = "verify" /\ ServerVerify
            \/ type = "ccs" /\ ServerChangeCipherSpec
            \/ type = "finished" /\ ServerFinished
<1>1. c2s # <<>> /\ Head(c2s) = Under(key, type, body) /\ Tail(c2s) = q
  BY Queued
<1>2. Head(c2s).type = type /\ Head(c2s).body = body /\ Head(c2s).key = key
  BY <1>1 DEF Under
<1> QED BY <1>1, <1>2, ServerTurn

\* The verify message, if there is one, is a sequence.
LEMMA VerifiesAre == \A rest : IsSeq(Verifies(rest))
BY Short DEF Verifies

\* The server reads one message of the client's reply: what is left of it.
LEMMA ReplyRead ==
  ASSUME IsSeq(srv.rest), NEW m, NEW sent, IsSeq(sent), Replied(<<m>> \o sent), NEW r, r = Append(srv.rest, Kept(m))
  PROVE  /\ IsSeq(sent \o Seal(cli)) /\ c2s = <<m>> \o (sent \o Seal(cli))
         /\ cli.sum = SumFor("client", cli, r \o Keep(sent)) /\ cli.rest = Append(r \o Keep(sent), Fin)
<1> DEFINE b == srv.rest
           s == Seal(cli)
<1>1. IsSeq(s) /\ IsSeq(<<m>>) /\ IsSeq(b)
  BY FlightsAre, Short
<1>2. r = Append(b, Kept(m))
  OBVIOUS
<1>3. /\ c2s = (<<m>> \o sent) \o s /\ cli.sum = SumFor("client", cli, b \o Keep(<<m>> \o sent))
      /\ cli.rest = Append(b \o Keep(<<m>> \o sent), Fin)
  BY DEF Replied
<1> HIDE DEF b, s
<1>4. IsSeq(sent \o s) /\ (<<m>> \o sent) \o s = <<m>> \o (sent \o s)
  BY <1>1, Joined, Assoc
<1>5. r \o Keep(sent) = b \o Keep(<<m>> \o sent)
  BY <1>1, <1>2, LogReads
<1> QED BY <1>3, <1>4, <1>5 DEF s

\* Who logs one message after the other has logged two.
LEMMA LogReadsTwo ==
  ASSUME NEW b, IsSeq(b), NEW x, NEW y
  PROVE  Append(b, Kept(x)) \o Keep(<<y>>) = b \o Keep(<<x, y>>)
<1> DEFINE q == <<y>>
<1>1. IsSeq(q)
  BY Short
<1> HIDE DEF q
<1>2. Append(b, Kept(x)) \o Keep(q) = b \o Keep(<<x>> \o q)
  BY <1>1, LogReads
<1> QED BY <1>2, PairIs DEF q

\* The certificate of the client, or that it has none.
LEMMA IdentStep ==
  ASSUME Shape, Compatible, up, Responding, srv.pc = "certificate", Server \/ ServerCut
  PROVE  Responding'
<1> DEFINE V    == Verifies(srv.rest \o Keep(<<Ident, Exch>>))
           sent == <<Exch>> \o V
           q    == sent \o Seal(cli)
           r    == Append(srv.rest, Kept(Ident))
<1>1. /\ Replied(Reply(<<Ident, Exch>>)) /\ scfg.clientAuth # "NoClientCert" /\ srv.key = None /\ s2c = <<>>
      /\ DOMAIN srv = Fields /\ IsSeq(srv.rest)
  BY DEF Responding, Shape
<1>2. IsSeq(V) /\ IsSeq(sent)
  <2>1. IsSeq(V)
    BY VerifiesAre
  <2> HIDE DEF V
  <2> QED BY <2>1, Short, Joined
<1>3. Reply(<<Ident, Exch>>) = <<Ident>> \o sent
  <2>1. <<Ident, Exch>> = <<Ident>> \o <<Exch>>
    BY PairIs
  <2> HIDE DEF V
  <2>2. (<<Ident>> \o <<Exch>>) \o V = <<Ident>> \o (<<Exch>> \o V)
    BY <1>2, Short, Assoc
  <2> QED BY <2>1, <2>2 DEF Reply, V
<1>4. /\ IsSeq(q) /\ c2s = <<Ident>> \o q
      /\ cli.sum = SumFor("client", cli, r \o Keep(sent)) /\ cli.rest = Append(r \o Keep(sent), Fin)
  <2> HIDE DEF sent
  <2> QED BY <1>1, <1>2, <1>3, ReplyRead
<1> HIDE DEF q
<1>5. Head(c2s) = Ident /\ Head(c2s).body = TheChain /\ Tail(c2s) = q /\ ServerCertificate
  BY <1>1, <1>4, ServerTakesNext DEF Ident, Msg
<1>6. AcceptsClient(TheChain)
  BY <1>1, ChainAgreed
<1>7. ServerNext([Logged(srv, Ident) EXCEPT !.pc = "clientKeyExchange", !.peer = TheChain], <<>>)
  BY <1>5, <1>6 DEF ServerCertificate
<1>8. /\ srv' = [Logged(srv, Ident) EXCEPT !.pc = "clientKeyExchange", !.peer = TheChain]
      /\ s2c' = <<>> /\ c2s' = q /\ UNCHANGED <<world, cli>>
  BY <1>1, <1>5, <1>7, ServerSendsAll, Short
<1>9. /\ srv'.pc = "clientKeyExchange" /\ srv'.peer = TheChain /\ srv'.rest = r
      /\ \A f \in Fields \ {"pc", "peer", "rest"} : srv'[f] = srv[f]
  BY <1>1, <1>8 DEF Logged, Fields
<1>10. UNCHANGED <<ccfg, scfg, conn, TheVers, TheSuite, TheChain, TheScheme, Exch>>
  BY <1>8, Settled DEF world, Exch
<1>11. Reply(<<Exch>>)' = sent
  <2> DEFINE w == srv.rest \o Keep(<<Ident, Exch>>)
  <2>1. srv'.rest \o Keep(<<Exch'>>) = w
    <3> DEFINE b == srv.rest
    <3>1. IsSeq(b) /\ srv'.rest = Append(b, Kept(Ident))
      BY <1>1, <1>9
    <3> HIDE DEF b
    <3>2. Append(b, Kept(Ident)) \o Keep(<<Exch>>) = b \o Keep(<<Ident, Exch>>)
      BY <3>1, LogReadsTwo
    <3> QED BY <1>10, <3>1, <3>2 DEF b
  <2> HIDE DEF w
  <2>2. Verifies(srv.rest \o Keep(<<Exch>>))' = Verifies(w)
    <3>1. cli' = cli /\ TheChain' = TheChain /\ TheScheme' = TheScheme
      BY <1>8, <1>10
    <3> QED BY <2>1, <3>1 DEF Verifies
  <2>3. Verifies(w) = V
    BY DEF w
  <2> HIDE DEF V
  <2> QED BY <1>10, <2>2, <2>3 DEF Reply
<1>12. Replied(Reply(<<Exch>>))'
  <2> HIDE DEF sent, r
  <2> QED BY <1>4, <1>8, <1>9, <1>11 DEF Replied, q
<1>13. SettlesFull' /\ srv'.key = None /\ cli'.sh = srv'.sh
  BY <1>8, <1>9, <1>10 DEF Responding, SettlesFull, Settles, Fields
<1> QED BY <1>8, <1>9, <1>10, <1>12, <1>13 DEF Responding, MasterFrom, AwaitServer

\* A log goes on with one message.
LEMMA LogOne == ASSUME NEW b, IsSeq(b), NEW m PROVE Append(b, Kept(m)) = b \o Keep(<<m>>)
<1>1. Append(b, Kept(m)) = b \o <<Kept(m)>>
  BY AppendIs
<1>2. Keep(<<m>>) = <<Kept(m)>>
  BY KeepIs
<1> QED BY <1>1, <1>2

\* A log goes on with nothing.
LEMMA LogEnds == ASSUME NEW b, IsSeq(b) PROVE b \o Keep(<<>>) = b
BY KeepIs, Nothing

\* The key exchange of the client.
LEMMA KeyStep ==
  ASSUME Shape, up, Responding, srv.pc = "clientKeyExchange", Server \/ ServerCut
  PROVE  Responding' \/ ServerConcludes'
<1> DEFINE r == Append(srv.rest, Kept(Exch))
           V == Verifies(r)
           q == V \o Seal(cli)
<1>1. /\ Replied(Reply(<<Exch>>)) /\ srv.key = None /\ s2c = <<>> /\ srv.peer = TheChain
      /\ DOMAIN srv = Fields /\ IsSeq(srv.rest)
  BY DEF Responding, Shape
<1>2. IsSeq(V) /\ IsSeq(r)
  <2>1. IsSeq(r)
    <3> DEFINE b == srv.rest
    <3>1. IsSeq(b)
      BY <1>1
    <3> HIDE DEF b
    <3>2. IsSeq(Append(b, Kept(Exch)))
      BY <3>1, Appended
    <3> QED BY <3>2 DEF b
  <2> QED BY <2>1, VerifiesAre
<1>3. Reply(<<Exch>>) = <<Exch>> \o V
  <2>1. r = srv.rest \o Keep(<<Exch>>)
    <3> DEFINE b == srv.rest
    <3>1. IsSeq(b)
      BY <1>1
    <3> HIDE DEF b
    <3>2. Append(b, Kept(Exch)) = b \o Keep(<<Exch>>)
      BY <3>1, LogOne
    <3> QED BY <3>2 DEF b
  <2> HIDE DEF r
  <2> QED BY <2>1 DEF Reply
<1>4. /\ IsSeq(q) /\ c2s = <<Exch>> \o q
      /\ cli.sum = SumFor("client", cli, r \o Keep(V)) /\ cli.rest = Append(r \o Keep(V), Fin)
  <2> HIDE DEF V
  <2>1. IsSeq(srv.rest) /\ IsSeq(V) /\ Replied(<<Exch>> \o V) /\ r = Append(srv.rest, Kept(Exch))
    BY <1>1, <1>2, <1>3
  <2> HIDE DEF r
  <2> QED BY <2>1, ReplyRead
<1> HIDE DEF q
<1>5. Head(c2s) = Exch /\ Head(c2s).body = cli.master.pre /\ Tail(c2s) = q /\ ServerClientKeyExchange
  <2>1. c2s = <<Under(None, "clientKeyExchange", cli.master.pre)>> \o q /\ IsSeq(q)
    BY <1>4 DEF Exch, Msg
  <2>2. Exch = Under(None, "clientKeyExchange", cli.master.pre)
    BY DEF Exch, Msg
  <2>3. /\ Head(c2s) = Under(None, "clientKeyExchange", cli.master.pre) /\ Head(c2s).body = cli.master.pre
        /\ Tail(c2s) = q /\ ServerClientKeyExchange
    BY <1>1, <2>1, ServerTakesNext
  <2> QED BY <2>2, <2>3
<1> DEFINE next == IF TheChain = None THEN "ccs" ELSE "verify"
           e    == [Logged(srv, Exch) EXCEPT !.pc = next, !.master = MasterFrom(srv, cli.master.pre)]
<1>6. ServerNext(e, <<>>)
  BY <1>1, <1>5 DEF ServerClientKeyExchange
<1>7. srv' = e /\ s2c' = <<>> /\ c2s' = q /\ UNCHANGED <<world, cli>>
  <2> HIDE DEF e
  <2> QED BY <1>1, <1>5, <1>6, ServerSendsAll, Short
<1>8. /\ srv'.pc = next /\ srv'.master = MasterFrom(srv, cli.master.pre) /\ srv'.rest = r
      /\ \A f \in Fields \ {"pc", "master", "rest"} : srv'[f] = srv[f]
  <2> HIDE DEF next
  <2> QED BY <1>1, <1>7 DEF Logged, Fields
<1> HIDE DEF r, e
<1>9. srv'.ch = srv.ch /\ srv'.sh = srv.sh /\ srv'.peer = srv.peer /\ srv'.key = srv.key /\ srv'.resumed = srv.resumed
  BY <1>8 DEF Fields
<1>10. UNCHANGED <<ccfg, scfg, conn, TheVers, TheSuite, TheChain, TheScheme, cli>>
  BY <1>7, Settled DEF world
<1>11. /\ SettlesFull /\ cli.sh = srv.sh /\ cli.master = MasterFrom(cli, cli.master.pre) /\ srv.ch = cli.ch
       /\ ~cli.resumed /\ cli.pc = AwaitServer(cli.sh) /\ cli.key = None
  BY DEF Responding, SettlesFull, Settles
<1>12. SettlesFull' /\ srv'.master = cli'.master /\ srv'.key = None
  <2>1. SettlesFull'
    BY <1>9, <1>10, <1>11 DEF SettlesFull, Settles
  <2>2. MasterFrom(srv, cli.master.pre) = MasterFrom(cli, cli.master.pre)
    BY <1>11 DEF MasterFrom
  <2> QED BY <1>1, <1>8, <1>9, <1>10, <1>11, <2>1, <2>2
<1>13. CASE TheChain = None
  <2>1. V = <<>>
    BY <1>13 DEF Verifies
  <2>2. c2s' = Seal(cli) /\ cli.sum = SumFor("client", cli, r) /\ cli.rest = Append(r, Fin)
    <3>1. r \o Keep(V) = r
      BY <1>2, <2>1, LogEnds
    <3>2. V \o Seal(cli) = Seal(cli)
      BY <2>1, FlightsAre, Nothing
    <3> HIDE DEF V
    <3> QED BY <1>4, <1>7, <3>1, <3>2 DEF q
  <2>3. cli'.sum = SumFor("client", cli', srv'.rest) /\ cli'.rest = Append(srv'.rest, Fin) /\ c2s' = Seal(cli')
    BY <1>8, <1>10, <2>2
  <2>4. SameHandshake'
    BY <1>9, <1>10, <1>11, <1>12 DEF SameHandshake
  <2>5. ~srv'.resumed /\ ~cli'.resumed /\ cli'.pc = AwaitServer(cli'.sh) /\ cli'.key = None /\ srv'.pc = "ccs"
    BY <1>8, <1>9, <1>10, <1>11, <1>13 DEF SettlesFull
  <2>6. ServerConcludes'
    BY <1>7, <1>12, <2>3, <2>4, <2>5 DEF ServerConcludes
  <2> QED BY <2>6
<1>14. CASE TheChain # None
  <2>1. Reply(<<>>)' = V
    <3>1. srv'.rest \o Keep(<<>>) = r
      BY <1>2, <1>8, LogEnds
    <3>2. cli' = cli /\ TheChain' = TheChain /\ TheScheme' = TheScheme
      BY <1>10
    <3>3. Verifies(srv.rest \o Keep(<<>>))' = V
      BY <3>1, <3>2 DEF Verifies
    <3>4. <<>> \o V = V
      BY <1>2, Nothing
    <3> HIDE DEF V
    <3> QED BY <3>3, <3>4 DEF Reply
  <2>2. Replied(Reply(<<>>))'
    <3> HIDE DEF V
    <3> QED BY <1>4, <1>7, <1>8, <1>10, <2>1 DEF Replied, q
  <2>3. srv'.pc = "verify" /\ srv'.peer = TheChain' /\ TheChain' # None /\ srv'.master = cli'.master
    BY <1>1, <1>8, <1>9, <1>10, <1>12, <1>14
  <2>4. /\ cli'.sh = srv'.sh /\ cli'.master = MasterFrom(cli', cli'.master.pre)
        /\ ~cli'.resumed /\ cli'.pc = AwaitServer(cli'.sh) /\ cli'.key = None
    BY <1>9, <1>10, <1>11
  <2>5. Responding'
    BY <1>7, <1>12, <2>2, <2>3, <2>4 DEF Responding
  <2> QED BY <2>5
<1> QED BY <1>13, <1>14

\* The signature of the client: over the transcript, in a scheme the server takes.
LEMMA VerifyStep ==
  ASSUME Shape, Compatible, up, Responding, srv.pc = "verify", Server \/ ServerCut
  PROVE  ServerConcludes'
<1> DEFINE signed == [ch |-> cli.ch, sh |-> cli.sh, rest |-> srv.rest]
           proof  == [scheme |-> TheScheme, signed |-> signed]
           m      == Msg("verify", proof)
           r      == Append(srv.rest, Kept(m))
           q      == <<>> \o Seal(cli)
<1>1. /\ Replied(Reply(<<>>)) /\ srv.key = None /\ s2c = <<>> /\ srv.peer = TheChain /\ TheChain # None
      /\ DOMAIN srv = Fields /\ IsSeq(srv.rest) /\ srv.master = cli.master
      /\ SettlesFull /\ cli.sh = srv.sh /\ srv.ch = cli.ch /\ ~srv.resumed /\ srv.sh.vers = TheVers
      /\ ~cli.resumed /\ cli.pc = AwaitServer(cli.sh) /\ cli.key = None
  BY DEF Responding, Shape, SettlesFull, Settles
<1>2. Reply(<<>>) = <<m>> \o <<>>
  <2>1. srv.rest \o Keep(<<>>) = srv.rest
    BY <1>1, LogEnds
  <2>2. Verifies(srv.rest) = <<m>>
    BY <1>1 DEF Verifies
  <2> HIDE DEF m
  <2>3. <<>> \o <<m>> = <<m>> /\ <<m>> \o <<>> = <<m>>
    BY Short, Nothing
  <2> QED BY <2>1, <2>2, <2>3 DEF Reply
<1>3. /\ IsSeq(q) /\ c2s = <<m>> \o q
      /\ cli.sum = SumFor("client", cli, r \o Keep(<<>>)) /\ cli.rest = Append(r \o Keep(<<>>), Fin)
  <2> DEFINE sent == <<>>
  <2>1. IsSeq(sent) /\ IsSeq(srv.rest) /\ Replied(<<m>> \o sent) /\ r = Append(srv.rest, Kept(m))
    BY <1>1, <1>2, Short
  <2> HIDE DEF m, r, sent
  <2>2. /\ IsSeq(sent \o Seal(cli)) /\ c2s = <<m>> \o (sent \o Seal(cli))
        /\ cli.sum = SumFor("client", cli, r \o Keep(sent)) /\ cli.rest = Append(r \o Keep(sent), Fin)
    BY <2>1, ReplyRead
  <2> QED BY <2>2 DEF sent
<1>4. q = Seal(cli) /\ r \o Keep(<<>>) = r
  <2>1. q = Seal(cli)
    BY FlightsAre, Nothing
  <2> DEFINE b == srv.rest
  <2>2. IsSeq(b)
    BY <1>1
  <2> HIDE DEF m, b
  <2>3. IsSeq(Append(b, Kept(m)))
    BY <2>2, Appended
  <2>4. Append(b, Kept(m)) \o Keep(<<>>) = Append(b, Kept(m))
    BY <2>3, LogEnds
  <2> QED BY <2>1, <2>4 DEF b
<1> HIDE DEF q
<1>5. Head(c2s) = m /\ Head(c2s).body = proof /\ Tail(c2s) = q /\ ServerVerify
  <2>1. m = Under(None, "verify", proof)
    BY DEF Msg
  <2> HIDE DEF proof, m
  <2>2. c2s # <<>> /\ Head(c2s) = m /\ Tail(c2s) = q
    BY <1>3, Queued
  <2>3. Head(c2s).type = "verify" /\ Head(c2s).key = None /\ Head(c2s).body = proof
    BY <2>1, <2>2 DEF Under
  <2>4. srv.pc = "verify" /\ srv.key = None
    BY <1>1
  <2> QED BY <2>2, <2>3, <2>4, ServerTurn
<1>6. /\ Head(c2s).body.signed = Transcript(srv)
      /\ PickSignatureAlgorithm(srv.peer.key, <<Head(c2s).body.scheme>>,
                                SupportedSignatureAlgorithmsTLS12, srv.sh.vers) # None
  <2>1. proof.signed = Transcript(srv) /\ proof.scheme = TheScheme
    BY <1>1 DEF Transcript
  <2> HIDE DEF proof
  <2> QED BY <1>1, <1>5, <2>1, ChainAgreed
<1> DEFINE e == [Logged(srv, m) EXCEPT !.pc = "ccs"]
<1>7. ServerNext(e, <<>>)
  BY <1>5, <1>6 DEF ServerVerify
<1> HIDE DEF m
<1>8. srv' = e /\ s2c' = <<>> /\ c2s' = q /\ UNCHANGED <<world, cli>>
  <2> HIDE DEF e
  <2> QED BY <1>1, <1>5, <1>7, ServerSendsAll, Short
<1>9. srv'.pc = "ccs" /\ srv'.rest = r /\ \A f \in Fields \ {"pc", "rest"} : srv'[f] = srv[f]
  BY <1>1, <1>8 DEF Logged, Fields
<1> HIDE DEF r, e
<1>10. /\ srv'.ch = srv.ch /\ srv'.sh = srv.sh /\ srv'.master = srv.master /\ srv'.key = srv.key
       /\ srv'.resumed = srv.resumed
  BY <1>9 DEF Fields
<1>11. SameHandshake'
  BY <1>1, <1>8, <1>10 DEF SameHandshake
<1>12. cli'.sum = SumFor("client", cli', srv'.rest) /\ cli'.rest = Append(srv'.rest, Fin) /\ c2s' = Seal(cli')
  BY <1>3, <1>4, <1>8, <1>9
<1> QED BY <1>1, <1>8, <1>9, <1>10, <1>11, <1>12 DEF ServerConcludes

----------------------------------------------------------------------------
(* The Finished messages.                                                  *)

\* Both ends derive one key and one Finished from one handshake.
LEMMA SameKeys ==
  ASSUME SameHandshake
  PROVE  /\ Keys(cli) = Keys(srv)
         /\ \A role : /\ SumFor(role, cli, srv.rest) = SumOf(role, srv)
                      /\ SumFor(role, srv, cli.rest) = SumOf(role, cli)
BY DEF SameHandshake, Keys, SumFor, SumOf, Transcript

\* A Finished, and what the log keeps of it.
LEMMA KeptSeals ==
  \A e : Kept(SealOf(e)) = Fin /\ SealOf(e).type = "finished" /\ SealOf(e).key = Keys(e) /\ SealOf(e).body = e.sum
BY DEF Kept, SealOf, Fin, Under, Msg

\* The server reads the ccs of the client.
LEMMA ServerSwitches ==
  ASSUME Shape, up, ServerConcludes, srv.pc = "ccs", Server \/ ServerCut
  PROVE  ServerConcludes'
<1>1. /\ srv.key = None /\ c2s = Seal(cli) /\ DOMAIN srv = Fields /\ s2c = <<>>
  BY DEF ServerConcludes, Shape
<1>2. c2s # <<>> /\ Head(c2s) = Switch /\ Tail(c2s) = <<SealOf(cli)>>
  BY <1>1 DEF Seal
<1>3. Head(c2s).type = "ccs" /\ Head(c2s).key = None
  BY <1>2 DEF Switch, Msg, Under
<1>4. ServerNext([srv EXCEPT !.pc = "finished", !.key = Keys(srv)], <<>>)
  BY <1>1, <1>2, <1>3, ServerTurn DEF ServerChangeCipherSpec
<1>5. /\ srv' = [srv EXCEPT !.pc = "finished", !.key = Keys(srv)]
      /\ s2c' = <<>> /\ c2s' = <<SealOf(cli)>> /\ UNCHANGED <<world, cli>>
  BY <1>1, <1>2, <1>4, ServerSendsAll, Short
<1>6. srv'.pc = "finished" /\ srv'.key = Keys(srv) /\ \A f \in Fields \ {"pc", "key"} : srv'[f] = srv[f]
  BY <1>1, <1>5 DEF Fields
<1>7. /\ srv'.ch = srv.ch /\ srv'.sh = srv.sh /\ srv'.master = srv.master /\ srv'.rest = srv.rest
      /\ srv'.resumed = srv.resumed /\ cli' = cli
  BY <1>5, <1>6 DEF Fields
<1>8. srv'.key = Keys(srv')
  BY <1>6, <1>7 DEF Keys
<1>9. c2s' = <<SealOf(cli')>>
  BY <1>5, <1>7
<1> QED BY <1>5, <1>6, <1>7, <1>8, <1>9 DEF ServerConcludes, SameHandshake

\* The server reads the Finished of the client.
LEMMA ServerFinishes ==
  ASSUME Shape, up, ServerConcludes, srv.pc = "finished", Server \/ ServerCut
  PROVE  ClientConcludes' \/ Over'
<1> DEFINE m == SealOf(cli)
<1>1. /\ srv.key = Keys(srv) /\ c2s = <<m>> /\ DOMAIN srv = Fields /\ IsSeq(srv.rest) /\ s2c = <<>> /\ IsSeq(cli.rest)
      /\ SameHandshake /\ cli.sum = SumFor("client", cli, srv.rest)
  BY DEF ServerConcludes, Shape
<1>2. c2s # <<>> /\ Head(c2s) = m /\ Tail(c2s) = <<>>
  BY <1>1
<1>3. /\ m.type = "finished" /\ m.key = srv.key /\ m.body = SumOf("client", srv) /\ Kept(m) = Fin
  BY <1>1, SameKeys, KeptSeals
<1> HIDE DEF m
<1>4. ServerFinished /\ GoodFinished("client", srv, m)
  BY <1>2, <1>3, ServerTurn DEF GoodFinished
<1> DEFINE read   == [Logged(srv, m) EXCEPT !.pc = "complete", !.peerSum = m.body]
           ticket == IF srv.sh.ticketSupported THEN <<Msg("ticket", SessionTicket(srv))>> ELSE <<>>
           done   == LoggedAll(read, ticket)
<1>5. /\ srv' = IF srv.resumed THEN read ELSE [done EXCEPT !.sum = SumOf("server", done)]
      /\ s2c' = IF srv.resumed THEN s2c ELSE Send(s2c, ticket \o FinishedFlight("server", done))
      /\ c2s' = Tail(c2s) /\ UNCHANGED <<world, cli>>
  BY <1>2, <1>4 DEF ServerFinished
<1>6. /\ DOMAIN read = Fields /\ read.pc = "complete" /\ read.rest = Append(srv.rest, Fin)
      /\ \A f \in Fields \ {"pc", "rest", "peerSum"} : read[f] = srv[f]
  BY <1>1, <1>3 DEF Logged, Fields
<1>7. CASE srv.resumed
  <2> HIDE DEF read
  <2>1. srv'.pc = "complete" /\ s2c' = <<>> /\ c2s' = <<>> /\ cli'.pc = "complete"
    BY <1>1, <1>2, <1>5, <1>6, <1>7 DEF ServerConcludes
  <2> QED BY <2>1 DEF Over
<1>8. CASE ~srv.resumed
  <2>1. ~cli.resumed /\ cli.pc = AwaitServer(cli.sh) /\ cli.key = None /\ cli.rest = Append(srv.rest, Fin) /\ cli.sh = srv.sh
    BY <1>1, <1>8 DEF ServerConcludes, SameHandshake
  <2>2. IsSeq(ticket) /\ IsSeq(FinishedFlight("server", done)) /\ IsSeq(ticket \o FinishedFlight("server", done))
    <3>1. IsSeq(ticket)
      BY Short
    <3>2. IsSeq(FinishedFlight("server", done))
      BY Short DEF FinishedFlight
    <3> HIDE DEF ticket, done
    <3> QED BY <3>1, <3>2, Joined
  <2> HIDE DEF read
  <2>3. DOMAIN done = Fields /\ done.rest = cli.rest \o Keep(ticket) /\ \A f \in Fields \ {"rest"} : done[f] = read[f]
    <3> HIDE DEF ticket
    <3> QED BY <1>6, <2>1 DEF LoggedAll, Keep, Fields
  <2>4. s2c' = ticket \o FinishedFlight("server", done)
    <3> HIDE DEF ticket, done
    <3> QED BY <1>1, <1>5, <1>8, <2>2, Nothing DEF Send
  <2>5. srv' = [done EXCEPT !.sum = SumOf("server", done)]
    <3> HIDE DEF done
    <3> QED BY <1>5, <1>8
  <2> HIDE DEF done
  <2>6. srv'.sum = SumOf("server", done) /\ srv'.rest = done.rest /\ \A f \in Fields \ {"sum"} : srv'[f] = done[f]
    BY <2>3, <2>5 DEF Fields
  <2>7. /\ srv'.pc = "complete" /\ srv'.ch = srv.ch /\ srv'.sh = srv.sh /\ srv'.master = srv.master
        /\ srv'.resumed = srv.resumed /\ done.ch = srv'.ch /\ done.sh = srv'.sh /\ done.master = srv'.master
    BY <1>6, <2>3, <2>6 DEF Fields
  <2>8. FinishedFlight("server", done) = Seal(srv')
    BY <2>6, <2>7 DEF FinishedFlight, Seal, SealOf, Switch, Keys
  <2>9. srv'.sum = SumFor("server", srv', done.rest)
    BY <2>6, <2>7 DEF SumFor, SumOf, Transcript
  <2>10. /\ SameHandshake' /\ cli'.resumed = srv'.resumed /\ c2s' = <<>> /\ cli' = cli
    <3>1. SameHandshake'
      BY <1>1, <1>5, <2>7 DEF SameHandshake
    <3>2. cli.resumed = srv.resumed
      BY <1>8, <2>1 DEF Shape
    <3> QED BY <1>2, <1>5, <2>7, <3>1, <3>2
  <2>11. CASE srv.sh.ticketSupported
    <3>1. PICK t : t = SessionTicket(srv)
      OBVIOUS
    <3> DEFINE x == Msg("ticket", t)
    <3>2. ticket = <<x>> /\ cli.pc = "ticket"
      BY <2>1, <2>11, <3>1 DEF AwaitServer
    <3>3. Kept(x) = x
      BY DEF Kept, Msg, Under
    <3> HIDE DEF ticket, x
    <3>4. done.rest = Append(cli.rest, x)
      <4> DEFINE b == cli.rest
      <4>1. IsSeq(b)
        BY <1>1
      <4> HIDE DEF b
      <4>2. Append(b, Kept(x)) = b \o Keep(<<x>>)
        BY <4>1, LogOne
      <4> QED BY <2>3, <3>2, <3>3, <4>2 DEF b
    <3>5. /\ cli'.pc = "ticket" /\ cli'.key = None /\ s2c' = <<x>> \o Seal(srv') /\ cli'.rest = cli.rest
          /\ srv'.sum = SumFor("server", srv', Append(cli.rest, x)) /\ ~srv'.resumed
      BY <1>8, <2>1, <2>4, <2>7, <2>8, <2>9, <2>10, <3>2, <3>4
    <3>6. Concluded(Append(cli.rest, x))'
      BY <2>7, <3>5 DEF Concluded, x
    <3> QED BY <2>10, <3>5, <3>6 DEF ClientConcludes, x
  <2>12. CASE ~srv.sh.ticketSupported
    <3>1. ticket = <<>> /\ cli.pc = "ccs"
      BY <2>1, <2>12 DEF AwaitServer
    <3>2. done.rest = cli.rest /\ s2c' = Seal(srv')
      <4> HIDE DEF ticket
      <4>1. cli.rest \o Keep(<<>>) = cli.rest
        BY LogEnds DEF Shape
      <4>2. <<>> \o Seal(srv') = Seal(srv')
        <5>1. \A e : <<>> \o Seal(e) = Seal(e)
          BY FlightsAre, Nothing
        <5> QED BY <5>1
      <4> QED BY <2>3, <2>4, <2>8, <3>1, <4>1, <4>2
    <3>3. Concluded(cli.rest)'
      BY <1>8, <2>7, <2>9, <2>10, <3>2 DEF Concluded
    <3> QED BY <2>1, <2>10, <3>1, <3>2, <3>3 DEF ClientConcludes
  <2> QED BY <2>11, <2>12
<1> QED BY <1>7, <1>8

\* The client reads a ticket.
LEMMA TicketStep ==
  ASSUME Shape, up, ClientConcludes, cli.pc = "ticket", Client \/ ClientCut
  PROVE  ClientConcludes'
<1>1. PICK t : s2c = <<Msg("ticket", t)>> \o Seal(srv) /\ Concluded(Append(cli.rest, Msg("ticket", t)))
  BY DEF ClientConcludes
<1> DEFINE x == Msg("ticket", t)
           q == Seal(srv)
<1>2. /\ cli.key = None /\ c2s = <<>> /\ DOMAIN cli = Fields /\ IsSeq(q) /\ SameHandshake /\ cli.resumed = srv.resumed
      /\ Kept(x) = x /\ s2c = <<x>> \o q
  BY <1>1, FlightsAre DEF ClientConcludes, Shape, Kept, Msg, Under
<1>3. Concluded(Append(cli.rest, x))
  BY <1>1
<1> HIDE DEF q
<1>4. Head(s2c) = x /\ Tail(s2c) = q /\ ClientTicket
  BY <1>2, ClientTakesNext DEF ClientExpects, Msg
<1> DEFINE s == [ticket |-> Head(s2c).body, vers |-> cli.sh.vers, suite |-> cli.sh.suite,
                 master |-> cli.master, cert |-> cli.peer,
                 verified |-> IF cli.resumed THEN cli.offered.verified ELSE ~ccfg.insecure]
           e == [Logged(cli, x) EXCEPT !.pc = "ccs", !.session = s]
<1>5. ClientNext(e)
  BY <1>4 DEF ClientTicket
<1> HIDE DEF s, x
<1>6. cli' = e /\ c2s' = <<>> /\ s2c' = q /\ UNCHANGED <<world, srv>>
  BY <1>2, <1>4, <1>5, ClientNextAll
<1>7. cli'.pc = "ccs" /\ cli'.rest = Append(cli.rest, x) /\ \A f \in Fields \ {"pc", "rest", "session"} : cli'[f] = cli[f]
  BY <1>2, <1>6 DEF Logged, Fields
<1>8. /\ cli'.ch = cli.ch /\ cli'.sh = cli.sh /\ cli'.master = cli.master /\ cli'.key = None /\ cli'.resumed = cli.resumed
      /\ srv' = srv
  BY <1>2, <1>6, <1>7 DEF Fields
<1>9. s2c' = Seal(srv')
  BY <1>6, <1>8 DEF q
<1>10. Concluded(cli.rest)'
  BY <1>3, <1>7, <1>8 DEF Concluded
<1> QED BY <1>2, <1>6, <1>7, <1>8, <1>9, <1>10 DEF ClientConcludes, SameHandshake

\* The client reads the ccs of the server.
LEMMA ClientSwitches ==
  ASSUME Shape, up, ClientConcludes, cli.pc = "ccs", Client \/ ClientCut
  PROVE  ClientConcludes'
<1>1. /\ cli.key = None /\ s2c = Seal(srv) /\ DOMAIN cli = Fields /\ c2s = <<>> /\ Concluded(cli.rest)
      /\ SameHandshake /\ cli.resumed = srv.resumed
  BY DEF ClientConcludes, Shape
<1>2. s2c # <<>> /\ Head(s2c) = Switch /\ Tail(s2c) = <<SealOf(srv)>>
  BY <1>1 DEF Seal
<1>3. Head(s2c).type = "ccs" /\ Head(s2c).key = None
  BY <1>2 DEF Switch, Msg, Under
<1>4. ClientNext([cli EXCEPT !.pc = "finished", !.key = Keys(cli)])
  BY <1>1, <1>2, <1>3, ClientTurn DEF ClientChangeCipherSpec, ClientExpects
<1>5. /\ cli' = [cli EXCEPT !.pc = "finished", !.key = Keys(cli)]
      /\ c2s' = <<>> /\ s2c' = <<SealOf(srv)>> /\ UNCHANGED <<world, srv>>
  BY <1>1, <1>2, <1>4, ClientNextAll
<1>6. cli'.pc = "finished" /\ cli'.key = Keys(cli) /\ \A f \in Fields \ {"pc", "key"} : cli'[f] = cli[f]
  BY <1>1, <1>5 DEF Fields
<1>7. /\ cli'.ch = cli.ch /\ cli'.sh = cli.sh /\ cli'.master = cli.master /\ cli'.rest = cli.rest
      /\ cli'.resumed = cli.resumed /\ srv' = srv
  BY <1>5, <1>6 DEF Fields
<1>8. cli'.key = Keys(cli')
  BY <1>6, <1>7 DEF Keys
<1>9. s2c' = <<SealOf(srv')>>
  BY <1>5, <1>7
<1>10. Concluded(cli.rest)'
  BY <1>1, <1>7 DEF Concluded
<1> QED BY <1>1, <1>5, <1>6, <1>7, <1>8, <1>9, <1>10 DEF ClientConcludes, SameHandshake

\* The client reads the Finished of the server.
LEMMA ClientFinishes ==
  ASSUME Shape, up, ClientConcludes, cli.pc = "finished", Client \/ ClientCut
  PROVE  ServerConcludes' \/ Over'
<1> DEFINE m == SealOf(srv)
<1>1. /\ cli.key = Keys(cli) /\ s2c = <<m>> /\ DOMAIN cli = Fields /\ c2s = <<>> /\ Concluded(cli.rest)
      /\ SameHandshake /\ cli.resumed = srv.resumed /\ cli.resumed \in BOOLEAN
  BY DEF ClientConcludes, Shape
<1>2. s2c # <<>> /\ Head(s2c) = m /\ Tail(s2c) = <<>>
  BY <1>1
<1>3. /\ m.type = "finished" /\ m.key = cli.key /\ m.body = SumOf("server", cli) /\ Kept(m) = Fin
  BY <1>1, SameKeys, KeptSeals DEF Concluded
<1> HIDE DEF m
<1>4. ClientFinished /\ GoodFinished("server", cli, m)
  <2>1. Head(s2c).type \in ClientExpects(cli.pc)
    BY <1>2, <1>3 DEF ClientExpects
  <2> QED BY <1>2, <1>3, <2>1, ClientTurn DEF GoodFinished
<1> DEFINE read == [Logged(cli, m) EXCEPT !.pc = "complete", !.peerSum = m.body]
<1>5. /\ cli' = IF cli.resumed THEN [read EXCEPT !.sum = SumOf("client", read)] ELSE read
      /\ c2s' = IF cli.resumed THEN Send(c2s, FinishedFlight("client", read)) ELSE c2s
      /\ s2c' = <<>> /\ UNCHANGED <<world, srv>>
  BY <1>2, <1>4 DEF ClientFinished
<1>6. /\ DOMAIN read = Fields /\ read.pc = "complete" /\ read.rest = Append(cli.rest, Fin)
      /\ \A f \in Fields \ {"pc", "rest", "peerSum"} : read[f] = cli[f]
  BY <1>1, <1>3 DEF Logged, Fields
<1> HIDE DEF read
<1>7. CASE ~cli.resumed
  <2>1. cli'.pc = "complete" /\ srv'.pc = "complete" /\ c2s' = <<>> /\ s2c' = <<>>
    BY <1>1, <1>5, <1>6, <1>7 DEF Concluded
  <2> QED BY <2>1 DEF Over
<1>8. CASE cli.resumed
  <2>1. srv.resumed /\ srv.pc = "ccs" /\ srv.key = None /\ srv.rest = Append(cli.rest, Fin)
    BY <1>1, <1>8 DEF Concluded
  <2>2. cli' = [read EXCEPT !.sum = SumOf("client", read)] /\ c2s' = FinishedFlight("client", read) /\ srv' = srv
    <3>1. IsSeq(FinishedFlight("client", read))
      BY Short DEF FinishedFlight
    <3> QED BY <1>1, <1>5, <1>8, <3>1, Nothing DEF Send
  <2>3. cli'.sum = SumOf("client", read) /\ \A f \in Fields \ {"sum"} : cli'[f] = read[f]
    BY <1>6, <2>2 DEF Fields
  <2>4. /\ cli'.pc = "complete" /\ cli'.rest = read.rest /\ cli'.ch = cli.ch /\ cli'.sh = cli.sh /\ cli'.master = cli.master
        /\ read.ch = cli.ch /\ read.sh = cli.sh /\ read.master = cli.master /\ cli'.rest = srv.rest
    BY <1>6, <2>1, <2>3 DEF Fields
  <2>5. c2s' = Seal(cli')
    BY <2>2, <2>3, <2>4 DEF FinishedFlight, Seal, SealOf, Switch, Keys
  <2>6. cli'.sum = SumFor("client", cli', srv'.rest)
    BY <2>2, <2>3, <2>4 DEF SumOf, SumFor, Transcript
  <2>7. SameHandshake'
    BY <1>1, <2>2, <2>4 DEF SameHandshake
  <2> QED BY <1>5, <2>1, <2>2, <2>4, <2>5, <2>6, <2>7 DEF ServerConcludes
<1> QED BY <1>7, <1>8

----------------------------------------------------------------------------
(* The hellos.                                                             *)

\* The client says hello.
LEMMA StartStep ==
  ASSUME Shape, Compatible, up, Waiting, Client \/ ClientCut
  PROVE  Asking'
<1>1. /\ cli = Fresh("start") /\ srv = Fresh("clientHello") /\ c2s = <<>> /\ s2c = <<>> /\ cli.pc = "start"
      /\ cli.key = None /\ cli.request = None /\ DOMAIN cli = Fields
  BY DEF Waiting, Fresh, Fields
<1>2. ClientStart
  BY <1>1 DEF Client, ClientCut, ClientServerHello, ClientCertificate, ClientStatus, ClientKeyExchange, ClientRequest,
     ClientHelloDone, ClientTicket, ClientChangeCipherSpec, ClientFinished, ClientUnexpected
<1>3. TheHello # None /\ ~(ccfg.server.name = <<>> /\ ~ccfg.insecure)
  BY DEF Compatible, TheHello
<1> DEFINE o == Offered(TheHello)
           hello == Greeting(TheHello, o)
           q == <<Msg("clientHello", hello)>>
<1>4. /\ cli' = [cli EXCEPT !.pc = "serverHello", !.ch = hello, !.offered = o]
      /\ c2s' = Send(c2s, q) /\ UNCHANGED <<srv, s2c>>
  BY <1>2, <1>3 DEF ClientStart, TheHello
<1>5. c2s' = q
  <2>1. IsSeq(q)
    BY Short
  <2> HIDE DEF q
  <2> QED BY <1>1, <1>4, <2>1, Nothing DEF Send
<1> HIDE DEF hello, o
<1>6. cli'.pc = "serverHello" /\ cli'.key = None /\ cli'.request = None /\ cli'.ch = hello
  BY <1>1, <1>4 DEF Fields
<1>7. c2s' = <<Msg("clientHello", cli'.ch)>> /\ srv' = srv /\ s2c' = s2c
  BY <1>4, <1>5, <1>6
<1> QED BY <1>1, <1>6, <1>7 DEF Asking, Fresh

\* What the server makes of a hello depends on what it offers.
LEMMA SameOffer ==
  ASSUME NEW a, NEW b, NEW vers, NEW c, NEW cert, a.cipherSuites = b.cipherSuites,
         a.supportedCurves = b.supportedCurves, a.supportedSignatureAlgorithms = b.supportedSignatureAlgorithms
  PROVE  /\ PickCipherSuite(vers, c, a, cert) = PickCipherSuite(vers, c, b, cert)
         /\ \A suite : KeyExchange(suite, vers, c, a, cert) = KeyExchange(suite, vers, c, b, cert)
<1>1. MutualCurve(c, a.supportedCurves) = MutualCurve(c, b.supportedCurves)
  OBVIOUS
<1>2. EllipticOk(c, a) <=> EllipticOk(c, b)
  BY <1>1 DEF EllipticOk
<1>3. \A id, s : CanUseSuite(id, s, vers, c, a, cert) <=> CanUseSuite(id, s, vers, c, b, cert)
  BY <1>2 DEF CanUseSuite
<1>4. PickCipherSuite(vers, c, a, cert) = PickCipherSuite(vers, c, b, cert)
  BY <1>3 DEF PickCipherSuite
<1>5. \A suite : KeyExchange(suite, vers, c, a, cert) = KeyExchange(suite, vers, c, b, cert)
  BY <1>1 DEF KeyExchange
<1> QED BY <1>4, <1>5

\* The server makes of the hello what compatible ends settle.
LEMMA ServerSettles ==
  ASSUME Shape, OfferInv, Compatible, Asking
  PROVE  /\ MutualVersion(scfg, FALSE, ClientVersions(cli.ch)) = TheVers /\ TheVers # None
         /\ GetCertificate(scfg, cli.ch.serverName) = TheCert /\ TheCert # None
         /\ PickCipherSuite(TheVers, scfg, cli.ch, TheCert) = TheSuite /\ TheSuite # None
         /\ TheSuite \in suiteECDHE => KeyExchange(TheSuite, TheVers, scfg, cli.ch, TheCert) # None
         /\ cli.ch.alpnProtocols = ccfg.protos
<1>1. TheHello # None /\ cli.ch = Greeting(TheHello, cli.offered)
  BY DEF Asking, OfferInv
<1>2. /\ cli.ch.cipherSuites = TheHello.cipherSuites /\ cli.ch.supportedCurves = TheHello.supportedCurves
      /\ cli.ch.supportedSignatureAlgorithms = TheHello.supportedSignatureAlgorithms
      /\ cli.ch.supportedVersions = TheHello.supportedVersions /\ cli.ch.serverName = TheHello.serverName
      /\ cli.ch.alpnProtocols = TheHello.alpnProtocols
  BY <1>1 DEF Greeting
<1>3. TheVers # None /\ TheHello.supportedVersions # <<>>
  BY VersionAgreed
<1>4. ClientVersions(cli.ch) = TheHello.supportedVersions
  BY <1>2, <1>3 DEF ClientVersions
<1>5. /\ TheCert # None /\ TheSuite # None
      /\ TheSuite \in suiteECDHE => KeyExchange(TheSuite, TheVers, scfg, TheHello, TheCert) # None
  BY DEF Compatible, TheHello, TheVers, TheCert, TheSuite
<1>6. PickCipherSuite(TheVers, scfg, cli.ch, TheCert) = TheSuite
  BY <1>2, SameOffer DEF TheSuite
<1>7. TheSuite \in suiteECDHE => KeyExchange(TheSuite, TheVers, scfg, cli.ch, TheCert) # None
  <2>1. KeyExchange(TheSuite, TheVers, scfg, cli.ch, TheCert) = KeyExchange(TheSuite, TheVers, scfg, TheHello, TheCert)
    BY <1>2, SameOffer
  <2> QED BY <1>5, <2>1
<1>8. TheHello.alpnProtocols = ccfg.protos
  BY <1>1 DEF TheHello, MakeClientHello
<1> QED BY <1>2, <1>3, <1>4, <1>5, <1>6, <1>7, <1>8 DEF TheVers, TheCert

\* Regroup is what Assoc says of three sequences.
Regroup(p, q, r) == (p \o q) \o r = p \o (q \o r)

\* It holds of every three.
LEMMA Regroups == \A p, q, r : IsSeq(p) /\ IsSeq(q) /\ IsSeq(r) => Regroup(p, q, r)
BY Assoc DEF Regroup

\* A full handshake.
LEMMA FullStep ==
  ASSUME Shape, OfferInv, Compatible, up, Asking, c2s # <<>>, Tail(c2s) = <<>>,
         ServerStartsFull(cli.ch, TheVers, TheSuite, TheCert)
  PROVE  Hearing'
<1> DEFINE ch     == cli.ch
           sh     == [ServerHello(ch, TheVers, TheSuite) EXCEPT
                        !.ticketSupported = ch.ticketSupported /\ scfg.tickets, !.ocspStapling = TheCert.staple]
           hello  == <<Msg("serverHello", sh)>>
           staple == IF TheCert.staple THEN <<Msg("status", None)>> ELSE <<>>
           first  == <<Msg("certificate", TheCert)>>
           certs  == first \o staple
           last   == <<Msg("helloDone", None)>>
           flight == certs \o Exchange(ch, sh, TheCert) \o Request(TheVers) \o last
           pc     == IF scfg.clientAuth = "NoClientCert" THEN "clientKeyExchange" ELSE "certificate"
           e      == [LoggedAll(Answered(ch, sh), flight) EXCEPT !.pc = pc]
<1>1. /\ srv = Fresh("clientHello") /\ DOMAIN srv = Fields /\ srv.rest = <<>> /\ s2c = <<>> /\ srv.resumed = FALSE
      /\ srv.peer = None /\ srv.key = None
  BY DEF Asking, Fresh, Fields
<1>2. ~(TheSuite \in suiteECDHE /\ KeyExchange(TheSuite, TheVers, scfg, ch, TheCert) = None)
  BY ServerSettles
<1>3. ServerNext(e, hello \o flight)
  BY <1>2 DEF ServerStartsFull
<1>4. /\ sh.vers = TheVers /\ sh.suite = TheSuite /\ sh.sessionId = None /\ sh.random = <<"server", conn>>
      /\ sh.ocspStapling = TheCert.staple /\ (ch.alpnProtocols = <<>> => sh.alpnProtocol = None)
  BY DEF ServerHello
<1>5. flight = FromCert(ch, sh)
  <2> DEFINE kx == Exchange(ch, sh, TheCert)
             rq == Request(TheVers)
  <2>1. IsSeq(first) /\ IsSeq(staple) /\ IsSeq(last) /\ IsSeq(kx) /\ IsSeq(rq)
    <3>1. IsSeq(first) /\ IsSeq(staple) /\ IsSeq(last)
      BY Short
    <3>2. IsSeq(rq)
      BY Short DEF Request
    <3> HIDE DEF sh
    <3> QED BY <3>1, <3>2, FlightsAre
  <2>2. FromCert(ch, sh) = first \o (staple \o (kx \o (rq \o last)))
    <3>1. FromRequest(sh) = rq \o last
      BY <1>4 DEF FromRequest, FromDone
    <3>2. FromExchange(ch, sh) = kx \o (rq \o last)
      BY <3>1 DEF FromExchange
    <3> HIDE DEF sh, kx, rq, last
    <3>3. FromStatus(ch, sh) = staple \o (kx \o (rq \o last))
      BY <1>4, <3>2 DEF FromStatus
    <3> QED BY <3>3 DEF FromCert
  <2> HIDE DEF first, staple, kx, rq, last
  <2>3. (((first \o staple) \o kx) \o rq) \o last = first \o (staple \o (kx \o (rq \o last)))
    <3> DEFINE de  == rq \o last
               cde == kx \o de
               ab  == first \o staple
               abc == ab \o kx
    <3>1. IsSeq(de) /\ IsSeq(ab)
      BY <2>1, Joined
    <3>2. IsSeq(cde) /\ IsSeq(abc)
      <4> HIDE DEF de, ab
      <4> QED BY <2>1, <3>1, Joined
    <3>3. /\ de = rq \o last /\ cde = kx \o de /\ ab = first \o staple /\ abc = ab \o kx
      OBVIOUS
    <3> HIDE DEF de, cde, ab, abc
    <3>4. Regroup(first, staple, cde) /\ Regroup(ab, kx, de) /\ Regroup(abc, rq, last)
      BY <2>1, <3>1, <3>2, Regroups
    <3> QED BY <3>3, <3>4, Zenon DEF Regroup
  <2> QED BY <2>2, <2>3 DEF kx, rq
<1> DEFINE f == FromCert(ch, sh)
<1>6. IsSeq(f) /\ IsSeq(hello \o f)
  <2>1. IsSeq(hello)
    BY Short
  <2> HIDE DEF sh, hello
  <2>2. IsSeq(f)
    BY FlightsAre
  <2> HIDE DEF f
  <2> QED BY <2>1, <2>2, Joined
<1>7. srv' = e /\ s2c' = hello \o f /\ c2s' = <<>> /\ UNCHANGED <<world, cli>>
  <2> HIDE DEF e, hello, flight, f
  <2>1. ServerNext(e, hello \o f)
    BY <1>3, <1>5 DEF f
  <2> QED BY <1>1, <1>6, <2>1, ServerSendsAll
<1>8. srv'.rest = Keep(f) /\ srv'.pc = pc /\ srv'.ch = ch /\ srv'.sh = sh
      /\ srv'.resumed = FALSE /\ srv'.peer = None /\ srv'.key = None
  <2> HIDE DEF sh, flight, ch
  <2>1. /\ DOMAIN Answered(ch, sh) = Fields /\ Answered(ch, sh).ch = ch /\ Answered(ch, sh).sh = sh
        /\ Answered(ch, sh).rest = <<>> /\ \A g \in Fields \ {"ch", "sh"} : Answered(ch, sh)[g] = srv[g]
    BY <1>1, AnsweredFields
  <2> DEFINE b == Answered(ch, sh)
  <2> HIDE DEF b
  <2>2. LoggedAll(b, flight).rest = <<>> \o Keep(f) /\ DOMAIN LoggedAll(b, flight) = Fields
        /\ \A g \in Fields \ {"rest"} : LoggedAll(b, flight)[g] = b[g]
    BY <1>5, <2>1 DEF LoggedAll, Keep, b, Fields
  <2>3. <<>> \o Keep(f) = Keep(f)
    <3>1. IsSeq(Keep(f))
      BY <1>6, KeepIs
    <3> HIDE DEF f
    <3> QED BY <3>1, Nothing
  <2> DEFINE l == LoggedAll(b, flight)
  <2>4. srv' = [l EXCEPT !.pc = pc]
    BY <1>7 DEF b
  <2> HIDE DEF l, f, pc
  <2>5. srv'.pc = pc /\ \A g \in Fields \ {"pc"} : srv'[g] = l[g]
    BY <2>2, <2>4 DEF Fields, l
  <2>6. /\ srv'.rest = l.rest /\ srv'.ch = l.ch /\ srv'.sh = l.sh /\ srv'.resumed = l.resumed /\ srv'.peer = l.peer
        /\ srv'.key = l.key
    BY <2>5 DEF Fields
  <2>7. l.ch = b.ch /\ l.sh = b.sh /\ l.resumed = b.resumed /\ l.peer = b.peer /\ l.key = b.key /\ l.rest = Keep(f)
    BY <2>2, <2>3 DEF Fields, l
  <2>8. b.ch = ch /\ b.sh = sh /\ b.resumed = FALSE /\ b.peer = None /\ b.key = None
    BY <1>1, <2>1 DEF Fields, b
  <2> QED BY <2>5, <2>6, <2>7, <2>8
<1>9. UNCHANGED <<ccfg, scfg, now, conn>> /\ cli' = cli
  BY <1>7 DEF world
<1>10. UNCHANGED <<TheVers, TheSuite, TheCert>>
  BY <1>9, Settled
<1>11. FromCert(srv.ch, srv.sh)' = f
  <2> HIDE DEF sh
  <2>1. Exchange(srv.ch, srv.sh, TheCert)' = Exchange(ch, sh, TheCert) /\ Request(srv.sh.vers)' = Request(sh.vers)
    BY <1>8, <1>9, <1>10 DEF Exchange, Request
  <2>2. FromExchange(srv.ch, srv.sh)' = FromExchange(ch, sh)
    BY <2>1 DEF FromExchange, FromRequest, FromDone
  <2>3. FromStatus(srv.ch, srv.sh)' = FromStatus(ch, sh)
    BY <1>8, <2>2 DEF FromStatus
  <2> QED BY <1>10, <2>3 DEF FromCert
<1>12. SettlesFull'
  <2> HIDE DEF sh
  <2> QED BY <1>4, <1>8, <1>9, <1>10 DEF SettlesFull, Settles
<1>13. Answering'
  BY <1>7, <1>8, <1>9, <1>12 DEF Answering, Asking
<1>14. s2c' = <<Msg("serverHello", srv'.sh)>> \o f /\ srv'.rest = Keep(f)
  <2> HIDE DEF sh, f
  <2> QED BY <1>7, <1>8
<1> HIDE DEF f
<1> QED BY <1>9, <1>11, <1>13, <1>14 DEF Hearing, Asking

\* The server resumes, or fails because it does not accept the client of the session.
LEMMA ResumeStep ==
  ASSUME Shape, ClientInv, OfferInv, FitInv, Compatible, up, Asking, c2s # <<>>, Tail(c2s) = <<>>,
         Resumes(cli.ch, TheVers, TheCert), ServerResumes(cli.ch, TheVers, TheCert)
  PROVE  Resuming' \/ TicketRejected'
<1> DEFINE ch     == cli.ch
           state  == Opened(ch.sessionTicket)
           sh     == [ServerHello(ch, TheVers, state.suite) EXCEPT
                        !.sessionId = ch.sessionId, !.ticketSupported = ch.sessionTicket.key # ticketKeys[1]]
           hello  == <<Msg("serverHello", sh)>>
           e      == [Answered(ch, sh) EXCEPT
                        !.resumed = TRUE, !.offered = state, !.peer = state.cert, !.master = state.master]
           ticket == IF sh.ticketSupported THEN <<Msg("ticket", SessionTicket(e))>> ELSE <<>>
           done   == LoggedAll(e, ticket)
           last   == Logged(done, Msg("finished", None))
           final  == [last EXCEPT !.pc = "ccs", !.sum = SumOf("server", done)]
           seal   == FinishedFlight("server", done)
<1>1. /\ srv = Fresh("clientHello") /\ DOMAIN srv = Fields /\ srv.rest = <<>> /\ s2c = <<>> /\ srv.resumed = FALSE
      /\ srv.peer = None /\ srv.key = None /\ cli.pc = "serverHello"
  BY DEF Asking, Fresh, Fields
<1>2. ch.sessionId = conn /\ conn \in Nat /\ conn # None
      /\ ch.sessionTicket = IF cli.offered = None THEN None ELSE cli.offered.ticket
  BY <1>1, NoneAssumption DEF ClientInv, Shape
<1>3. /\ ch.sessionTicket # None /\ state = ch.sessionTicket.state /\ state.vers = TheVers
      /\ state.suite \in ToSet(CipherSuites)
  BY DEF Resumes, Opened, CanUseSuite
<1>4. /\ cli.offered # None /\ cli.offered.vers = TheVers /\ cli.offered.suite = state.suite
      /\ cli.offered.master = state.master
  BY <1>2, <1>3 DEF FitInv, Fits
<1>5. /\ sh.vers = TheVers /\ sh.suite = state.suite /\ sh.sessionId = ch.sessionId
      /\ (ch.alpnProtocols = <<>> => sh.alpnProtocol = None)
      /\ sh.ticketSupported \in BOOLEAN
  <2> HIDE DEF state
  <2> QED BY DEF ServerHello
<1>6. CASE ~AcceptsClient(state.cert)
  <2>1. ServerFails(Answered(ch, sh), hello)
    BY <1>6 DEF ServerResumes
  <2>2. sh # None
    <3> DEFINE p == IF ch.alpnProtocols = <<>> THEN None ELSE MutualProtocol(ch.alpnProtocols, scfg.protos)
    <3>1. sh = [vers |-> TheVers, random |-> <<"server", conn>>, suite |-> state.suite, sessionId |-> ch.sessionId,
                ticketSupported |-> ch.sessionTicket.key # ticketKeys[1], ocspStapling |-> FALSE,
                alpnProtocol |-> p]
      <4> DEFINE base == ServerHello(ch, TheVers, state.suite)
                 b    == ch.sessionTicket.key # ticketKeys[1]
      <4> HIDE DEF state
      <4>1. base = [vers |-> TheVers, random |-> <<"server", conn>>, suite |-> state.suite, sessionId |-> None,
                    ticketSupported |-> FALSE, ocspStapling |-> FALSE, alpnProtocol |-> p]
        BY DEF ServerHello
      <4> HIDE DEF base, p
      <4>2. sh = [base EXCEPT !.sessionId = ch.sessionId, !.ticketSupported = b]
        BY DEF base
      <4> HIDE DEF sh, ch, b
      <4>3. sh = [vers |-> TheVers, random |-> <<"server", conn>>, suite |-> state.suite, sessionId |-> ch.sessionId,
                  ticketSupported |-> b, ocspStapling |-> FALSE, alpnProtocol |-> p]
        BY <4>1, <4>2
      <4> QED BY <4>3 DEF b, ch
    <3>2. /\ TheVers \in ToSet(AllVersions) /\ <<"server", conn>> \in {"server"} \X Nat /\ ch.sessionId \in Nat
          /\ (ch.sessionTicket.key # ticketKeys[1]) \in BOOLEAN
      BY <1>2, VersionAgreed
    <3>3. p \in {None, MutualProtocol(ccfg.protos, scfg.protos)}
      BY ServerSettles
    <3> DEFINE t == ch.sessionTicket.key # ticketKeys[1]
    <3> HIDE DEF p, state, t
    <3>4. [vers |-> TheVers, random |-> <<"server", conn>>, suite |-> state.suite, sessionId |-> ch.sessionId,
           ticketSupported |-> t, ocspStapling |-> FALSE, alpnProtocol |-> p]
            \in [vers : ToSet(AllVersions), random : {"server"} \X Nat, suite : ToSet(CipherSuites), sessionId : Nat,
                 ticketSupported : BOOLEAN, ocspStapling : BOOLEAN,
                 alpnProtocol : {None, MutualProtocol(ccfg.protos, scfg.protos)}]
      BY <1>3, <3>2, <3>3 DEF t
    <3>5. None \notin [vers : ToSet(AllVersions), random : {"server"} \X Nat, suite : ToSet(CipherSuites), sessionId : Nat,
                       ticketSupported : BOOLEAN, ocspStapling : BOOLEAN,
                       alpnProtocol : {None, MutualProtocol(ccfg.protos, scfg.protos)}]
      BY BodiesAssumption DEF Shape
    <3> QED BY <3>1, <3>4, <3>5 DEF t
  <2> DEFINE a == Answered(ch, sh)
  <2>3. srv' = [a EXCEPT !.pc = "failed"]
    BY <2>1 DEF ServerFails
  <2>4. DOMAIN a = Fields /\ a.sh = sh
    <3> HIDE DEF sh
    <3> QED BY <1>1, AnsweredFields
  <2> HIDE DEF a, sh
  <2>5. srv'.pc = "failed" /\ srv'.sh = sh
    BY <2>3, <2>4 DEF Fields
  <2>6. srv'.sh # None /\ srv'.sh.sessionId # None
    BY <1>2, <1>5, <2>2, <2>5
  <2> QED BY <2>5, <2>6 DEF TicketRejected
<1>7. CASE AcceptsClient(state.cert)
  <2>1. ServerNext(final, hello \o ticket \o seal)
    BY <1>7 DEF ServerResumes
  <2>2. /\ DOMAIN e = Fields /\ e.ch = ch /\ e.sh = sh /\ e.rest = <<>> /\ e.resumed = TRUE
        /\ e.master = state.master /\ e.key = None
    <3> HIDE DEF sh, state, ch
    <3>1. /\ DOMAIN Answered(ch, sh) = Fields /\ Answered(ch, sh).ch = ch /\ Answered(ch, sh).sh = sh
          /\ Answered(ch, sh).rest = <<>> /\ Answered(ch, sh).key = srv.key
      BY <1>1, AnsweredFields DEF Fields
    <3> QED BY <1>1, <3>1 DEF Fields
  <2>3. PICK tickets : tickets = ticket
    OBVIOUS
  <2>4. IsSeq(tickets) /\ Tickets(sh, tickets) /\ IsSeq(hello) /\ IsSeq(seal)
    <3>1. IsSeq(hello) /\ IsSeq(seal)
      BY Short DEF FinishedFlight
    <3>2. IsSeq(ticket) /\ Tickets(sh, ticket)
      <4> HIDE DEF e, sh
      <4> QED BY Short DEF Tickets
    <3> HIDE DEF ticket, hello, seal
    <3> QED BY <2>3, <3>1, <3>2
  <2> HIDE DEF e, state
  <2>5. DOMAIN done = Fields /\ done.rest = Keep(tickets) /\ \A f \in Fields \ {"rest"} : done[f] = e[f]
    <3>1. done = LoggedAll(e, tickets)
      BY <2>3
    <3> HIDE DEF done, ticket
    <3>2. DOMAIN done = Fields /\ done.rest = <<>> \o Keep(tickets) /\ \A f \in Fields \ {"rest"} : done[f] = e[f]
      BY <2>2, <3>1 DEF LoggedAll, Keep, Fields
    <3>3. IsSeq(Keep(tickets))
      BY <2>4, KeepIs
    <3> QED BY <3>2, <3>3, Nothing
  <2> HIDE DEF done, ticket, sh
  <2>6. DOMAIN last = Fields /\ last.rest = Append(done.rest, Fin) /\ \A f \in Fields \ {"rest"} : last[f] = done[f]
    BY <2>5 DEF Logged, Fields, Kept, Fin, Msg, Under
  <2> HIDE DEF last, hello, seal
  <2>7. IsSeq(hello \o tickets) /\ IsSeq((hello \o tickets) \o seal)
    <3> DEFINE ht == hello \o tickets
    <3>1. IsSeq(ht)
      BY <2>4, Joined
    <3> HIDE DEF ht
    <3>2. IsSeq(ht \o seal)
      BY <2>4, <3>1, Joined
    <3> QED BY <3>1, <3>2 DEF ht
  <2>8. srv' = final /\ s2c' = (hello \o tickets) \o seal /\ c2s' = <<>> /\ UNCHANGED <<world, cli>>
    <3> DEFINE q == (hello \o tickets) \o seal
    <3>1. ServerNext(final, q) /\ IsSeq(q)
      BY <2>1, <2>3, <2>7
    <3> HIDE DEF q, final
    <3> QED BY <1>1, <3>1, ServerSendsAll DEF q
  <2>9. srv'.pc = "ccs" /\ srv'.sum = SumOf("server", done) /\ \A f \in Fields \ {"pc", "sum"} : srv'[f] = last[f]
    BY <2>6, <2>8 DEF Fields
  <2>10. /\ srv'.rest = Append(Keep(tickets), Fin) /\ srv'.ch = ch /\ srv'.sh = sh /\ srv'.resumed = TRUE
         /\ srv'.master = state.master /\ srv'.key = None
         /\ done.ch = ch /\ done.sh = sh /\ done.master = state.master
    <3>1. /\ srv'.rest = last.rest /\ srv'.ch = last.ch /\ srv'.sh = last.sh /\ srv'.resumed = last.resumed
          /\ srv'.master = last.master /\ srv'.key = last.key
      BY <2>9 DEF Fields
    <3>2. /\ last.ch = done.ch /\ last.sh = done.sh /\ last.resumed = done.resumed /\ last.master = done.master
          /\ last.key = done.key
      BY <2>6 DEF Fields
    <3>3. /\ done.ch = e.ch /\ done.sh = e.sh /\ done.resumed = e.resumed /\ done.master = e.master /\ done.key = e.key
      BY <2>5 DEF Fields
    <3> QED BY <2>2, <2>5, <2>6, <3>1, <3>2, <3>3
  <2>11. seal = Seal(srv')
    BY <2>9, <2>10 DEF FinishedFlight, Seal, SealOf, Switch, Keys, seal
  <2>12. s2c' = <<Msg("serverHello", srv'.sh)>> \o (tickets \o Seal(srv'))
    <3>1. Regroup(hello, tickets, seal)
      BY <2>4, Regroups
    <3>2. hello = <<Msg("serverHello", srv'.sh)>>
      BY <2>10 DEF hello
    <3>3. (hello \o tickets) \o seal = hello \o (tickets \o seal)
      BY <3>1 DEF Regroup
    <3> QED BY <2>8, <2>11, <3>2, <3>3, Zenon
  <2>13. srv'.sum = SumFor("server", srv', Keep(tickets))
    BY <2>5, <2>9, <2>10 DEF SumFor, SumOf, Transcript
  <2>14. Concluded(Keep(tickets))'
    <3>1. Keep(tickets)' = Keep(tickets)
      BY DEF Keep, Kept, Msg, Under
    <3> QED BY <2>9, <2>10, <2>13, <3>1 DEF Concluded
  <2>15. cli' = cli /\ UNCHANGED <<ccfg, scfg, now, conn>>
    BY <2>8 DEF world
  <2>16. TheVers' = TheVers
    BY <2>15, Settled
  <2>17. SettlesResumed'
    BY <1>2, <1>4, <1>5, <2>10, <2>15, <2>16 DEF SettlesResumed, Settles
  <2>18. Tickets(srv.sh, tickets)'
    BY <2>4, <2>10 DEF Tickets, Msg, Under
  <2>19. cli'.pc = "serverHello" /\ cli'.key = None /\ c2s' = <<>>
    BY <1>1, <2>8, <2>15 DEF Asking
  <2> QED BY <2>12, <2>14, <2>17, <2>18, <2>19 DEF Resuming
<1> QED BY <1>6, <1>7

\* The server answers the hello of the client.
LEMMA AskStep ==
  ASSUME Shape, ClientInv, OfferInv, FitInv, Compatible, up, Asking, Server \/ ServerCut
  PROVE  Hearing' \/ Resuming' \/ TicketRejected'
<1>1. c2s = <<Msg("clientHello", cli.ch)>> /\ srv.pc = "clientHello" /\ srv.key = None
  BY DEF Asking, Fresh
<1>2. c2s # <<>> /\ Head(c2s) = Msg("clientHello", cli.ch) /\ Tail(c2s) = <<>>
  BY <1>1
<1>3. Head(c2s).type = "clientHello" /\ Head(c2s).body = cli.ch /\ Head(c2s).key = None
  BY <1>2 DEF Msg, Under
<1>4. ServerClientHello
  BY <1>1, <1>3, ServerTurn
<1>5. /\ MutualVersion(scfg, FALSE, ClientVersions(cli.ch)) = TheVers /\ TheVers # None
      /\ GetCertificate(scfg, cli.ch.serverName) = TheCert /\ TheCert # None
      /\ PickCipherSuite(TheVers, scfg, cli.ch, TheCert) = TheSuite /\ TheSuite # None
  BY ServerSettles
<1>6. IF Resumes(cli.ch, TheVers, TheCert) THEN ServerResumes(cli.ch, TheVers, TheCert)
      ELSE ServerStartsFull(cli.ch, TheVers, TheSuite, TheCert)
  BY <1>3, <1>4, <1>5 DEF ServerClientHello
<1> QED BY <1>2, <1>6, ResumeStep, FullStep

\* The client reads a hello that goes on with the session it offered.
LEMMA ResumedStep ==
  ASSUME Shape, ClientInv, OfferInv, Compatible, up, Resuming, Client \/ ClientCut
  PROVE  ClientConcludes'
<1>1. PICK tickets : /\ Tickets(srv.sh, tickets) /\ Concluded(Keep(tickets))
                     /\ s2c = <<Msg("serverHello", srv.sh)>> \o (tickets \o Seal(srv))
  BY DEF Resuming
<1> DEFINE q == tickets \o Seal(srv)
<1>2. /\ cli.pc = "serverHello" /\ cli.key = None /\ c2s = <<>> /\ cli.rest = <<>> /\ DOMAIN cli = Fields
      /\ srv.ch = cli.ch /\ srv.sh.vers = TheVers /\ srv.resumed /\ srv.sh.sessionId = cli.ch.sessionId
      /\ cli.offered # None /\ cli.offered.vers = srv.sh.vers /\ cli.offered.suite = srv.sh.suite
      /\ cli.offered.master = srv.master /\ (cli.ch.alpnProtocols = <<>> => srv.sh.alpnProtocol = None)
  BY DEF Resuming, SettlesResumed, Settles, ClientInv, Shape
<1>3. IsSeq(tickets) /\ IsSeq(Seal(srv)) /\ IsSeq(q)
  <2>1. IsSeq(tickets)
    BY <1>1, Short DEF Tickets
  <2>2. IsSeq(Seal(srv))
    BY FlightsAre
  <2> DEFINE seal == Seal(srv)
  <2> HIDE DEF seal
  <2> QED BY <2>1, <2>2, Joined DEF seal
<1>4. Head(s2c).body = srv.sh /\ Tail(s2c) = q /\ ClientServerHello
  <2>1. s2c = <<Msg("serverHello", srv.sh)>> \o q
    BY <1>1
  <2> HIDE DEF q
  <2> QED BY <1>2, <1>3, <2>1, ClientTakesNext DEF ClientExpects, Msg
<1> HIDE DEF q
<1>5. /\ MutualVersion(ccfg, TRUE, <<srv.sh.vers>>) # None
      /\ MutualCipherSuite(cli.ch.cipherSuites, srv.sh.suite) # None
      /\ ServerResumedSession(srv.sh)
  <2>1. MutualVersion(ccfg, TRUE, <<srv.sh.vers>>) # None
    BY <1>2, VersionAgreed DEF VersionTaken
  <2>2. MutualCipherSuite(cli.ch.cipherSuites, cli.offered.suite) # None
    BY <1>2 DEF OfferInv
  <2>3. ServerResumedSession(srv.sh)
    BY <1>2 DEF ServerResumedSession
  <2> QED BY <1>2, <2>1, <2>2, <2>3
<1> DEFINE e == [cli EXCEPT !.pc = AwaitServer(srv.sh), !.sh = srv.sh, !.resumed = TRUE,
                            !.master = cli.offered.master, !.peer = cli.offered.cert]
<1>6. ClientNext(e)
  <2> DEFINE resumed == ServerResumedSession(srv.sh)
  <2>1. ClientNext([cli EXCEPT
            !.pc = IF resumed THEN AwaitServer(srv.sh) ELSE "certificate",
            !.sh = srv.sh, !.resumed = resumed,
            !.master = IF resumed THEN cli.offered.master ELSE None,
            !.peer = IF resumed THEN cli.offered.cert ELSE None])
    BY <1>2, <1>4, <1>5 DEF ClientServerHello
  <2>2. resumed = TRUE
    BY <1>5 DEF ServerResumedSession
  <2> HIDE DEF resumed
  <2> QED BY <2>1, <2>2
<1>7. cli' = e /\ c2s' = <<>> /\ s2c' = q /\ UNCHANGED <<world, srv>>
  BY <1>2, <1>4, <1>6, ClientNextAll
<1>8. /\ cli'.pc = AwaitServer(srv.sh) /\ cli'.sh = srv.sh /\ cli'.ch = cli.ch /\ cli'.rest = <<>> /\ cli'.key = None
      /\ cli'.resumed = TRUE /\ cli'.master = srv.master
  BY <1>2, <1>7 DEF Fields
<1>9. SameHandshake' /\ cli'.resumed = srv'.resumed /\ srv' = srv /\ c2s' = <<>>
  <2>1. srv.resumed = TRUE
    BY <1>2 DEF Shape
  <2> QED BY <1>2, <1>7, <1>8, <2>1 DEF SameHandshake
<1>10. CASE srv.sh.ticketSupported
  <2>1. PICK t : tickets = <<Msg("ticket", t)>>
    BY <1>1, <1>10 DEF Tickets
  <2> DEFINE x == Msg("ticket", t)
  <2>2. Kept(x) = x
    BY DEF Kept, Msg, Under
  <2>3. s2c' = <<x>> \o Seal(srv') /\ cli'.pc = "ticket"
    BY <1>7, <1>8, <1>9, <1>10, <2>1 DEF AwaitServer, q
  <2>4. Concluded(<<x>>)
    <3> HIDE DEF x
    <3>1. Keep(tickets) = <<x>>
      BY <2>1, <2>2, KeepIs DEF x
    <3> QED BY <1>1, <3>1
  <2>5. Append(cli'.rest, x) = <<x>>
    <3> HIDE DEF x
    <3> QED BY <1>8
  <2>6. Concluded(Append(cli.rest, x))'
    BY <1>9, <2>4, <2>5 DEF Concluded
  <2> QED BY <1>8, <1>9, <2>3, <2>6 DEF ClientConcludes
<1>11. CASE ~srv.sh.ticketSupported
  <2>1. tickets = <<>> /\ cli'.pc = "ccs"
    BY <1>1, <1>8, <1>11 DEF Tickets, AwaitServer
  <2>2. Concluded(<<>>)
    BY <1>1, <2>1, KeepIs
  <2>3. s2c' = Seal(srv')
    <3>1. \A e1 : <<>> \o Seal(e1) = Seal(e1)
      BY FlightsAre, Nothing
    <3> QED BY <1>7, <1>9, <2>1, <3>1 DEF q
  <2>4. Concluded(cli.rest)'
    BY <1>8, <1>9, <2>2 DEF Concluded
  <2> QED BY <1>8, <1>9, <2>1, <2>3, <2>4 DEF ClientConcludes
<1> QED BY <1>10, <1>11

----------------------------------------------------------------------------
(* From phase to phase.                                                    *)

\* A step of the client leads on.
LEMMA ClientMovesOn ==
  ASSUME Shape, ClientInv, HelloInv, OfferInv, Compatible, up, GoesWell, Client \/ ClientCut
  PROVE  GoesWell'
<1>1. cli.pc # "start" => s2c # <<>>
  BY ClientTurn
<1>2. CASE Waiting
  BY <1>2, StartStep DEF GoesWell
<1>3. ASSUME Asking \/ Responding \/ ServerConcludes \/ Over PROVE FALSE
  <2>1. s2c = <<>> /\ cli.pc # "start"
    BY <1>3 DEF Asking, Responding, ServerConcludes, Over, AwaitServer
  <2> QED BY <1>1, <2>1
<1>4. CASE Hearing
  BY <1>4, HearingStep DEF GoesWell
<1>5. CASE Reading
  <2>1. CASE AtCertificate
    BY <1>5, <2>1, CertificateStep DEF GoesWell
  <2>2. CASE ~AtCertificate
    <3>1. CASE AtStatus /\ srv.sh.ocspStapling /\ cli.request = None
      BY <1>5, <3>1, StatusStep DEF GoesWell
    <3>2. CASE AtExchange /\ srv.sh.suite \in suiteECDHE /\ cli.request = None
      BY <1>5, <3>2, ExchangeStep DEF GoesWell
    <3>3. CASE AtRequest /\ scfg.clientAuth # "NoClientCert" /\ cli.request = None
      BY <1>5, <3>3, RequestStep DEF GoesWell
    <3>4. CASE AtDone /\ cli.request = Asked
      BY <1>5, <3>4, DoneStep DEF GoesWell
    <3> QED BY <1>5, <2>2, <3>1, <3>2, <3>3, <3>4, Positions
  <2> QED BY <2>1, <2>2
<1>6. CASE Resuming
  BY <1>6, ResumedStep DEF GoesWell
<1>7. CASE ClientConcludes
  <2>1. cli.pc \in {"ticket", "ccs", "finished"}
    BY <1>7 DEF ClientConcludes
  <2> QED BY <1>7, <2>1, TicketStep, ClientSwitches, ClientFinishes DEF GoesWell
<1>8. CASE TicketRejected
  <2>1. srv' = srv
    <3>1. ClientSteps
      BY ClientDoes DEF HelloInv
    <3> QED BY <3>1 DEF ClientSteps, ClientGivesUp, ClientGreets, ClientHears, ClientIdentifies, ClientReadsOn,
               ClientSealsFlight, ClientKeepsTicket, ClientRekeys, ClientCompletes, ClientQuiet, ClientTakes, ClientReads
  <2> QED BY <1>8, <2>1 DEF TicketRejected, GoesWell
<1> QED BY <1>2, <1>3, <1>4, <1>5, <1>6, <1>7, <1>8 DEF GoesWell

\* A step of the server leads on.
LEMMA ServerMovesOn ==
  ASSUME Shape, ClientInv, OfferInv, FitInv, Compatible, up, GoesWell, Server \/ ServerCut
  PROVE  GoesWell'
<1>1. c2s # <<>>
  BY ServerTurn
<1>2. ASSUME Waiting \/ Hearing \/ Reading \/ Resuming \/ ClientConcludes \/ Over PROVE FALSE
  BY <1>1, <1>2 DEF Waiting, Hearing, Reading, Answering, Resuming, ClientConcludes, Over
<1>3. CASE Asking
  BY <1>3, AskStep DEF GoesWell
<1>4. CASE Responding
  <2>1. srv.pc \in {"certificate", "clientKeyExchange", "verify"}
    BY <1>4 DEF Responding
  <2> QED BY <1>4, <2>1, IdentStep, KeyStep, VerifyStep DEF GoesWell
<1>5. CASE ServerConcludes
  <2>1. srv.pc \in {"ccs", "finished"}
    BY <1>5 DEF ServerConcludes
  <2> QED BY <1>5, <2>1, ServerSwitches, ServerFinishes DEF GoesWell
<1>6. CASE TicketRejected
  <2>1. FALSE
    BY <1>6 DEF TicketRejected, Server, ServerCut, Ended, ServerClientHello, ServerCertificate, ServerClientKeyExchange,
       ServerVerify, ServerChangeCipherSpec, ServerFinished, ServerUnexpected
  <2> QED BY <2>1
<1> QED BY <1>2, <1>3, <1>4, <1>5, <1>6 DEF GoesWell

\* What no phase looks at may change.
LEMMA Stays ==
  ASSUME GoesWell, UNCHANGED <<ccfg, scfg, conn, now, cli, srv, net>>
  PROVE  GoesWell'
<1>1. /\ UNCHANGED <<TheHello, TheVers, TheCert, TheSuite, TheChain, TheScheme, Asked>>
      /\ UNCHANGED <<FromCert(srv.ch, srv.sh), FromStatus(srv.ch, srv.sh), FromExchange(srv.ch, srv.sh),
                     FromRequest(srv.sh), FromDone>>
      /\ cli' = cli /\ srv' = srv /\ c2s' = c2s /\ s2c' = s2c /\ scfg' = scfg /\ conn' = conn
  BY Settled, FlightSettled DEF net
<1>3. CASE Waiting \/ Over \/ TicketRejected \/ Asking
  BY <1>1, <1>3 DEF Waiting, Over, TicketRejected, Asking, Fresh, Msg, Under, GoesWell
<1>4. UNCHANGED <<Seal(cli), Seal(srv), Keys(cli), Keys(srv), SealOf(cli), SealOf(srv), Ident, Exch, Switch, Fin>>
  BY <1>1 DEF Seal, Keys, SealOf, Ident, Exch, Switch, Fin, Msg, Under
<1>5. UNCHANGED <<Settles, SettlesFull, SettlesResumed, Answering, SameHandshake>>
  BY <1>1 DEF Settles, SettlesFull, SettlesResumed, Answering, SameHandshake
<1>6. CASE Hearing
  <2>1. Hearing'
    BY <1>1, <1>5, <1>6 DEF Hearing, Keep, Kept, Msg, Under
  <2> QED BY <2>1 DEF GoesWell
<1>7. CASE Reading
  <2>1. UNCHANGED <<AtCertificate, AtStatus, AtExchange, AtRequest, AtDone>>
    BY <1>1 DEF AtCertificate, AtStatus, AtExchange, AtRequest, AtDone, HasKey
  <2>2. Keep(s2c)' = Keep(s2c)
    BY <1>1 DEF Keep, Kept, Msg, Under
  <2>3. Reading'
    BY <1>1, <1>5, <1>7, <2>1, <2>2 DEF Reading
  <2> QED BY <2>3 DEF GoesWell
<1>8. CASE Responding
  <2>1. UNCHANGED <<Reply(<<Ident, Exch>>), Reply(<<Exch>>), Reply(<<>>)>>
    BY <1>1, <1>4 DEF Reply, Verifies, Keep, Kept, Msg, Under
  <2>2. UNCHANGED <<Replied(Reply(<<Ident, Exch>>)), Replied(Reply(<<Exch>>)), Replied(Reply(<<>>))>>
    BY <1>1, <1>4, <2>1 DEF Replied, Keep, Kept, Msg, Under, SumFor
  <2>3. Responding'
    BY <1>1, <1>5, <1>8, <2>2 DEF Responding, MasterFrom, AwaitServer
  <2> QED BY <2>3 DEF GoesWell
<1>9. CASE ServerConcludes
  <2>1. ServerConcludes'
    BY <1>1, <1>4, <1>5, <1>9 DEF ServerConcludes, SumFor, AwaitServer
  <2> QED BY <2>1 DEF GoesWell
<1>10. CASE Resuming
  <2>1. PICK tickets : /\ Tickets(srv.sh, tickets) /\ Concluded(Keep(tickets))
                       /\ s2c = <<Msg("serverHello", srv.sh)>> \o (tickets \o Seal(srv))
    BY <1>10 DEF Resuming
  <2>2. Tickets(srv.sh, tickets)' /\ Concluded(Keep(tickets))'
    BY <1>1, <1>4, <2>1 DEF Tickets, Concluded, Keep, Kept, Msg, Under, SumFor
  <2>3. Resuming'
    BY <1>1, <1>4, <1>5, <1>10, <2>1, <2>2 DEF Resuming, Msg, Under
  <2> QED BY <2>3 DEF GoesWell
<1>11. CASE ClientConcludes
  <2>1. \A t : Concluded(Append(cli.rest, Msg("ticket", t)))' <=> Concluded(Append(cli.rest, Msg("ticket", t)))
    BY <1>1, <1>4 DEF Concluded, SumFor, Msg, Under
  <2>2. Concluded(cli.rest)' <=> Concluded(cli.rest)
    BY <1>1, <1>4 DEF Concluded, SumFor
  <2>3. ClientConcludes'
    BY <1>1, <1>4, <1>5, <1>11, <2>1, <2>2 DEF ClientConcludes, Msg, Under
  <2> QED BY <2>3 DEF GoesWell
<1> QED BY <1>3, <1>6, <1>7, <1>8, <1>9, <1>10, <1>11 DEF GoesWell

----------------------------------------------------------------------------
(* What is offered, and what a ticket is of.                               *)

\* The client's hello is that of its configuration with the session it offers.
LEMMA OfferStep ==
  ASSUME Shape, OfferInv, Effects PROVE OfferInv'
<1>0. DOMAIN cli = Fields
  BY DEF Shape
<1>1. CASE ClientGreets
  <2>1. PICK hello :
          /\ hello # None /\ hello = MakeClientHello(ccfg)
          /\ cli' = [cli EXCEPT !.pc = "serverHello", !.ch = Greeting(hello, Offered(hello)), !.offered = Offered(hello)]
    BY <1>1 DEF ClientGreets
  <2>2. cli'.ch = Greeting(hello, cli'.offered) /\ cli'.offered = Offered(hello)
    BY <1>0, <2>1 DEF Fields
  <2>3. cli'.ch.cipherSuites = hello.cipherSuites
    BY <2>2 DEF Greeting
  <2>4. cli'.offered # None => MutualCipherSuite(cli'.ch.cipherSuites, cli'.offered.suite) # None
    BY <2>2, <2>3 DEF Offered
  <2>5. UNCHANGED <<ccfg, conn>>
    BY <1>1 DEF ClientGreets, world
  <2>6. TheHello' = hello /\ hello # None
    BY <2>1, <2>5 DEF TheHello
  <2>7. cli'.ch = Greeting(TheHello, cli.offered)'
    BY <2>2, <2>5, <2>6 DEF Greeting
  <2> QED BY <2>4, <2>6, <2>7 DEF OfferInv, MutualCipherSuite
<1>2. CASE ~ClientGreets
  <2>1. \/ cli'.pc \in {"start", "failed"}
        \/ /\ cli.pc \notin {"start", "failed"} /\ cli'.ch = cli.ch /\ cli'.offered = cli.offered
           /\ UNCHANGED <<ccfg, conn>>
        \/ cli' = cli /\ UNCHANGED <<ccfg, conn>>
    <3> USE DEF world, Fields
    <3>1. CASE ClientGivesUp
      BY <1>0, <3>1 DEF ClientGivesUp
    <3>2. CASE ClientHears
      BY <1>0, <3>2 DEF ClientHears, ClientQuiet, ClientTakes, ClientReads
    <3>3. CASE ClientIdentifies
      BY <1>0, <3>3 DEF ClientIdentifies, ClientQuiet, ClientTakes, ClientReads, Logged
    <3>4. CASE ClientReadsOn
      BY <3>4 DEF ClientReadsOn, ClientQuiet, ClientTakes, ClientReads, Middle, Full
    <3>5. CASE ClientSealsFlight
      BY <3>5 DEF ClientSealsFlight, ClientReads, Middle, Full
    <3>6. CASE ClientKeepsTicket
      BY <1>0, <3>6 DEF ClientKeepsTicket, ClientQuiet, ClientTakes, ClientReads, Logged
    <3>7. CASE ClientRekeys
      BY <1>0, <3>7 DEF ClientRekeys, ClientQuiet, ClientTakes, ClientReads
    <3>8. CASE ClientCompletes
      BY <3>8 DEF ClientCompletes, ClientReads
    <3>9. CASE ServerSteps
      BY <3>9 DEF ServerSteps, ServerGivesUp, ServerRefuses, ServerGoesOn, ServerStarts, ServerReadsOn, ServerRekeys,
         ServerCompletes, ServerReadsHello, ServerQuiet, ServerTakes, ServerReads
    <3>10. CASE HelloDamaged \/ Idles
      BY <3>10 DEF HelloDamaged, Idles
    <3>11. CASE Begins
      BY <3>11 DEF Begins, Fresh
    <3> QED BY <1>2, <3>1, <3>2, <3>3, <3>4, <3>5, <3>6, <3>7, <3>8, <3>9, <3>10, <3>11 DEF Effects, ClientSteps
  <2>2. ASSUME UNCHANGED <<ccfg, conn>>, cli'.ch = cli.ch, cli'.offered = cli.offered
        PROVE  UNCHANGED <<TheHello, Greeting(TheHello, cli.offered)>>
    <3>1. TheHello' = TheHello
      BY <2>2 DEF TheHello
    <3> QED BY <2>2, <3>1 DEF Greeting
  <2> QED BY <2>1, <2>2 DEF OfferInv, MutualCipherSuite
<1> QED BY <1>1, <1>2

\* Sessions and tickets are each of one handshake.
LEMMA FitStep ==
  ASSUME Shape, ClientInv, ServerInv, HelloInv, FinishedInv, FitInv, Effects PROVE FitInv'
<1> USE DEF FitInv, Fits, Issued, Plain, Fields, world, Late
<1>0. /\ DOMAIN cli = Fields /\ DOMAIN srv = Fields /\ Later(c2s) \subseteq ToSet(c2s) /\ Later(s2c) \subseteq ToSet(s2c)
      /\ CacheKey(ccfg) \in DOMAIN cache
  BY DEF Shape, Later, ToSet, IsSeq
<1>1. CASE ClientGivesUp
  BY <1>1, <1>0 DEF ClientGivesUp, Ended, Evicted
<1>2. CASE ClientGreets
  <2>1. cli'.pc = "serverHello" /\ (cli'.offered # None => cli'.offered = cache[CacheKey(ccfg)])
    BY <1>0, <1>2 DEF ClientGreets, Offered, Stored
  <2>2. /\ s2c' = s2c /\ srv' = srv
        /\ \A k \in DOMAIN cache' : k \in DOMAIN cache /\ (cache'[k] # None => cache'[k] = cache[k])
    BY <1>0, <1>2 DEF ClientGreets
  <2> QED BY <1>0, <2>1, <2>2
<1>3. CASE ClientHears
  <2>1. /\ cli.pc = "serverHello" /\ cli'.pc \in {"ticket", "ccs", "certificate"}
        /\ cli'.offered = cli.offered /\ cli'.session = cli.session /\ ToSet(s2c') \subseteq ToSet(s2c)
        /\ UNCHANGED <<cache, srv>>
    BY <1>0, <1>3 DEF ClientHears, ClientQuiet, ClientTakes, ClientReads, AwaitServer
  <2>2. cli.session = None
    BY <2>1 DEF ClientInv
  <2> QED BY <2>1, <2>2
<1>4. CASE ClientIdentifies
  BY <1>4, <1>0 DEF ClientIdentifies, ClientQuiet, ClientTakes, ClientReads, ClientAdds, Logged
<1>5. CASE ClientReadsOn
  BY <1>5, <1>0 DEF ClientReadsOn, ClientQuiet, ClientTakes, ClientReads, ClientAdds, Middle, Full
<1>6. CASE ClientSealsFlight
  BY <1>6, <1>0 DEF ClientSealsFlight, ClientReads, Sealed, Middle, Full, ClientInv
<1>7. CASE ClientKeepsTicket
  <2>1. /\ cli'.pc = "ccs" /\ cli'.offered = cli.offered /\ cli'.sh = cli.sh /\ UNCHANGED <<cache, srv>>
        /\ ToSet(s2c') \subseteq ToSet(s2c) /\ Head(s2c) \in ToSet(s2c) /\ Head(s2c).type = "ticket"
    BY <1>0, <1>7 DEF ClientKeepsTicket, ClientQuiet, ClientTakes, ClientReads, Logged
  <2>2. cli'.session = [ticket |-> Head(s2c).body, vers |-> cli.sh.vers, suite |-> cli.sh.suite,
                        master |-> cli.master, cert |-> cli.peer,
                        verified |-> IF cli.resumed THEN cli.offered.verified ELSE ~ccfg.insecure]
    BY <1>0, <1>7 DEF ClientKeepsTicket, Logged
  <2>3. cli'.session.ticket = Head(s2c).body /\ cli'.session.vers = cli'.sh.vers /\ cli'.session.suite = cli'.sh.suite
    BY <2>1, <2>2
  <2> QED BY <2>1, <2>3
<1>8. CASE ClientRekeys
  BY <1>8, <1>0 DEF ClientRekeys, ClientQuiet, ClientTakes, ClientReads, ClientAdds
<1>9. CASE ClientCompletes
  <2>1. /\ cli'.offered = cli.offered /\ cli'.session = cli.session /\ cli'.sh = cli.sh /\ UNCHANGED srv
        /\ \A m \in ToSet(s2c') : m \in ToSet(s2c)
        /\ cache' = IF cli.session = None THEN cache ELSE [cache EXCEPT ![CacheKey(ccfg)] = cli.session]
        /\ cli.pc = "finished" /\ cli'.pc = "complete"
    BY <1>0, <1>9 DEF ClientCompletes, ClientReads
  <2>2. cli.sh = srv.sh /\ cli.master = srv.master
    <3>1. Head(s2c) \in ToSet(s2c) /\ Head(s2c).type = "finished" /\ Head(s2c).body = SumOf("server", cli)
      BY <1>9 DEF ClientCompletes, ClientReads
    <3> QED BY <3>1 DEF FinishedInv, ServerSigned, Signed, SumOf, Transcript
  <2>3. cli.session # None => Fits(cli.session)
    BY <2>1, <2>2 DEF ClientInv
  <2> QED BY <1>0, <2>1, <2>3
<1>10. CASE ServerGivesUp
  BY <1>10, <1>0 DEF ServerGivesUp, Ended
<1>11. CASE ServerRefuses
  BY <1>11, <1>0 DEF ServerRefuses, ServerReadsHello, ShowsHello, HelloInv
<1>12. CASE ServerGoesOn
  BY <1>12, <1>0 DEF ServerGoesOn, ServerReadsHello, Closes, Sealed, HelloInv, ShowsHello
<1>13. CASE ServerStarts
  BY <1>13, <1>0 DEF ServerStarts, ServerReadsHello, ShowsHello, HelloInv
<1>14. CASE ServerReadsOn
  BY <1>14, <1>0 DEF ServerReadsOn, ServerQuiet, ServerTakes, ServerReads, ServerAdds, ServerInv
<1>15. CASE ServerRekeys
  BY <1>15, <1>0 DEF ServerRekeys, ServerQuiet, ServerTakes, ServerReads, ServerAdds
<1>16. CASE ServerCompletes
  BY <1>16, <1>0 DEF ServerCompletes, ServerReads, Closes, Sealed
<1>17. CASE HelloDamaged
  <2>1. /\ \A m \in ToSet(s2c') : m.type = "ticket" => m \in ToSet(s2c)
        /\ UNCHANGED <<cache, cli, srv>>
    BY <1>0, <1>17 DEF HelloDamaged, Damaged
  <2> QED BY <2>1
<1>18. CASE Idles
  BY <1>18, <1>0 DEF Idles, net
<1>19. CASE Begins
  BY <1>19, <1>0 DEF Begins, Fresh, Ended
<1> QED BY <1>1, <1>2, <1>3, <1>4, <1>5, <1>6, <1>7, <1>8, <1>9, <1>10, <1>11, <1>12, <1>13,
           <1>14, <1>15, <1>16, <1>17, <1>18, <1>19 DEF Effects, ClientSteps, ServerSteps

----------------------------------------------------------------------------
(* Compatible ends succeed.                                                *)

\* An undisturbed handshake of compatible ends is in one of its phases.
Undisturbed == up /\ ~damaged /\ Compatible
GoodInv == FitInv /\ OfferInv /\ (Undisturbed => GoesWell)

\* No step of an undisturbed handshake leads out of the phases.
LEMMA UndisturbedStep ==
  ASSUME IInv, GoodInv, [Next]_vars, Undisturbed' PROVE GoesWell'
<1> USE DEF Undisturbed, GoodInv
<1>1. CASE Client \/ ClientCut \/ Server \/ ServerCut
  <2>1. UNCHANGED world
    <3>1. ClientSteps \/ ServerSteps
      BY <1>1, ClientDoes, ServerDoes DEF IInv, HelloInv, ServerInv
    <3> QED BY <3>1 DEF ClientSteps, ClientGivesUp, ClientGreets, ClientHears, ClientIdentifies, ClientReadsOn,
               ClientSealsFlight, ClientKeepsTicket, ClientRekeys, ClientCompletes, ClientQuiet, ClientTakes, ClientReads,
               ServerSteps, ServerGivesUp, ServerRefuses, ServerGoesOn, ServerStarts, ServerReadsOn, ServerRekeys,
               ServerCompletes, ServerReadsHello, ServerQuiet, ServerTakes, ServerReads
  <2>2. up /\ ~damaged /\ Compatible
    <3>1. UNCHANGED <<ccfg, scfg, now, up, damaged>>
      BY <2>1 DEF world
    <3>2. Compatible' <=> Compatible
      BY <3>1, Settled
    <3> QED BY <3>1, <3>2
  <2> QED BY <1>1, <2>2, ClientMovesOn, ServerMovesOn DEF IInv
<1>2. CASE Lose \/ DamageHello(Damages)
  BY <1>2 DEF Lose, DamageHello
<1>3. CASE Rotate \/ UNCHANGED vars
  <2>1. UNCHANGED <<ccfg, scfg, conn, now, up, damaged, cli, srv, net>>
    BY <1>3 DEF Rotate, vars, world
  <2>2. Compatible' <=> Compatible
    BY <2>1, Settled
  <2> QED BY <2>1, <2>2, Stays
<1>4. CASE Reconnect
  <2>1. Waiting'
    BY <1>4 DEF Reconnect, Waiting, Fresh
  <2> QED BY <2>1 DEF GoesWell
<1> QED BY <1>1, <1>2, <1>3, <1>4 DEF Next

\* Nor are the initial states outside of them.
LEMMA GoodInit == ASSUME Init PROVE GoodInv
<1>1. /\ cli = Fresh("start") /\ srv = Fresh("clientHello") /\ c2s = <<>> /\ s2c = <<>>
      /\ \A k \in DOMAIN cache : cache[k] = None
  BY DEF Init
<1>2. cli.pc = "start" /\ cli.offered = None /\ ToSet(s2c) = {}
  BY <1>1, Short DEF Fresh
<1>3. FitInv /\ OfferInv
  BY <1>1, <1>2 DEF FitInv, OfferInv, Late
<1>4. Waiting
  BY <1>1 DEF Waiting
<1> QED BY <1>3, <1>4 DEF GoodInv, GoesWell

\* In none of the phases an end has failed, but for that of TicketRejected.
LEMMA GoingWell == ASSUME GoesWell, ~TicketRejected PROVE cli.pc # "failed" /\ srv.pc # "failed"
<1>1. CASE Waiting \/ Asking
  BY <1>1 DEF Waiting, Asking, Fresh
<1>2. CASE Hearing \/ Reading
  BY <1>2 DEF Hearing, Reading, Answering, AtCertificate, AtStatus, AtExchange, AtRequest, AtDone
<1>3. CASE Responding \/ ServerConcludes
  BY <1>3 DEF Responding, ServerConcludes, AwaitServer
<1>4. CASE Resuming \/ ClientConcludes
  BY <1>4 DEF Resuming, ClientConcludes, Concluded
<1>5. CASE Over
  BY <1>5 DEF Over
<1> QED BY <1>1, <1>2, <1>3, <1>4, <1>5 DEF GoesWell

\* Ends whose configurations have all that a full handshake takes do not fail by
\* themselves: whatever processClientHello, doFullHandshake or doResumeHandshake
\* sends, clientHandshake accepts, and the other way round, up to the Finished
\* messages.
THEOREM CompatibleEndsSucceed == Spec => []CompatibleSucceeds
<1>1. Init => IInv /\ GoodInv
  BY InitInv, GoodInit
<1>2. IInv /\ GoodInv /\ [Next]_vars => IInv' /\ GoodInv'
  <2> SUFFICES ASSUME IInv, GoodInv, [Next]_vars PROVE IInv' /\ GoodInv'
    OBVIOUS
  <2>1. Effects
    BY StepDoes DEF IInv
  <2>2. FitInv' /\ OfferInv'
    BY <2>1, FitStep, OfferStep DEF IInv, GoodInv
  <2>3. Undisturbed' => GoesWell'
    BY UndisturbedStep
  <2> QED BY <2>2, <2>3, StepInv DEF GoodInv
<1>3. IInv /\ GoodInv => CompatibleSucceeds
  BY GoingWell DEF GoodInv, Undisturbed, CompatibleSucceeds
<1> QED BY <1>1, <1>2, <1>3, PTL DEF Spec
=============================================================================
