--------------------------- MODULE TlsHandshake13 ---------------------------
(***************************************************************************)
(* The handshake of TLS 1.3: src/tls/handshake_client_tls13.go against     *)
(* src/tls/handshake_server_tls13.go, with certificates or a pre-shared    *)
(* key from a ticket, with or without a HelloRetryRequest, and the ticket  *)
(* the client reads after its handshake.                                   *)
(*                                                                         *)
(* The key schedule (key_schedule.go) is symbolic: a traffic key is the    *)
(* record of its direction, its phase and everything it is derived from.   *)
(* Left out: what TLS 1.2 and 1.3 settle between them (both ends offer     *)
(* 1.3), the dummy ChangeCipherSpec (every reader drops it), early data    *)
(* and TLS_FALLBACK_SCSV (this client sends neither), the obfuscated age   *)
(* of a ticket (nobody reads it).                                          *)
(***************************************************************************)
EXTENDS Handshake

CONSTANT Lifetime  \* maxSessionTicketLifetime

ASSUME NewVersionOnly ==
  /\ Tls13
  /\ \A p \in Plans : \A c \in p.clients : VersionTLS13 \in ToSet(SupportedVersions(c, TRUE))
  /\ \A p \in Plans : \A c \in p.servers : VersionTLS13 \in ToSet(SupportedVersions(c, FALSE))
ASSUME LifetimeAssumption == Lifetime \in Nat

----------------------------------------------------------------------------
(***************************************************************************)
(* The key schedule.                                                       *)
(***************************************************************************)
\* The hashes hold a hello without its binder, which the rest determines.
Unbound(ch) == [ch EXCEPT !.binder = None]

Retry(e) == IF e.retry = None THEN None ELSE [ch |-> Unbound(e.retry.ch), sh |-> e.retry.sh]

\* Faulty: the server's hello is not part of the transcript.
HellosOfClient(e) == [retry |-> Retry(e), ch |-> Unbound(e.ch), sh |-> None]

Hellos(e) == [retry |-> Retry(e), ch |-> Unbound(e.ch), sh |-> e.sh]
Transcript(e) == [hellos |-> Hellos(e), rest |-> e.rest]

Secret(e) == [early |-> e.early, shared |-> e.shared]

HandshakeKey(role, e) == [role |-> role, phase |-> "handshake", secret |-> Secret(e), log |-> Hellos(e)]

\* Of the transcript up to the server's Finished.
TrafficKey(role, e) == [role |-> role, phase |-> "application", secret |-> Secret(e), log |-> Transcript(e)]

\* Of the transcript up to the client's Finished.
ResumptionSecret(e) == [phase |-> "resumption", secret |-> Secret(e), log |-> Transcript(e)]

\* The key of the MAC is the handshake key, of the same secret and hellos.
FinishedMAC(role, e) == [role |-> role, phase |-> "finished", secret |-> Secret(e), log |-> Transcript(e)]

\* The binder proves the knowledge of the secret behind a ticket; it covers the
\* hello it is part of (marshalWithoutBinders) and the retry before it.
Binder(psk, ch, retry) == [psk |-> psk, ch |-> Unbound(ch), retry |-> retry]

Share(group, role) == [group |-> group, of |-> <<role, conn>>]

\* What both ends compute from the two key shares.
SharedKey(clientShare, serverShare) == {clientShare, serverShare}

\* The scheme a key signs with in TLS 1.3, in the peer's order.
SignatureScheme(key, peerSchemes) ==
  FirstIn(peerSchemes, SignatureSchemesForCertificate(VersionTLS13, key))

\* CertificateVerify, over everything before it.
Signature(role, cert, peerSchemes, e) ==
  [role |-> role, key |-> cert.key, scheme |-> SignatureScheme(cert.key, peerSchemes), log |-> Transcript(e)]

GoodSignature(role, m, e) ==
  /\ m.scheme \in ToSet(SupportedSignatureAlgorithms)
  /\ m.scheme[1] # "pkcs1" /\ m.scheme[2] # 1
  /\ m.role = role /\ SignsWith(e.peer.key, m.scheme)
  /\ m.log = Transcript(e)

----------------------------------------------------------------------------
(***************************************************************************)
(* The client.                                                             *)
(***************************************************************************)
OfferedSuites(ch) == Among(ch.cipherSuites, ToSet(CipherSuitesTLS13))

\* loadSession: the session of a ticket that is still alive and whose hash is on offer.
Offered(ch) ==
  IF /\ Usable(ch) /\ now <= Stored.useBy
     /\ \E s \in ToSet(OfferedSuites(ch)) : HashTLS13(s) = HashTLS13(Stored.suite)
  THEN Stored ELSE None

\* loadSession deletes what has expired.
Dropped(ch) == Trusted(ch) /\ (Expired \/ (Usable(ch) /\ now > Stored.useBy))

\* A ClientHello with its pre-shared key and binder.
Greeting(hello, group, offered, retry) ==
  LET ch == [random |-> <<"client", conn>>, sessionId |-> conn, suites |-> OfferedSuites(hello),
             supportedCurves |-> hello.supportedCurves, alpnProtocols |-> hello.alpnProtocols,
             supportedSignatureAlgorithms |-> hello.supportedSignatureAlgorithms,
             serverName |-> hello.serverName, share |-> Share(group, "client"), pskModes |-> ccfg.tickets,
             ticket |-> IF offered = None THEN None ELSE offered.ticket, binder |-> None]
  IN  [ch EXCEPT !.binder = IF offered = None THEN None ELSE Binder(offered.master, ch, retry)]

ClientStart ==
  /\ cli.pc = "start"
  /\ LET hello == MakeClientHello(ccfg)
         ch    == Greeting(hello, hello.keyShares[1], Offered(hello), None) IN
     IF ccfg.server.name = <<>> /\ ~ccfg.insecure THEN ClientFails(<<>>)
     ELSE /\ cli' = [cli EXCEPT !.pc = "serverHello", !.ch = ch, !.offered = Offered(hello)]
          /\ c2s' = Send(c2s, <<Msg("clientHello", ch)>>)
          /\ cache' = IF Dropped(hello) THEN [cache EXCEPT ![CacheKey(ccfg)] = None] ELSE cache
          /\ UNCHANGED <<world, srv, s2c, sessions, burnt>>

\* checkServerHelloOrHRR; a retry and the hello after it name the same suite.
GoodServerHello(sh) ==
  /\ sh.sessionId = cli.ch.sessionId
  /\ sh.suite \in ToSet(cli.ch.suites)
  /\ cli.retry # None => sh.suite = cli.retry.sh.suite

\* Faulty: the binder of the first hello is sent again.
RetriedOldBinder(group, retry) ==
  LET fits == cli.offered # None /\ HashTLS13(cli.offered.suite) = HashTLS13(retry.sh.suite)
      ch   == [cli.ch EXCEPT !.share = Share(group, "client"), !.ticket = IF fits THEN @ ELSE None]
  IN  ch

\* The second hello: another share, the binder renewed, or no pre-shared key
\* when the suite that the server chose has another hash.
Retried(group, retry) ==
  LET fits == cli.offered # None /\ HashTLS13(cli.offered.suite) = HashTLS13(retry.sh.suite)
      ch   == [cli.ch EXCEPT !.share = Share(group, "client"), !.ticket = IF fits THEN @ ELSE None]
  IN  [ch EXCEPT !.binder = IF fits THEN Binder(cli.offered.master, ch, retry) ELSE None]

ClientRetry ==
  /\ cli.pc = "serverHello" /\ cli.retry = None /\ ClientGets("retry")
  /\ LET sh    == Head(s2c).body
         retry == [ch |-> cli.ch, sh |-> sh]
         ch    == Retried(sh.group, retry)
     IN  IF ~GoodServerHello(sh) \/ sh.group \notin ToSet(cli.ch.supportedCurves) \ {cli.ch.share.group}
         THEN ClientFails(<<>>)
         ELSE ClientSends([cli EXCEPT !.retry = retry, !.ch = ch], <<Msg("clientHello", ch)>>)

\* The early secret of a pre-shared key, or of none.
EarlySecret(psk) == <<"early", psk>>

ClientServerHello ==
  /\ cli.pc = "serverHello" /\ ClientGets("serverHello")
  /\ LET sh == Head(s2c).body
         e  == [cli EXCEPT !.pc = "parameters", !.sh = sh, !.resumed = sh.psk,
                  !.peer = IF sh.psk THEN cli.offered.cert ELSE None,
                  !.early = EarlySecret(IF sh.psk THEN cli.offered.master ELSE None),
                  !.shared = SharedKey(cli.ch.share, sh.share)]
     IN  IF \/ ~GoodServerHello(sh)
            \/ sh.share.group # cli.ch.share.group
            \/ sh.psk /\ cli.ch.ticket = None
            \/ sh.psk /\ HashTLS13(cli.offered.suite) # HashTLS13(sh.suite)
         THEN ClientFails(<<>>)
         ELSE ClientNext([e EXCEPT !.key = HandshakeKey("server", e), !.out = HandshakeKey("client", e)])

ClientParameters ==
  /\ cli.pc = "parameters" /\ ClientGets("extensions")
  /\ LET proto == Head(s2c).body IN
     IF proto # None /\ cli.ch.alpnProtocols = <<>> THEN ClientFails(<<>>)
     ELSE ClientNext([Logged(cli, Head(s2c)) EXCEPT
            !.pc = IF cli.resumed THEN "finished" ELSE "afterParameters", !.proto = proto])

ClientRequest ==
  /\ cli.pc = "afterParameters" /\ ClientGets("request")
  /\ ClientNext([Logged(cli, Head(s2c)) EXCEPT !.pc = "certificate", !.request = Head(s2c).body])

ClientCertificate ==
  /\ cli.pc \in {"afterParameters", "certificate"} /\ ClientGets("certificate")
  /\ IF ~AcceptsServer(Head(s2c).body) THEN ClientFails(<<>>)
     ELSE ClientNext([Logged(cli, Head(s2c)) EXCEPT !.pc = "verify", !.peer = Head(s2c).body])

ClientVerify ==
  /\ cli.pc = "verify" /\ ClientGets("verify")
  /\ IF ~GoodSignature("server", Head(s2c).body, cli) THEN ClientFails(<<>>)
     ELSE ClientNext([Logged(cli, Head(s2c)) EXCEPT !.pc = "finished"])

\* The certificate of the client, as the server will know it.
OwnCertificate ==
  IF cli.resumed THEN (CHOOSE s \in sessions : s.master = cli.offered.master).client
  ELSE IF cli.request = None THEN None
  ELSE GetClientCertificate(ccfg, VersionTLS13, cli.request.schemes, cli.request.acceptableCAs)

\* sendClientCertificate: nothing unless the server asked.
CertificateFlight(e) ==
  IF e.request = None THEN <<>> ELSE
  LET cert   == Under(e.out, "certificate", OwnCertificate)
      verify == Under(e.out, "verify", Signature("client", OwnCertificate, e.request.schemes, Logged(e, cert)))
  IN  IF OwnCertificate = None THEN <<cert>> ELSE <<cert, verify>>

GoodFinished(role, e, m) == m.body = FinishedMAC(role, e)

\* Faulty: the last flight stays in the buffer.
LastFlightUnflushed(flight, mac) == <<>>

LastFlight(flight, mac) == Append(flight, Under(cli.out, "finished", mac))

\* The server's Finished, and the client's last flight.
ClientFinished ==
  /\ cli.pc = "finished" /\ ClientGets("finished")
  /\ LET read   == Logged(cli, Head(s2c))
         flight == CertificateFlight(read)
         signed == LoggedAll(read, flight)
         done   == Logged(signed, Msg("finished", None))
     IN  IF ~GoodFinished("server", cli, Head(s2c)) THEN ClientFails(<<>>)
         ELSE /\ cli' = [done EXCEPT
                   !.pc = "complete", !.key = TrafficKey("server", read), !.out = TrafficKey("client", read),
                   !.peerSum = Head(s2c).body, !.sum = FinishedMAC("client", signed),
                   !.master = ResumptionSecret(done)]
              /\ s2c' = Tail(s2c)
              /\ c2s' = Send(c2s, LastFlight(flight, FinishedMAC("client", signed)))
              /\ sessions' = sessions \cup {[master |-> ResumptionSecret(done), client |-> OwnCertificate,
                                             server |-> cli.peer]}
              /\ UNCHANGED <<world, cache, srv, burnt>>

\* handleNewSessionTicket, when the connection is read after the handshake.
ClientTicket ==
  /\ cli.pc = "complete" /\ ClientGets("ticket")
  /\ s2c' = Tail(s2c)
  /\ cache' = IF ~ccfg.tickets THEN cache ELSE
       [cache EXCEPT ![CacheKey(ccfg)] =
          [ticket |-> Head(s2c).body, vers |-> VersionTLS13, suite |-> cli.sh.suite, master |-> cli.master,
           cert |-> cli.peer, verified |-> IF cli.resumed THEN cli.offered.verified ELSE ~ccfg.insecure,
           useBy |-> now + Lifetime]]
  /\ UNCHANGED <<world, cli, srv, c2s, sessions, burnt>>

ClientExpects ==
  CASE cli.pc = "serverHello"     -> {"serverHello"} \cup (IF cli.retry = None THEN {"retry"} ELSE {})
    [] cli.pc = "parameters"      -> {"extensions"}
    [] cli.pc = "afterParameters" -> {"request", "certificate"}
    [] OTHER                      -> {cli.pc}

ClientUnexpected ==
  /\ ~Ended(cli) /\ cli.pc # "start"
  /\ s2c # <<>>
  /\ Head(s2c).type \notin ClientExpects \/ Head(s2c).key # cli.key
  /\ ClientFails(<<>>)

Client ==
  \/ ClientStart \/ ClientRetry \/ ClientServerHello \/ ClientParameters \/ ClientRequest
  \/ ClientCertificate \/ ClientVerify \/ ClientFinished \/ ClientTicket \/ ClientUnexpected

----------------------------------------------------------------------------
(***************************************************************************)
(* The server.                                                             *)
(***************************************************************************)
PickSuite(ch) ==
  IF scfg.preferServer THEN FirstIn(DefaultCipherSuitesTLS13, ToSet(ch.suites))
  ELSE FirstIn(ch.suites, ToSet(DefaultCipherSuitesTLS13))

\* A group with a key share goes before a more preferred one without.
SelectedGroup(ch) ==
  IF MutualCurve(scfg, <<ch.share.group>>) # None THEN ch.share.group
  ELSE MutualCurve(scfg, ch.supportedCurves)

\* checkForResumption, but for the binder.
Resumes(ch, suite) ==
  LET state == Opened(ch.ticket) IN
  /\ ch.pskModes
  /\ state # None
  /\ now - state.createdAt <= Lifetime
  /\ HashTLS13(state.suite) = HashTLS13(suite)
  /\ CarriesOver(state.cert)

RequestsClientCert(e) == scfg.clientAuth # "NoClientCert" /\ ~e.resumed

\* Faulty: the ticket holds the certificate only of a full handshake.
SessionTicketFull(e) ==
  EncryptTicket([suite |-> e.sh.suite, createdAt |-> now, master |-> ResumptionSecret(e),
                 cert |-> IF e.resumed THEN None ELSE e.peer])

SessionTicket(e) ==
  EncryptTicket([suite |-> e.sh.suite, createdAt |-> now, master |-> ResumptionSecret(e), cert |-> e.peer])

\* Faulty: the secret of the ticket does not cover the client's Finished.
TicketsSentEarly(e) ==
  LET mac  == FinishedMAC("client", e)
      done == [Logged(e, Msg("finished", None)) EXCEPT !.pc = "finished", !.peerSum = mac]
  IN  [done EXCEPT !.session = IF scfg.tickets /\ e.ch.pskModes THEN SessionTicket(e) ELSE None]

\* sendSessionTickets: the Finished that the client will send is computed ahead,
\* for its check and for the secret of the ticket.
TicketsSent(e) ==
  LET mac  == FinishedMAC("client", e)
      done == [Logged(e, Msg("finished", None)) EXCEPT !.pc = "finished", !.peerSum = mac]
  IN  [done EXCEPT !.session = IF scfg.tickets /\ e.ch.pskModes THEN SessionTicket(done) ELSE None]

TicketFlight(e) == IF e.session = None THEN <<>> ELSE <<Under(e.out, "ticket", e.session)>>

\* sendServerParameters and sendServerCertificate, but for the signature.
Parameters(e, proto, cert) ==
  <<Msg("extensions", proto)>> \o
  (IF RequestsClientCert(e)
   THEN <<Msg("request", [schemes |-> SupportedSignatureAlgorithms, acceptableCAs |-> scfg.clientCAs])>>
   ELSE <<>>) \o
  (IF e.resumed THEN <<>> ELSE <<Msg("certificate", cert)>>)

\* The flight of an end that has its hellos and secrets, up to sendServerFinished.
ServerFlight(e, cert) ==
  LET proto  == IF e.ch.alpnProtocols = <<>> THEN None ELSE MutualProtocol(e.ch.alpnProtocols, scfg.protos)
      named  == LoggedAll(e, Parameters(e, proto, cert))
      verify == IF e.resumed THEN <<>>
                ELSE <<Msg("verify", Signature("server", cert, e.ch.supportedSignatureAlgorithms, named))>>
      signed == LoggedAll(named, verify)
      mac    == FinishedMAC("server", signed)
      flight == Parameters(e, proto, cert) \o verify \o <<Msg("finished", mac)>>
      sent   == [Logged(signed, Msg("finished", None)) EXCEPT
                   !.sum = mac, !.proto = proto, !.key = HandshakeKey("client", e)]
      done   == [sent EXCEPT !.out = TrafficKey("server", sent), !.master = TrafficKey("client", sent)]
      last   == IF RequestsClientCert(e) THEN [done EXCEPT !.pc = "certificate"]
                ELSE TicketsSent(done)
  IN  ServerNext(last, <<Msg("serverHello", e.sh)>> \o
                       [i \in DOMAIN flight |-> [flight[i] EXCEPT !.key = HandshakeKey("server", e)]] \o
                       TicketFlight(last))

\* The rest of the server's handshake up to its next read.
ServerAnswers(ch) ==
  LET suite  == PickSuite(ch)
      psk    == Resumes(ch, suite)
      state  == Opened(ch.ticket)
      cert   == GetCertificate(scfg, ch.serverName)
      share  == Share(ch.share.group, "server")
      sh     == [random |-> <<"server", conn>>, sessionId |-> ch.sessionId, suite |-> suite,
                 share |-> share, psk |-> psk]
      e      == [srv EXCEPT !.ch = ch, !.sh = sh, !.resumed = psk, !.offered = IF psk THEN state ELSE None,
                   !.peer = IF psk THEN state.cert ELSE None,
                   !.early = EarlySecret(IF psk THEN state.master ELSE None),
                   !.shared = SharedKey(ch.share, share)]
  IN  IF psk /\ (ch.binder # Binder(state.master, ch, srv.retry) \/ ~AcceptsClient(state.cert))
      THEN ServerFails(e, <<>>)
      ELSE IF ~psk /\ (cert = None \/ SignatureScheme(cert.key, ch.supportedSignatureAlgorithms) = None)
      THEN ServerFails(srv, <<>>)
      ELSE ServerFlight(e, cert)

ServerClientHello ==
  /\ srv.pc = "clientHello" /\ srv.retry = None /\ ServerGets("clientHello")
  /\ LET ch    == Head(c2s).body
         group == SelectedGroup(ch)
         retry == [random |-> "retry", sessionId |-> ch.sessionId, suite |-> PickSuite(ch), group |-> group]
     IN  IF PickSuite(ch) = None \/ group = None THEN ServerFails(srv, <<>>)
         ELSE IF group = ch.share.group THEN ServerAnswers(ch)
         ELSE ServerNext([srv EXCEPT !.retry = [ch |-> ch, sh |-> retry]], <<Msg("retry", retry)>>)

\* illegalClientHelloChange: only the share and the pre-shared key may differ.
SameHello(ch1, ch2) ==
  [ch1 EXCEPT !.share = None, !.ticket = None, !.binder = None] =
  [ch2 EXCEPT !.share = None, !.ticket = None, !.binder = None]

ServerSecondHello ==
  /\ srv.pc = "clientHello" /\ srv.retry # None /\ ServerGets("clientHello")
  /\ LET ch == Head(c2s).body IN
     IF ch.share.group # srv.retry.sh.group \/ ~SameHello(ch, srv.retry.ch) THEN ServerFails(srv, <<>>)
     ELSE ServerAnswers(ch)

\* What comes after the certificate and its proof.
ServerHeard(e) ==
  LET last == TicketsSent(e) IN ServerNext(last, TicketFlight(last))

ServerCertificate ==
  /\ srv.pc = "certificate" /\ ServerGets("certificate")
  /\ LET cert == Head(c2s).body
         e    == [Logged(srv, Head(c2s)) EXCEPT !.peer = cert] IN
     IF ~AcceptsClient(cert) THEN ServerFails(srv, <<>>)
     ELSE IF cert = None THEN ServerHeard(e)
     ELSE ServerNext([e EXCEPT !.pc = "verify"], <<>>)

ServerVerify ==
  /\ srv.pc = "verify" /\ ServerGets("verify")
  /\ IF ~GoodSignature("client", Head(c2s).body, srv) THEN ServerFails(srv, <<>>)
     ELSE ServerHeard(Logged(srv, Head(c2s)))

GoodClientFinished(m) == m.body = srv.peerSum

\* readClientFinished; master holds the client's traffic secret meanwhile.
ServerFinished ==
  /\ srv.pc = "finished" /\ ServerGets("finished")
  /\ IF ~GoodClientFinished(Head(c2s)) THEN ServerFails(srv, <<>>)
     ELSE ServerNext([srv EXCEPT !.pc = "complete", !.key = srv.master], <<>>)

ServerUnexpected ==
  /\ ~Ended(srv)
  /\ c2s # <<>>
  /\ Head(c2s).type # srv.pc \/ Head(c2s).key # srv.key
  /\ ServerFails(srv, <<>>)

Server ==
  \/ ServerClientHello \/ ServerSecondHello \/ ServerCertificate \/ ServerVerify
  \/ ServerFinished \/ ServerUnexpected

----------------------------------------------------------------------------
(***************************************************************************)
(* The specification.                                                      *)
(***************************************************************************)
\* What damage may make of a hello.
Damages(m) ==
  CASE m.type = "clientHello" ->
         {[m.body EXCEPT !.ticket = None, !.binder = None], [m.body EXCEPT !.alpnProtocols = <<>>],
          [m.body EXCEPT !.random = None], [m.body EXCEPT !.supportedCurves = Tail(@)]}
    [] m.type = "retry" -> {[m.body EXCEPT !.suite = "AES256_GCM_SHA384"], [m.body EXCEPT !.group = "P521"]}
    [] m.type = "serverHello" ->
         {[m.body EXCEPT !.psk = FALSE], [m.body EXCEPT !.suite = "AES128_GCM_SHA256"],
          [m.body EXCEPT !.random = None]}
    [] OTHER -> {m.body}

Next == Client \/ Server \/ ClientCut \/ ServerCut \/ DamageHello(Damages) \/ Lose \/ Rotate \/ Reconnect

Spec == Init /\ [][Next]_vars

\* Each end is one goroutine that runs whenever its next message is there: weak
\* fairness, with the readiness of the end in the place of ENABLED (its steps are
\* those that change it; nothing else does while it runs).
Fairness ==
  /\ <>[]ClientReady => []<><<cli' # cli>>_vars
  /\ <>[]ServerReady => []<><<srv' # srv>>_vars

FairSpec == Spec /\ Fairness

----------------------------------------------------------------------------
(***************************************************************************)
(* Properties, besides those of Handshake.                                 *)
(***************************************************************************)
\* What both ends have at the end of a handshake: suite, protocol, resumption,
\* and the traffic keys of the two directions.
Outcome(e, clientKey, serverKey) ==
  CASE e.pc = "complete" ->
         [state |-> "complete", suite |-> e.sh.suite, proto |-> e.proto, resumed |-> e.resumed,
          clientKey |-> clientKey, serverKey |-> serverKey]
    [] e.pc = "failed" -> Failed
    [] OTHER -> Running

Promise == INSTANCE Agreement WITH
  client <- Outcome(cli, cli.out, cli.key), server <- Outcome(srv, srv.key, srv.out)

\* Whatever is lost, damaged, retried or resumed, two ends that complete a
\* handshake have the same suite, protocol and traffic keys, and an outcome once
\* reached stays until the next connection.
Agrees == Promise!Spec

\* "precompute the client finished and roll the transcript forward to send
\* session tickets in our first flight": the secret the server has put into a
\* ticket before it heard the client is the one the client keeps with it.
TicketSecretsMatch ==
  \A k \in DOMAIN cache : cache[k] # None =>
    /\ cache[k].ticket.state.master = cache[k].master
    /\ cache[k].ticket.state.suite = cache[k].suite

\* The two configurations have all it takes for a full handshake.
Compatible ==
  LET ch      == MakeClientHello(ccfg)
      cert    == GetCertificate(scfg, ch.serverName)
      chain   == GetClientCertificate(ccfg, VersionTLS13, SupportedSignatureAlgorithms, scfg.clientCAs)
  IN  /\ ccfg.server.name = <<>> => ccfg.insecure
      /\ ToSet(CurvePreferences(ccfg)) \cap ToSet(CurvePreferences(scfg)) # {}
      /\ cert # None /\ SignatureScheme(cert.key, SupportedSignatureAlgorithms) # None
      /\ AcceptsServer(cert)
      /\ scfg.clientAuth # "NoClientCert" => AcceptsClient(chain)

\* The client certificate of a session is no longer good enough.
TicketRejected == srv.pc = "failed" /\ srv.offered # None /\ ~AcceptsClient(srv.offered.cert)

\* Ends that are compatible complete unless something happens to the
\* connection, retried or not: whatever one of them chooses the other accepts,
\* and every binder is right.  The exception is a session whose client
\* certificate does not pass any more; the server then fails where a full
\* handshake could have succeeded.
CompatibleSucceeds ==
  cli.pc = "failed" \/ srv.pc = "failed" => ~up \/ damaged \/ ~Compatible \/ TicketRejected
============================================================================
