--------------------------- MODULE TlsHandshake12 ---------------------------
(***************************************************************************)
(* The handshake of TLS 1.0 to 1.2: src/tls/handshake_client.go against    *)
(* src/tls/handshake_server.go, full and abbreviated.  Left out: SSL 3.0   *)
(* (the client never offers it), renegotiation and TLS_FALLBACK_SCSV       *)
(* (neither end starts them), next protocol negotiation (ALPN wins         *)
(* whenever both offer it), the callbacks of the configuration, the        *)
(* downgrade marks in the server's random (the client does not look).      *)
(***************************************************************************)
EXTENDS Handshake

ASSUME OldVersionsOnly == ~Tls13

\* The suites of a configuration, where it names any, are a list.
ASSUME SuitesAssumption ==
  \A p \in Plans : \A c \in p.clients \cup p.servers :
    c.cipherSuites # None => c.cipherSuites \in Seq(ToSet(c.cipherSuites))

\* None is none of the messages that have a body: not the hello of a server, not a
\* key exchange, not a certificate request.
ASSUME BodiesAssumption ==
  \A p \in Plans : \A c \in p.clients, s \in p.servers :
    /\ None \notin
         [vers : ToSet(AllVersions), random : {"server"} \X Nat, suite : ToSet(CipherSuites), sessionId : Nat,
          ticketSupported : BOOLEAN, ocspStapling : BOOLEAN,
          alpnProtocol : {None, MutualProtocol(c.protos, s.protos)}]
    /\ None \notin
         [curve : ToSet(DefaultCurves), sig : {"ecdsa", "pkcs1"} \X {0, 1, 256, 384, 512},
          signed : ({"client"} \X Nat) \X ({"server"} \X Nat)]
    /\ None \notin [schemes : {RequestedSchemes(v) : v \in ToSet(AllVersions)}, acceptableCAs : {s.clientCAs}]

----------------------------------------------------------------------------
(***************************************************************************)
(* Secrets and tickets.                                                    *)
(***************************************************************************)
MasterFrom(e, pre) ==
  [prf |-> PrfForVersion(e.sh.vers, e.sh.suite), pre |-> pre, cr |-> e.ch.random, sr |-> e.sh.random]

Keys(e) ==
  [vers |-> e.sh.vers, suite |-> e.sh.suite, master |-> e.master, cr |-> e.ch.random, sr |-> e.sh.random]

Transcript(e) == [ch |-> e.ch, sh |-> e.sh, rest |-> e.rest]

\* Faulty: the Finished covers the secret but not the messages.
SumOfSecret(role, e) ==
  [role |-> role, prf |-> PrfForVersion(e.sh.vers, e.sh.suite), master |-> e.master, log |-> None]

\* The verify data of a Finished message of the given sender.
SumOf(role, e) ==
  [role |-> role, prf |-> PrfForVersion(e.sh.vers, e.sh.suite), master |-> e.master, log |-> Transcript(e)]

\* Faulty: the Finished stays in the buffer.
FinishedFlightUnflushed(role, e) == <<Msg("ccs", None)>>

\* A Finished is the first message under the new keys.
FinishedFlight(role, e) ==
  <<Msg("ccs", None), Under(Keys(e), "finished", SumOf(role, e))>>

SessionTicket(e) ==
  EncryptTicket([vers |-> e.sh.vers, suite |-> e.sh.suite, master |-> e.master, cert |-> e.peer])

----------------------------------------------------------------------------
(***************************************************************************)
(* The client.                                                             *)
(***************************************************************************)
\* The rest of a ClientHello: its randoms, and the session it offers.
Greeting(ch, offered) ==
  [random |-> <<"client", conn>>, sessionId |-> conn, ticketSupported |-> ccfg.tickets,
   sessionTicket |-> IF offered = None THEN None ELSE offered.ticket,
   supportedVersions |-> ch.supportedVersions, cipherSuites |-> ch.cipherSuites,
   supportedCurves |-> ch.supportedCurves, alpnProtocols |-> ch.alpnProtocols,
   supportedSignatureAlgorithms |-> ch.supportedSignatureAlgorithms, serverName |-> ch.serverName,
   vers |-> ch.vers]

\* loadSession: in TLS 1.2 the session's suite must still be on offer.
Offered(ch) ==
  IF Usable(ch) /\ MutualCipherSuite(ch.cipherSuites, Stored.suite) # None THEN Stored ELSE None

ClientStart ==
  /\ cli.pc = "start"
  /\ LET ch == MakeClientHello(ccfg) IN
     IF ch = None \/ (ccfg.server.name = <<>> /\ ~ccfg.insecure) THEN ClientFails(<<>>)
     ELSE LET hello == Greeting(ch, Offered(ch))
          IN  /\ cli' = [cli EXCEPT !.pc = "serverHello", !.ch = hello, !.offered = Offered(ch)]
              /\ c2s' = Send(c2s, <<Msg("clientHello", hello)>>)
              /\ cache' = IF Trusted(ch) /\ Expired THEN [cache EXCEPT ![CacheKey(ccfg)] = None] ELSE cache
              /\ UNCHANGED <<world, srv, s2c, sessions, burnt>>

\* Faulty: a ticket is not expected.
AwaitServerTicketless(sh) == "ccs"

\* Faulty: without a ticket nothing is awaited.
AwaitServerDone(sh) == IF sh.ticketSupported THEN "ticket" ELSE "complete"

\* What the client reads once it has its master secret.
AwaitServer(sh) == IF sh.ticketSupported THEN "ticket" ELSE "ccs"

ServerResumedSession(sh) == cli.offered # None /\ sh.sessionId = cli.ch.sessionId

ClientServerHello ==
  /\ cli.pc = "serverHello" /\ ClientGets("serverHello")
  /\ LET sh == Head(s2c).body
         resumed == ServerResumedSession(sh) IN
     IF \/ MutualVersion(ccfg, TRUE, <<sh.vers>>) = None
        \/ MutualCipherSuite(cli.ch.cipherSuites, sh.suite) = None
        \/ sh.alpnProtocol # None /\ cli.ch.alpnProtocols = <<>>
        \/ resumed /\ (cli.offered.vers # sh.vers \/ cli.offered.suite # sh.suite)
     THEN ClientFails(<<>>)
     ELSE ClientNext([cli EXCEPT
            !.pc = IF resumed THEN AwaitServer(sh) ELSE "certificate",
            !.sh = sh, !.resumed = resumed,
            !.master = IF resumed THEN cli.offered.master ELSE None,
            !.peer = IF resumed THEN cli.offered.cert ELSE None])

ClientCertificate ==
  /\ cli.pc = "certificate" /\ ClientGets("certificate")
  /\ LET cert == Head(s2c).body IN
     IF cert = None \/ ~AcceptsServer(cert) THEN ClientFails(<<>>)
     ELSE ClientNext([Logged(cli, Head(s2c)) EXCEPT !.pc = "afterCertificate", !.peer = cert])

ClientStatus ==
  /\ cli.pc = "afterCertificate" /\ ClientGets("status")
  /\ IF ~cli.sh.ocspStapling THEN ClientFails(<<>>)
     ELSE ClientNext([Logged(cli, Head(s2c)) EXCEPT !.pc = "afterStatus"])

\* The signature covers both randoms and the parameters.
ClientKeyExchange ==
  /\ cli.pc \in {"afterCertificate", "afterStatus"} /\ ClientGets("keyExchange")
  /\ LET skx == Head(s2c).body IN
     IF /\ cli.sh.suite \in suiteECDHE
        /\ skx.signed = <<cli.ch.random, cli.sh.random>>
        /\ AcceptsKeyExchange(cli.sh.suite, cli.sh.vers, cli.ch, cli.peer, skx)
     THEN ClientNext([Logged(cli, Head(s2c)) EXCEPT !.pc = "afterExchange", !.kx = skx])
     ELSE ClientFails(<<>>)

ClientRequest ==
  /\ cli.pc \in {"afterCertificate", "afterStatus", "afterExchange"} /\ ClientGets("request")
  /\ ClientNext([Logged(cli, Head(s2c)) EXCEPT !.pc = "afterRequest", !.request = Head(s2c).body])

\* The certificate the client answers a request with, and its signature.
ChainToSend ==
  GetClientCertificate(ccfg, cli.sh.vers, cli.request.schemes, cli.request.acceptableCAs)

SigningScheme(cert) ==
  PickSignatureAlgorithm(cert.key, cli.request.schemes, SupportedSignatureAlgorithmsTLS12, cli.sh.vers)

PreMaster == [conn |-> conn, curve |-> IF cli.kx = None THEN None ELSE cli.kx.curve]

ClientHelloDone ==
  /\ cli.pc \in {"afterCertificate", "afterStatus", "afterExchange", "afterRequest"}
  /\ ClientGets("helloDone")
  /\ LET chain    == IF cli.request = None THEN None ELSE ChainToSend
         certs    == IF cli.request = None THEN <<>> ELSE <<Msg("certificate", chain)>>
         exchange == <<Msg("clientKeyExchange", PreMaster)>>
         logged   == LoggedAll(Logged(cli, Head(s2c)), certs \o exchange)
         verify   == IF chain = None THEN <<>>
                     ELSE <<Msg("verify", [scheme |-> SigningScheme(chain), signed |-> Transcript(logged)])>>
         done     == [LoggedAll(logged, verify) EXCEPT !.master = MasterFrom(cli, PreMaster)]
     IN  IF cli.sh.suite \in suiteECDHE /\ cli.kx = None THEN ClientFails(certs)
         ELSE IF chain # None /\ SigningScheme(chain) = None THEN ClientFails(certs \o exchange)
         ELSE ClientSends([Logged(done, Msg("finished", None)) EXCEPT
                             !.pc = AwaitServer(cli.sh), !.sum = SumOf("client", done)],
                          certs \o exchange \o verify \o FinishedFlight("client", done))

ClientTicket ==
  /\ cli.pc = "ticket" /\ ClientGets("ticket")
  /\ ClientNext([Logged(cli, Head(s2c)) EXCEPT
       !.pc = "ccs",
       !.session = [ticket |-> Head(s2c).body, vers |-> cli.sh.vers, suite |-> cli.sh.suite,
                    master |-> cli.master, cert |-> cli.peer,
                    verified |-> IF cli.resumed THEN cli.offered.verified ELSE ~ccfg.insecure]])

ClientChangeCipherSpec ==
  /\ cli.pc = "ccs" /\ ClientGets("ccs")
  /\ ClientNext([cli EXCEPT !.pc = "finished", !.key = Keys(cli)])

\* Faulty: whatever Finished arrives is good.
GoodFinishedAny(role, e, m) == TRUE

GoodFinished(role, e, m) == m.body = SumOf(role, e)

ClientFinished ==
  /\ cli.pc = "finished" /\ ClientGets("finished")
  /\ IF ~GoodFinished("server", cli, Head(s2c)) THEN ClientFails(<<>>)
     ELSE LET read == [Logged(cli, Head(s2c)) EXCEPT !.pc = "complete", !.peerSum = Head(s2c).body]
          IN  /\ cli' = IF cli.resumed THEN [read EXCEPT !.sum = SumOf("client", read)] ELSE read
              /\ c2s' = IF cli.resumed THEN Send(c2s, FinishedFlight("client", read)) ELSE c2s
              /\ s2c' = Tail(s2c)
              /\ cache' = IF cli.session = None THEN cache
                          ELSE [cache EXCEPT ![CacheKey(ccfg)] = cli.session]
              /\ UNCHANGED <<world, srv, sessions, burnt>>

ClientExpects(pc) ==
  CASE pc = "serverHello"      -> {"serverHello"}
    [] pc = "certificate"      -> {"certificate"}
    [] pc = "afterCertificate" -> {"status", "keyExchange", "request", "helloDone"}
    [] pc = "afterStatus"      -> {"keyExchange", "request", "helloDone"}
    [] pc = "afterExchange"    -> {"request", "helloDone"}
    [] pc = "afterRequest"     -> {"helloDone"}
    [] OTHER                   -> {pc}

\* Another message, an alert, the end of the stream, a record under another key.
ClientUnexpected ==
  /\ ~Ended(cli) /\ cli.pc # "start"
  /\ s2c # <<>>
  /\ Head(s2c).type \notin ClientExpects(cli.pc) \/ Head(s2c).key # cli.key
  /\ ClientFails(<<>>)

Client ==
  \/ ClientStart \/ ClientServerHello \/ ClientCertificate \/ ClientStatus \/ ClientKeyExchange
  \/ ClientRequest \/ ClientHelloDone \/ ClientTicket \/ ClientChangeCipherSpec \/ ClientFinished
  \/ ClientUnexpected

----------------------------------------------------------------------------
(***************************************************************************)
(* The server.                                                             *)
(***************************************************************************)
\* checkForResumption
Resumes(ch, vers, cert) ==
  LET state == Opened(ch.sessionTicket) IN
  /\ state # None
  /\ state.vers = vers
  /\ state.suite \in ToSet(ch.cipherSuites)
  /\ CanUseSuite(state.suite, ConfigSuites(scfg), vers, scfg, ch, cert)
  /\ CarriesOver(state.cert)

\* processClientHello: the hello of the server, but for what resumption decides.
ServerHello(ch, vers, suite) ==
  [vers |-> vers, random |-> <<"server", conn>>, suite |-> suite, sessionId |-> None,
   ticketSupported |-> FALSE, ocspStapling |-> FALSE,
   alpnProtocol |-> IF ch.alpnProtocols = <<>> THEN None
                    ELSE MutualProtocol(ch.alpnProtocols, scfg.protos)]

Answered(ch, sh) == [srv EXCEPT !.ch = ch, !.sh = sh]

\* doResumeHandshake, up to the end of the server's flight.
ServerResumes(ch, vers, cert) ==
  LET state  == Opened(ch.sessionTicket)
      sh     == [ServerHello(ch, vers, state.suite) EXCEPT
                   !.sessionId = ch.sessionId, !.ticketSupported = ch.sessionTicket.key # ticketKeys[1]]
      hello  == <<Msg("serverHello", sh)>>
      e      == [Answered(ch, sh) EXCEPT
                   !.resumed = TRUE, !.offered = state, !.peer = state.cert, !.master = state.master]
      ticket == IF sh.ticketSupported THEN <<Msg("ticket", SessionTicket(e))>> ELSE <<>>
      done   == LoggedAll(e, ticket)
  IN  IF ~AcceptsClient(state.cert) THEN ServerFails(Answered(ch, sh), hello)
      ELSE ServerNext([Logged(done, Msg("finished", None)) EXCEPT
                         !.pc = "ccs", !.sum = SumOf("server", done)],
                      hello \o ticket \o FinishedFlight("server", done))

\* The server key exchange, for the suites that have one.
Exchange(ch, sh, cert) ==
  IF sh.suite \notin suiteECDHE THEN <<>>
  ELSE LET kx == KeyExchange(sh.suite, sh.vers, scfg, ch, cert)
       IN  <<Msg("keyExchange", [curve |-> kx.curve, sig |-> kx.sig, signed |-> <<ch.random, sh.random>>])>>

Request(vers) ==
  IF scfg.clientAuth = "NoClientCert" THEN <<>>
  ELSE <<Msg("request", [schemes |-> RequestedSchemes(vers), acceptableCAs |-> scfg.clientCAs])>>

\* doFullHandshake, up to the hello done.
ServerStartsFull(ch, vers, suite, cert) ==
  LET sh     == [ServerHello(ch, vers, suite) EXCEPT
                   !.ticketSupported = ch.ticketSupported /\ scfg.tickets, !.ocspStapling = cert.staple]
      hello  == <<Msg("serverHello", sh)>>
      certs  == <<Msg("certificate", cert)>> \o (IF cert.staple THEN <<Msg("status", None)>> ELSE <<>>)
      flight == certs \o Exchange(ch, sh, cert) \o Request(vers) \o <<Msg("helloDone", None)>>
  IN  IF suite \in suiteECDHE /\ KeyExchange(suite, vers, scfg, ch, cert) = None
      THEN ServerFails(Answered(ch, sh), hello \o certs)
      ELSE ServerNext([LoggedAll(Answered(ch, sh), flight) EXCEPT
                         !.pc = IF scfg.clientAuth = "NoClientCert" THEN "clientKeyExchange" ELSE "certificate"],
                      hello \o flight)

ServerClientHello ==
  /\ srv.pc = "clientHello" /\ ServerGets("clientHello")
  /\ LET ch    == Head(c2s).body
         vers  == MutualVersion(scfg, FALSE, ClientVersions(ch))
         cert  == GetCertificate(scfg, ch.serverName)
         suite == PickCipherSuite(vers, scfg, ch, cert)
     IN  IF vers = None \/ cert = None THEN ServerFails(srv, <<>>)
         ELSE IF Resumes(ch, vers, cert) THEN ServerResumes(ch, vers, cert)
         ELSE IF suite = None THEN ServerFails(srv, <<>>)
         ELSE ServerStartsFull(ch, vers, suite, cert)

ServerCertificate ==
  /\ srv.pc = "certificate" /\ ServerGets("certificate")
  /\ IF ~AcceptsClient(Head(c2s).body) THEN ServerFails(srv, <<>>)
     ELSE ServerNext([Logged(srv, Head(c2s)) EXCEPT !.pc = "clientKeyExchange", !.peer = Head(c2s).body], <<>>)

ServerClientKeyExchange ==
  /\ srv.pc = "clientKeyExchange" /\ ServerGets("clientKeyExchange")
  /\ ServerNext([Logged(srv, Head(c2s)) EXCEPT
       !.pc = IF srv.peer = None THEN "ccs" ELSE "verify",
       !.master = MasterFrom(srv, Head(c2s).body)], <<>>)

ServerVerify ==
  /\ srv.pc = "verify" /\ ServerGets("verify")
  /\ IF /\ Head(c2s).body.signed = Transcript(srv)
        /\ PickSignatureAlgorithm(srv.peer.key, <<Head(c2s).body.scheme>>,
                                  SupportedSignatureAlgorithmsTLS12, srv.sh.vers) # None
     THEN ServerNext([Logged(srv, Head(c2s)) EXCEPT !.pc = "ccs"], <<>>)
     ELSE ServerFails(srv, <<>>)

ServerChangeCipherSpec ==
  /\ srv.pc = "ccs" /\ ServerGets("ccs")
  /\ ServerNext([srv EXCEPT !.pc = "finished", !.key = Keys(srv)], <<>>)

\* History: the ends of a full handshake.
Established == [master |-> srv.master, client |-> srv.peer, server |-> GetCertificate(scfg, srv.ch.serverName)]

\* After the client's Finished a full handshake still has the server's flight.
ServerFinished ==
  /\ srv.pc = "finished" /\ ServerGets("finished")
  /\ LET read   == [Logged(srv, Head(c2s)) EXCEPT !.pc = "complete", !.peerSum = Head(c2s).body]
         ticket == IF srv.sh.ticketSupported THEN <<Msg("ticket", SessionTicket(srv))>> ELSE <<>>
         done   == LoggedAll(read, ticket)
     IN  IF ~GoodFinished("client", srv, Head(c2s)) THEN ServerFails(srv, <<>>)
         ELSE /\ srv' = IF srv.resumed THEN read ELSE [done EXCEPT !.sum = SumOf("server", done)]
              /\ s2c' = IF srv.resumed THEN s2c
                        ELSE Send(s2c, ticket \o FinishedFlight("server", done))
              /\ c2s' = Tail(c2s)
              /\ sessions' = IF srv.resumed THEN sessions ELSE sessions \cup {Established}
              /\ UNCHANGED <<world, cache, cli, burnt>>

ServerUnexpected ==
  /\ ~Ended(srv)
  /\ c2s # <<>>
  /\ Head(c2s).type # srv.pc \/ Head(c2s).key # srv.key
  /\ ServerFails(srv, <<>>)

Server ==
  \/ ServerClientHello \/ ServerCertificate \/ ServerClientKeyExchange \/ ServerVerify
  \/ ServerChangeCipherSpec \/ ServerFinished \/ ServerUnexpected

----------------------------------------------------------------------------
(***************************************************************************)
(* The specification.                                                      *)
(***************************************************************************)
\* What damage may make of a hello.
Damages(m) ==
  CASE m.type = "clientHello" ->
         {[m.body EXCEPT !.sessionTicket = None], [m.body EXCEPT !.alpnProtocols = <<>>],
          [m.body EXCEPT !.supportedVersions = <<VersionTLS10>>], [m.body EXCEPT !.random = None]}
    [] m.type = "serverHello" ->
         {[m.body EXCEPT !.sessionId = None], [m.body EXCEPT !.alpnProtocol = None],
          [m.body EXCEPT !.vers = VersionTLS10], [m.body EXCEPT !.random = None]}
    [] OTHER -> {m.body}

Next == Client \/ Server \/ ClientCut \/ ServerCut \/ DamageHello(Damages) \/ Lose \/ Rotate \/ Reconnect

Spec == Init /\ [][Next]_vars

\* Each end is one goroutine that runs whenever its next message is there: weak
\* fairness, with the readiness of the end in the place of ENABLED (its steps are
\* those that change it; nothing else does while it runs).
Fairness ==
  /\ <>[]ClientReady => []<><<cli' # cli>>_vars
  /\ <>[]ServerReady => []<><<srv' # srv>>_vars

FairSpec == Spec /\ Fairness

----------------------------------------------------------------------------
(***************************************************************************)
(* Properties.                                                             *)
(***************************************************************************)
\* What ConnectionState reports of a handshake (TLSUnique is the client's Finished).
Outcome(e, clientSum) ==
  CASE e.pc = "complete" ->
         [state |-> "complete", vers |-> e.sh.vers, suite |-> e.sh.suite, proto |-> e.sh.alpnProtocol,
          master |-> e.master, resumed |-> e.resumed, unique |-> IF e.resumed THEN None ELSE clientSum]
    [] e.pc = "failed" -> Failed
    [] OTHER -> Running

Promise == INSTANCE Agreement WITH client <- Outcome(cli, cli.sum), server <- Outcome(srv, srv.peerSum)

\* Whatever is lost, damaged or resumed, two ends that complete a handshake
\* have the same version, suite, secret, protocol and channel binding, and an
\* outcome once reached stays until the next connection.
Agrees == Promise!Spec

\* The end whose Finished comes last completes last: the server of an
\* abbreviated handshake, the client of a full one.
LastFlight ==
  /\ cli.pc = "complete" /\ ~cli.resumed => srv.pc = "complete"
  /\ srv.pc = "complete" /\ srv.resumed => cli.pc = "complete"

\* The two configurations have all it takes for a full handshake.
Compatible ==
  LET ch      == MakeClientHello(ccfg)
      vers    == MutualVersion(scfg, FALSE, ch.supportedVersions)
      cert    == GetCertificate(scfg, ch.serverName)
      suite   == PickCipherSuite(vers, scfg, ch, cert)
      schemes == RequestedSchemes(vers)
      chain   == GetClientCertificate(ccfg, vers, schemes, scfg.clientCAs)
  IN  /\ ch # None
      /\ ccfg.server.name = <<>> => ccfg.insecure
      /\ vers # None /\ cert # None /\ suite # None
      /\ suite \in suiteECDHE => KeyExchange(suite, vers, scfg, ch, cert) # None
      /\ AcceptsServer(cert)
      /\ scfg.clientAuth # "NoClientCert" =>
           /\ AcceptsClient(chain)
           /\ chain # None =>
                PickSignatureAlgorithm(chain.key, schemes, SupportedSignatureAlgorithmsTLS12, vers) # None

\* The certificate a session was established with is no longer good enough.
TicketRejected == srv.pc = "failed" /\ srv.sh # None /\ srv.sh.sessionId # None

\* Ends that are compatible complete unless something happens to the
\* connection: whatever one of them chooses the other accepts.  The exception
\* is a session whose client certificate does not pass any more; the server
\* then fails where a full handshake could have succeeded.
CompatibleSucceeds ==
  cli.pc = "failed" \/ srv.pc = "failed" => ~up \/ damaged \/ ~Compatible \/ TicketRejected
============================================================================
