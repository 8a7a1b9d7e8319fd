------------------------ MODULE TlsHandshake13Proofs ------------------------
(***************************************************************************)
(* Theorems about TlsHandshake13, for any configurations, any number of    *)
(* connections, faults and ticket keys, and any clock.                     *)
(*                                                                         *)
(* First the inductive invariant; then what each step does to the parts    *)
(* of the state that matter, as a formula that says nothing of flights and *)
(* logs (ClientGreets, ..., ServerCompletes; together Effects); then that  *)
(* each part of the invariant survives every such effect.                  *)
(***************************************************************************)
EXTENDS TlsHandshake13, HandshakeProofs

----------------------------------------------------------------------------
(* The inductive invariant.                                                *)

\* The fields of a client's hello.
HelloFields ==
  {"random", "sessionId", "suites", "supportedCurves", "alpnProtocols", "supportedSignatureAlgorithms",
   "serverName", "share", "pskModes", "ticket", "binder"}

\* The places of a client that has the server's hello, and of a server that has answered.
Keyed == {"parameters", "afterParameters", "certificate", "verify", "finished", "complete"}
Answering == {"certificate", "verify", "finished", "complete"}

\* The shape of the state.
Shape ==
  /\ DOMAIN cli = Fields /\ DOMAIN srv = Fields
  /\ cli.pc \in {"start", "serverHello", "failed"} \cup Keyed
  /\ srv.pc \in {"clientHello", "failed"} \cup Answering
  /\ NetShape
  /\ conn \in Nat \ {0}
  /\ plan \in Plans /\ ccfg \in plan.clients /\ scfg \in plan.servers
  /\ DOMAIN cache = {CacheKey(c) : c \in plan.clients}

\* A Finished, and what is derived from the log it covers and itself: the next
\* Finished when nothing comes in between, the traffic keys, the secret of a ticket.
End == Msg("finished", None)
After(sum) == [hellos |-> sum.log.hellos, rest |-> Append(sum.log.rest, End)]

\* The Finished, the traffic key and the resumption secret derived from it.
FinishedOf(role, sum) == [role |-> role, phase |-> "finished", secret |-> sum.secret, log |-> After(sum)]
TrafficOf(role, sum) == [role |-> role, phase |-> "application", secret |-> sum.secret, log |-> After(sum)]
ResumptionOf(sum) == [phase |-> "resumption", secret |-> sum.secret, log |-> After(sum)]

\* The hellos and the secret of an end are those its Finished covers.
Covers(sum, e) == sum.secret = Secret(e) /\ sum.log.hellos = Hellos(e)

\* A log of the server's flight: the protocol comes first, and whoever was asked
\* for a certificate finds the request in it.
Names1(r, proto) == IsSeq(r) /\ r # <<>> /\ r[1] = Msg("extensions", proto)
Requested(r) == \E m \in ToSet(r) : m.type = "request"

\* The client on its own.
ClientInv ==
  /\ cli.pc = "start" => cli = Fresh("start")
  /\ cli.pc \in {"serverHello", "parameters"} => cli.rest = <<>> /\ cli.request = None
  /\ cli.pc \in {"serverHello"} \cup Keyed =>
       /\ DOMAIN cli.ch = HelloFields /\ cli.ch.share.of = <<"client", conn>>
       /\ cli.ch.ticket # None => cli.offered # None /\ cli.ch.ticket = cli.offered.ticket
  /\ cli.pc \in Keyed =>
       /\ cli.resumed = cli.sh.psk
       /\ cli.early = EarlySecret(IF cli.resumed THEN cli.offered.master ELSE None)
       /\ cli.shared = SharedKey(cli.ch.share, cli.sh.share)
       /\ cli.resumed => cli.offered # None /\ cli.peer = cli.offered.cert
  /\ cli.pc \in {"afterParameters", "certificate", "verify"} => ~cli.resumed
  /\ cli.pc \in Keyed \ {"parameters", "complete"} =>
       Names1(cli.rest, cli.proto) /\ (cli.request # None => Requested(cli.rest))
  /\ cli.pc = "complete" =>
       /\ Covers(cli.peerSum, cli) /\ Names1(cli.peerSum.log.rest, cli.proto)
       /\ cli.request # None => Requested(cli.peerSum.log.rest)
       /\ cli.key = TrafficOf("server", cli.peerSum) /\ cli.out = TrafficOf("client", cli.peerSum)
       /\ cli.master = ResumptionOf(cli.sum)

\* The server asks for a certificate.
Asks == RequestsClientCert(srv)

\* A handshake with this client was completed.
Known(master, client) == \E s \in sessions : s.master = master /\ s.client = client

\* A server that has sent its Finished, and all that is settled with it.
ServerSigned ==
  /\ srv.pc # "clientHello"
  /\ Covers(srv.sum, srv) /\ Names1(srv.sum.log.rest, srv.proto)
  /\ Requested(srv.sum.log.rest) => Asks
  /\ srv.out = TrafficOf("server", srv.sum)
  /\ srv.pc # "failed" => (IF srv.pc = "complete" THEN srv.key ELSE srv.master) = TrafficOf("client", srv.sum)
  /\ srv.sh.psk = srv.resumed /\ srv.sh.share.of = <<"server", conn>>
  /\ srv.early = EarlySecret(IF srv.resumed THEN srv.offered.master ELSE None)
  /\ srv.resumed => srv.peer = srv.offered.cert /\ Known(srv.offered.master, srv.peer)
  /\ ~srv.resumed /\ ~Asks => srv.peer = None

\* The server on its own.
ServerInv ==
  /\ srv.pc = "clientHello" => srv = [Fresh("clientHello") EXCEPT !.retry = srv.retry]
  /\ srv.pc \in Answering => ServerSigned
  /\ srv.pc = "certificate" => Asks /\ srv.rest = After(srv.sum).rest
  /\ srv.pc = "verify" =>
       /\ Asks /\ cli.pc = "complete" /\ srv.peer # None
       /\ srv.rest = Append(After(srv.sum).rest, Msg("certificate", srv.peer))

\* The server knows the Finished that the client will send, or has sent.
Heard ==
  IF Asks THEN cli.pc = "complete" /\ srv.peerSum = cli.sum ELSE srv.peerSum = FinishedOf("client", srv.sum)

\* A ticket of this handshake, and one of an earlier one.
Granted == \E m \in ToSet(s2c) : m.type = "ticket"
Grants(t, e) == t.state.master = ResumptionOf(e.peerSum) /\ t.state.suite = e.sh.suite /\ t.state.cert = e.peer
TicketOk(t) == Known(t.state.master, t.state.cert)

\* What is on its way.
WireInv ==
  /\ \A m \in ToSet(c2s) :
       /\ m.type = "clientHello" => DOMAIN m.body = HelloFields /\ (m.body.ticket # None => TicketOk(m.body.ticket))
       /\ m.type \in {"certificate", "finished"} => cli.pc = "complete"
  /\ \A m \in ToSet(s2c) :
       /\ m.type = "finished" => m.body = srv.sum /\ ServerSigned
       /\ m.type = "ticket" => Grants(m.body, srv) /\ ServerSigned

\* How far the two ends are.
OrderInv ==
  /\ srv.pc \in {"finished", "complete"} \/ Granted => Heard
  /\ cli.pc = "complete" => cli.peerSum = srv.sum /\ ServerSigned
  /\ srv.pc = "complete" => cli.pc = "complete"
  /\ Granted => srv.pc \in {"finished", "complete", "failed"}

\* The client's Finished, when it has sent this certificate.
CertificateLog(cert) ==
  IF cert = None THEN <<Msg("certificate", None)>> ELSE <<Msg("certificate", cert), Msg("verify", None)>>
Answer(sum, cert) ==
  [role |-> "client", phase |-> "finished", secret |-> sum.secret,
   log |-> [hellos |-> sum.log.hellos, rest |-> Append(sum.log.rest, End) \o CertificateLog(cert)]]
\* The client's Finished, by what the server has asked of it.
Own(e, cert) == e.sum = IF e.request = None THEN FinishedOf("client", e.peerSum) ELSE Answer(e.peerSum, cert)

\* What the client has established, with which certificate of its own.
OwnInv ==
  cli.pc = "complete" => \E x \in sessions :
    /\ x.master = cli.master /\ x.server = cli.peer /\ Own(cli, x.client)
    /\ \A m \in ToSet(c2s) : m.type = "certificate" => m.body = x.client /\ cli.request # None
    /\ srv.pc \in {"verify", "finished", "complete"} \/ Granted => srv.peer = x.client
    /\ srv.pc = "verify" => cli.request # None

\* Sessions go back to a handshake that was completed, with the secret in the ticket.
SessionOk(s) ==
  /\ \E x \in sessions : x.master = s.master /\ x.server = s.cert
  /\ TicketOk(s.ticket)
  /\ s.ticket.state.master = s.master /\ s.ticket.state.suite = s.suite

\* The sessions of the cache, and the one on offer.
SessionInv ==
  /\ \A k \in DOMAIN cache : cache[k] # None => SessionOk(cache[k])
  /\ cli.offered # None => SessionOk(cli.offered)

\* No two handshakes have the same secret.
BornBy(master, n) == \A p \in master.secret.shared : \E i \in 1 .. n : p.of \in {<<"client", i>>, <<"server", i>>}
BornInv ==
  /\ \A s \in sessions : BornBy(s.master, IF cli.pc = "complete" THEN conn ELSE conn - 1)
  /\ \A s, t \in sessions : s.master = t.master => s.client = t.client

\* Whom each end accepts.
PeerInv ==
  /\ conn > 1 => conn <= plan.conns
  /\ \A k \in DOMAIN cache : cache[k] # None => conn > 1 \/ cli.pc = "complete"
  /\ \A k \in DOMAIN cache : cache[k] # None /\ cache[k].verified =>
       \E c \in plan.clients : cache[k].cert.issuer \in c.roots
  /\ cli.offered # None /\ ~ccfg.insecure =>
       cli.offered.verified /\ Verify(cli.offered.cert, ccfg.roots, ccfg.server.name)
  /\ cli.offered # None /\ cli.offered.verified => \E c \in plan.clients : cli.offered.cert.issuer \in c.roots
  /\ cli.pc \in {"verify", "finished", "complete"} => AcceptsServer(cli.peer)

\* The server's client is one its configuration lets in.
PolicyInv ==
  srv.pc \in {"verify", "finished", "complete"} =>
    AcceptsClient(srv.peer) /\ (scfg.clientAuth = "NoClientCert" => srv.peer = None)

\* The inductive invariant. PeerInv stands apart: it needs SameRoots.
IInv == Shape /\ ClientInv /\ ServerInv /\ WireInv /\ OrderInv /\ OwnInv /\ SessionInv /\ BornInv /\ PolicyInv

----------------------------------------------------------------------------
(* What the client's steps do.                                             *)

\* A failing return.
ClientGivesUp ==
  /\ ~Ended(cli) /\ cli' = [cli EXCEPT !.pc = "failed"]
  /\ ToSet(c2s') \subseteq ToSet(c2s) \cup {Close} /\ ToSet(s2c') = {}
  /\ cache' = Evicted
  /\ UNCHANGED <<world, srv, sessions>>

\* ClientFails is one.
LEMMA ClientQuits == ASSUME NetShape, ~Ended(cli), ClientFails(<<>>) PROVE ClientGivesUp /\ NetShape'
<1>1. /\ NetShape' /\ ToSet(s2c') = {} /\ ToSet(c2s') \subseteq ToSet(c2s) \cup (ToSet(<<>>) \cup {Close})
      /\ cli' = [cli EXCEPT !.pc = "failed"] /\ cache' = Evicted /\ UNCHANGED <<world, srv, sessions>>
  BY NothingSent, ClientFailsNet
<1> QED BY <1>1, NothingSent DEF ClientGivesUp

\* The first hello, with the ticket of a stored session when it has one.
ClientGreets ==
  /\ cli.pc = "start"
  /\ \E hello :
       /\ cli' = [cli EXCEPT !.pc = "serverHello", !.ch = Greeting(hello, hello.keyShares[1], Offered(hello), None),
                             !.offered = Offered(hello)]
       /\ DOMAIN cli'.ch = HelloFields /\ cli'.ch.share.of = <<"client", conn>>
       /\ cli'.ch.ticket = IF Offered(hello) = None THEN None ELSE Offered(hello).ticket
  /\ ToSet(c2s') \subseteq ToSet(c2s) \cup {Msg("clientHello", cli'.ch)}
  /\ cache' \in {cache, [cache EXCEPT ![CacheKey(ccfg)] = None]}
  /\ UNCHANGED <<world, srv, s2c, sessions>>

\* ClientStart greets or gives up.
LEMMA StartDoes ==
  ASSUME NetShape, DOMAIN cli = Fields, ClientStart PROVE (ClientGivesUp \/ ClientGreets) /\ NetShape'
<1>1. CASE ccfg.server.name = <<>> /\ ~ccfg.insecure
  BY <1>1, ClientQuits DEF ClientStart, Ended
<1>2. CASE ~(ccfg.server.name = <<>> /\ ~ccfg.insecure)
  <2> DEFINE hello == MakeClientHello(ccfg)
             ch    == Greeting(hello, hello.keyShares[1], Offered(hello), None)
  <2>1. /\ cli.pc = "start" /\ cli' = [cli EXCEPT !.pc = "serverHello", !.ch = ch, !.offered = Offered(hello)]
        /\ c2s' = Send(c2s, <<Msg("clientHello", ch)>>)
        /\ cache' \in {cache, [cache EXCEPT ![CacheKey(ccfg)] = None]}
        /\ UNCHANGED <<world, srv, s2c, sessions>>
    BY <1>2 DEF ClientStart
  <2>2. /\ DOMAIN ch = HelloFields /\ ch.share.of = <<"client", conn>>
        /\ ch.ticket = IF Offered(hello) = None THEN None ELSE Offered(hello).ticket
    BY DEF Greeting, HelloFields, Share
  <2> HIDE DEF hello, ch
  <2>3. cli'.ch = ch
    BY <2>1 DEF Fields
  <2>4. Wire(<<Msg("clientHello", ch)>>) /\ ToSet(<<Msg("clientHello", ch)>>) = {Msg("clientHello", ch)}
    BY Headers, Short DEF Wire
  <2>5. /\ IsSeq(c2s') /\ ToSet(c2s') \subseteq ToSet(c2s) \cup {Msg("clientHello", ch)}
    BY <2>1, <2>4, Sent DEF NetShape, Wire
  <2>6. NetShape'
    BY <2>1, <2>4, <2>5 DEF NetShape, Wire
  <2>7. ClientGreets
    BY <2>1, <2>2, <2>3, <2>5 DEF ClientGreets, ch
  <2> QED BY <2>6, <2>7
<1> QED BY <1>1, <1>2

\* The second hello.
ClientRetries ==
  /\ cli.pc = "serverHello"
  /\ \E retry, ch :
       /\ cli' = [cli EXCEPT !.retry = retry, !.ch = ch]
       /\ DOMAIN ch = HelloFields /\ ch.share.of = <<"client", conn>> /\ ch.ticket \in {cli.ch.ticket, None}
       /\ ClientTakes({Msg("clientHello", ch)})
  /\ UNCHANGED <<cache, sessions>>

\* ClientRetry sends it or gives up.
LEMMA RetryDoes ==
  ASSUME NetShape, ClientInv, ClientRetry PROVE (ClientGivesUp \/ ClientRetries) /\ NetShape'
<1> DEFINE sh    == Head(s2c).body
           retry == [ch |-> cli.ch, sh |-> sh]
           ch    == Retried(sh.group, retry)
<1>1. cli.pc = "serverHello" /\ s2c # <<>> /\ ~Ended(cli) /\ DOMAIN cli.ch = HelloFields
  BY DEF ClientRetry, ClientGets, Ended, ClientInv
<1>2. ClientFails(<<>>) \/ ClientSends([cli EXCEPT !.retry = retry, !.ch = ch], <<Msg("clientHello", ch)>>)
  BY DEF ClientRetry
<1>3. DOMAIN ch = HelloFields /\ ch.share.of = <<"client", conn>> /\ ch.ticket \in {cli.ch.ticket, None}
  BY <1>1 DEF Retried, HelloFields, Share
<1> HIDE DEF retry, ch
<1>4. Wire(<<Msg("clientHello", ch)>>) /\ ToSet(<<Msg("clientHello", ch)>>) = {Msg("clientHello", ch)}
  BY Headers, Short DEF Wire
<1>5. ASSUME ClientSends([cli EXCEPT !.retry = retry, !.ch = ch], <<Msg("clientHello", ch)>>)
      PROVE  ClientRetries /\ NetShape'
  <2>1. /\ cli' = [cli EXCEPT !.retry = retry, !.ch = ch] /\ ClientTakes({Msg("clientHello", ch)})
        /\ NetShape' /\ UNCHANGED <<cache, sessions>>
    BY <1>1, <1>4, <1>5, ClientSendsNet
  <2> QED BY <1>1, <1>3, <2>1 DEF ClientRetries
<1> QED BY <1>1, <1>2, <1>5, ClientQuits

\* The server's hello: the secrets of the handshake, and whether it is resumed.
ClientHears ==
  /\ cli.pc = "serverHello" /\ ClientQuiet
  /\ DOMAIN cli' = Fields /\ cli'.pc = "parameters"
  /\ cli'.sh = Head(s2c).body /\ cli'.resumed = cli'.sh.psk
  /\ cli'.early = EarlySecret(IF cli'.sh.psk THEN cli.offered.master ELSE None)
  /\ cli'.shared = SharedKey(cli.ch.share, cli'.sh.share)
  /\ cli'.sh.psk => cli.ch.ticket # None /\ cli'.peer = cli.offered.cert
  /\ \A f \in {"retry", "ch", "rest", "offered", "kx", "request", "proto", "session"} : cli'[f] = cli[f]

\* ClientServerHello hears it or gives up.
LEMMA ServerHelloDoes ==
  ASSUME NetShape, DOMAIN cli = Fields, ClientServerHello PROVE (ClientGivesUp \/ ClientHears) /\ NetShape'
<1> DEFINE sh == Head(s2c).body
           e  == [cli EXCEPT !.pc = "parameters", !.sh = sh, !.resumed = sh.psk,
                    !.peer = IF sh.psk THEN cli.offered.cert ELSE None,
                    !.early = EarlySecret(IF sh.psk THEN cli.offered.master ELSE None),
                    !.shared = SharedKey(cli.ch.share, sh.share)]
           f  == [e EXCEPT !.key = HandshakeKey("server", e), !.out = HandshakeKey("client", e)]
<1>1. cli.pc = "serverHello" /\ s2c # <<>> /\ ~Ended(cli)
  BY DEF ClientServerHello, ClientGets, Ended
<1>2. ClientFails(<<>>) \/ (ClientNext(f) /\ (sh.psk => cli.ch.ticket # None))
  BY DEF ClientServerHello
<1>3. /\ DOMAIN f = Fields /\ f.pc = "parameters" /\ f.sh = sh /\ f.resumed = sh.psk
      /\ f.early = EarlySecret(IF sh.psk THEN cli.offered.master ELSE None)
      /\ f.shared = SharedKey(cli.ch.share, sh.share)
      /\ sh.psk => f.peer = cli.offered.cert
      /\ \A g \in {"retry", "ch", "rest", "offered", "kx", "request", "proto", "session"} : f[g] = cli[g]
  BY DEF Fields
<1> HIDE DEF f
<1>4. ASSUME ClientNext(f), sh.psk => cli.ch.ticket # None PROVE ClientHears /\ NetShape'
  <2>1. cli' = f /\ ClientQuiet /\ NetShape'
    BY <1>1, <1>4, ClientNextNet
  <2> QED BY <1>1, <1>3, <1>4, <2>1 DEF ClientHears
<1> QED BY <1>1, <1>2, <1>4, ClientQuits

\* The messages of the server's flight, before its Finished.
ClientReadsOn ==
  /\ ClientQuiet
  /\ DOMAIN cli' = Fields /\ cli'.rest = Append(cli.rest, Kept(Head(s2c)))
  /\ \A f \in Fields \ {"pc", "rest", "proto", "request", "peer"} : cli'[f] = cli[f]
  /\ \/ /\ cli.pc = "parameters" /\ Head(s2c).type = "extensions"
        /\ cli'.pc = IF cli.resumed THEN "finished" ELSE "afterParameters"
        /\ cli'.proto = Head(s2c).body /\ cli'.request = cli.request /\ cli'.peer = cli.peer
     \/ /\ cli.pc = "afterParameters" /\ cli'.pc = "certificate" /\ Head(s2c).type = "request"
        /\ cli'.proto = cli.proto /\ cli'.peer = cli.peer
     \/ /\ cli.pc \in {"afterParameters", "certificate"} /\ cli'.pc = "verify"
        /\ cli'.proto = cli.proto /\ cli'.request = cli.request /\ AcceptsServer(cli'.peer)
     \/ /\ cli.pc = "verify" /\ cli'.pc = "finished"
        /\ cli'.proto = cli.proto /\ cli'.request = cli.request /\ cli'.peer = cli.peer

\* A logged message, and what else the client takes from it.
LEMMA LoggedOne ==
  ASSUME DOMAIN cli = Fields, NEW m
  PROVE  /\ DOMAIN Logged(cli, m) = Fields /\ Logged(cli, m).rest = Append(cli.rest, Kept(m))
         /\ \A f \in Fields \ {"rest"} : Logged(cli, m)[f] = cli[f]
BY DEF Logged, Fields

\* Each of them is read, or the client gives up.
LEMMA ReadsOnDoes ==
  ASSUME NetShape, DOMAIN cli = Fields, ClientParameters \/ ClientRequest \/ ClientCertificate \/ ClientVerify
  PROVE  (ClientGivesUp \/ ClientReadsOn) /\ NetShape'
<1> DEFINE m == Head(s2c)
           e == Logged(cli, m)
<1>1. /\ DOMAIN e = Fields /\ e.rest = Append(cli.rest, Kept(m))
      /\ \A f \in Fields \ {"rest"} : e[f] = cli[f]
  BY LoggedOne
<1> HIDE DEF e
<1>2. CASE ClientParameters
  <2> DEFINE n == [e EXCEPT !.pc = IF cli.resumed THEN "finished" ELSE "afterParameters", !.proto = m.body]
  <2>1. /\ cli.pc = "parameters" /\ s2c # <<>> /\ m.type = "extensions" /\ ~Ended(cli)
        /\ ClientFails(<<>>) \/ ClientNext(n)
    BY <1>2 DEF ClientParameters, ClientGets, Ended, e
  <2>2. ASSUME ClientNext(n) PROVE ClientReadsOn /\ NetShape'
    <3>1. cli' = n /\ ClientQuiet /\ NetShape'
      BY <2>1, <2>2, ClientNextNet
    <3> QED BY <1>1, <2>1, <3>1 DEF ClientReadsOn, Fields
  <2> QED BY <2>1, <2>2, ClientQuits
<1>3. CASE ClientRequest
  <2> DEFINE n == [e EXCEPT !.pc = "certificate", !.request = m.body]
  <2>1. cli.pc = "afterParameters" /\ s2c # <<>> /\ m.type = "request" /\ ClientNext(n)
    BY <1>3 DEF ClientRequest, ClientGets, e
  <2>2. cli' = n /\ ClientQuiet /\ NetShape'
    BY <2>1, ClientNextNet
  <2> QED BY <1>1, <2>1, <2>2 DEF ClientReadsOn, Fields
<1>4. CASE ClientCertificate
  <2> DEFINE n == [e EXCEPT !.pc = "verify", !.peer = m.body]
  <2>1. /\ cli.pc \in {"afterParameters", "certificate"} /\ s2c # <<>> /\ ~Ended(cli)
        /\ ClientFails(<<>>) \/ (AcceptsServer(m.body) /\ ClientNext(n))
    BY <1>4 DEF ClientCertificate, ClientGets, Ended, e
  <2>2. ASSUME AcceptsServer(m.body), ClientNext(n) PROVE ClientReadsOn /\ NetShape'
    <3>1. cli' = n /\ ClientQuiet /\ NetShape'
      BY <2>1, <2>2, ClientNextNet
    <3> QED BY <1>1, <2>1, <2>2, <3>1 DEF ClientReadsOn, Fields
  <2> QED BY <2>1, <2>2, ClientQuits
<1>5. CASE ClientVerify
  <2> DEFINE n == [e EXCEPT !.pc = "finished"]
  <2>1. /\ cli.pc = "verify" /\ s2c # <<>> /\ ~Ended(cli)
        /\ ClientFails(<<>>) \/ ClientNext(n)
    BY <1>5 DEF ClientVerify, ClientGets, Ended, e
  <2>2. ASSUME ClientNext(n) PROVE ClientReadsOn /\ NetShape'
    <3>1. cli' = n /\ ClientQuiet /\ NetShape'
      BY <2>1, <2>2, ClientNextNet
    <3> QED BY <1>1, <2>1, <3>1 DEF ClientReadsOn, Fields
  <2> QED BY <2>1, <2>2, ClientQuits
<1> QED BY <1>2, <1>3, <1>4, <1>5

\* What the log keeps of a flight.
KeptOf(ms) == [i \in DOMAIN ms |-> Kept(ms[i])]

\* What a log keeps of a flight: as many messages, each by its type and body.
LEMMA KeptFlight ==
  ASSUME NEW ms, IsSeq(ms)
  PROVE  /\ IsSeq(KeptOf(ms)) /\ ToSet(KeptOf(ms)) = {Kept(m) : m \in ToSet(ms)}
         /\ ms # <<>> => KeptOf(ms) # <<>> /\ KeptOf(ms)[1] = Kept(ms[1])
<1>1. DOMAIN ms = 1 .. Len(ms) /\ Len(ms) \in Nat /\ ToSet(ms) = {ms[i] : i \in 1 .. Len(ms)}
  BY SetOf
<1>2. KeptOf(ms) \in Seq({Kept(ms[i]) : i \in DOMAIN ms}) /\ Len(KeptOf(ms)) = Len(ms)
  BY <1>1 DEF KeptOf
<1>3. IsSeq(KeptOf(ms))
  BY <1>2, SeqIsSeq
<1>4. ToSet(KeptOf(ms)) = {KeptOf(ms)[i] : i \in 1 .. Len(ms)}
  BY <1>2, <1>3, SetOf
<1>5. \A i \in 1 .. Len(ms) : KeptOf(ms)[i] = Kept(ms[i])
  BY <1>1 DEF KeptOf
<1>6. ms # <<>> => Len(ms) > 0
  BY <1>1 DEF IsSeq
<1>7. ms # <<>> => KeptOf(ms) # <<>> /\ KeptOf(ms)[1] = Kept(ms[1])
  BY <1>1, <1>2, <1>5, <1>6
<1> QED BY <1>1, <1>3, <1>4, <1>5, <1>7

\* The log of no message, of one and of two.
LEMMA KeptShort ==
  /\ KeptOf(<<>>) = <<>>
  /\ \A x : KeptOf(<<x>>) = <<Kept(x)>>
  /\ \A x, y : KeptOf(<<x, y>>) = <<Kept(x), Kept(y)>>
BY DEF KeptOf

\* What the client sends behind the server's Finished.
Ends(m, cert) ==
  \/ m.type = "certificate" /\ m.body = cert /\ cli.request # None
  \/ m.type \in {"verify", "finished"}

\* The server's Finished, which is the one that the client expects.
ClientCompletes ==
  /\ cli.pc = "finished" /\ ClientReads
  /\ \E sent : ClientAdds(sent) /\ \A m \in sent : Ends(m, OwnCertificate)
  /\ Head(s2c).type = "finished" /\ Head(s2c).body = FinishedMAC("server", cli)
  /\ DOMAIN cli' = Fields /\ cli'.pc = "complete" /\ cli'.peerSum = Head(s2c).body
  /\ cli'.key = TrafficOf("server", cli'.peerSum) /\ cli'.out = TrafficOf("client", cli'.peerSum)
  /\ Own(cli', OwnCertificate) /\ cli'.master = ResumptionOf(cli'.sum)
  /\ \A f \in Fields \ {"pc", "rest", "key", "out", "peerSum", "sum", "master"} : cli'[f] = cli[f]
  /\ sessions' = sessions \cup {[master |-> cli'.master, client |-> OwnCertificate, server |-> cli.peer]}
  /\ UNCHANGED cache

\* The flight of the client holds its certificate, if it was asked for one, and is
\* logged as CertificateLog has it.
LEMMA OwnFlight ==
  ASSUME NEW e, e.request = cli.request
  PROVE  /\ Wire(CertificateFlight(e)) /\ \A m \in ToSet(CertificateFlight(e)) : Ends(m, OwnCertificate)
         /\ KeptOf(CertificateFlight(e)) = IF e.request = None THEN <<>> ELSE CertificateLog(OwnCertificate)
<1> DEFINE own    == OwnCertificate
           cert   == Under(e.out, "certificate", own)
           verify == Under(e.out, "verify", Signature("client", own, e.request.schemes, Logged(e, cert)))
<1>1. CertificateFlight(e) = IF e.request = None THEN <<>> ELSE IF own = None THEN <<cert>> ELSE <<cert, verify>>
  BY DEF CertificateFlight
<1>2. /\ DOMAIN cert = Header /\ DOMAIN verify = Header
      /\ cert.type = "certificate" /\ verify.type = "verify" /\ cert.body = own
  BY Headers
<1>3. Kept(cert) = Msg("certificate", own) /\ Kept(verify) = Msg("verify", None)
  BY <1>2 DEF Kept
<1> HIDE DEF cert, verify, own
<1>4. CASE e.request = None
  BY <1>1, <1>4, NothingSent, KeptShort
<1>5. CASE e.request # None /\ own = None
  <2>1. CertificateFlight(e) = <<cert>>
    BY <1>1, <1>5
  <2>2. Wire(<<cert>>) /\ ToSet(<<cert>>) = {cert}
    BY <1>2, Short DEF Wire
  <2>3. Ends(cert, OwnCertificate)
    BY <1>2, <1>5 DEF Ends, own
  <2>4. KeptOf(<<cert>>) = CertificateLog(OwnCertificate)
    BY <1>3, <1>5, KeptShort DEF CertificateLog, own
  <2> QED BY <1>5, <2>1, <2>2, <2>3, <2>4
<1>6. CASE e.request # None /\ own # None
  <2>1. CertificateFlight(e) = <<cert, verify>>
    BY <1>1, <1>6
  <2>2. Wire(<<cert, verify>>) /\ ToSet(<<cert, verify>>) = {cert, verify}
    BY <1>2, Short DEF Wire
  <2>3. Ends(cert, OwnCertificate) /\ Ends(verify, OwnCertificate)
    BY <1>2, <1>6 DEF Ends, own
  <2>4. KeptOf(<<cert, verify>>) = CertificateLog(OwnCertificate)
    BY <1>3, <1>6, KeptShort DEF CertificateLog, own
  <2> QED BY <1>6, <2>1, <2>2, <2>3, <2>4
<1> QED BY <1>4, <1>5, <1>6

\* ClientFinished completes or gives up.
LEMMA ClientFinishedDoes ==
  ASSUME NetShape, DOMAIN cli = Fields, ClientInv, ClientFinished
  PROVE  (ClientGivesUp \/ ClientCompletes) /\ NetShape'
<1> DEFINE read   == Logged(cli, Head(s2c))
           flight == CertificateFlight(read)
           signed == LoggedAll(read, flight)
           done   == Logged(signed, Msg("finished", None))
           mac    == FinishedMAC("client", signed)
           last   == Under(cli.out, "finished", mac)
           n      == [done EXCEPT
                        !.pc = "complete", !.key = TrafficKey("server", read), !.out = TrafficKey("client", read),
                        !.peerSum = Head(s2c).body, !.sum = mac, !.master = ResumptionSecret(done)]
<1>1. cli.pc = "finished" /\ s2c # <<>> /\ Head(s2c).type = "finished" /\ ~Ended(cli)
  BY DEF ClientFinished, ClientGets, Ended
<1>2. CASE Head(s2c).body # FinishedMAC("server", cli)
  BY <1>1, <1>2, ClientQuits DEF ClientFinished, GoodFinished
<1>3. CASE Head(s2c).body = FinishedMAC("server", cli)
  <2> DEFINE sum == FinishedMAC("server", cli)
  <2>1. /\ cli' = n /\ s2c' = Tail(s2c) /\ c2s' = Send(c2s, LastFlight(flight, mac))
        /\ sessions' = sessions \cup {[master |-> ResumptionSecret(done), client |-> OwnCertificate,
                                       server |-> cli.peer]}
        /\ UNCHANGED <<world, cache, srv, burnt>>
    BY <1>3 DEF ClientFinished, GoodFinished
  <2>2. Kept(Head(s2c)) = End /\ Kept(End) = End
    BY <1>1 DEF Kept, End, Msg, Under
  <2>3. /\ DOMAIN read = Fields /\ read.rest = Append(cli.rest, End)
        /\ \A f \in Fields \ {"rest"} : read[f] = cli[f]
    BY <2>2, LoggedOne
  <2>4. IsSeq(read.rest)
    <3>1. IsSeq(cli.rest)
      BY <1>1 DEF ClientInv, Keyed, Names1
    <3> QED BY <2>3, <3>1, Appended
  <2> HIDE DEF read
  <2>5. /\ Wire(flight) /\ \A m \in ToSet(flight) : Ends(m, OwnCertificate)
        /\ KeptOf(flight) = IF cli.request = None THEN <<>> ELSE CertificateLog(OwnCertificate)
    BY <2>3, OwnFlight DEF Fields
  <2> HIDE DEF flight
  <2>6. /\ DOMAIN signed = Fields /\ signed.rest = read.rest \o KeptOf(flight)
        /\ \A f \in Fields \ {"rest"} : signed[f] = cli[f]
    BY <2>3 DEF LoggedAll, KeptOf, Fields
  <2> HIDE DEF signed
  <2>7. /\ DOMAIN done = Fields /\ done.rest = Append(signed.rest, End)
        /\ \A f \in Fields \ {"rest"} : done[f] = cli[f]
    BY <2>2, <2>6 DEF Logged, Fields, End
  <2> HIDE DEF done
  <2>8. /\ DOMAIN n = Fields /\ n.pc = "complete" /\ n.key = TrafficKey("server", read)
        /\ n.out = TrafficKey("client", read) /\ n.peerSum = sum /\ n.sum = mac /\ n.master = ResumptionSecret(done)
        /\ \A f \in Fields \ {"pc", "rest", "key", "out", "peerSum", "sum", "master"} : n[f] = cli[f]
    BY <1>3, <2>7 DEF Fields
  <2> HIDE DEF n
  <2>9. /\ Secret(read) = Secret(cli) /\ Hellos(read) = Hellos(cli)
        /\ Secret(signed) = Secret(cli) /\ Hellos(signed) = Hellos(cli)
        /\ Secret(done) = Secret(cli) /\ Hellos(done) = Hellos(cli)
    BY <2>3, <2>6, <2>7 DEF Secret, Hellos, Retry, Fields
  <2>10. TrafficKey("server", read) = TrafficOf("server", sum) /\ TrafficKey("client", read) = TrafficOf("client", sum)
    BY <2>3, <2>9 DEF TrafficKey, TrafficOf, After, FinishedMAC, Transcript
  <2>11. mac = IF cli.request = None THEN FinishedOf("client", sum) ELSE Answer(sum, OwnCertificate)
    <3>1. mac = [role |-> "client", phase |-> "finished", secret |-> Secret(cli),
                 log |-> [hellos |-> Hellos(cli), rest |-> read.rest \o KeptOf(flight)]]
      BY <2>6, <2>9 DEF FinishedMAC, Transcript
    <3>2. read.rest \o <<>> = read.rest
      BY <2>4 DEF IsSeq
    <3> QED BY <2>3, <2>5, <3>1, <3>2 DEF FinishedOf, Answer, After, FinishedMAC, Transcript
  <2>12. ResumptionSecret(done) = ResumptionOf(mac)
    BY <2>6, <2>7, <2>9 DEF ResumptionSecret, ResumptionOf, After, FinishedMAC, Transcript
  <2> HIDE DEF mac, sum
  <2>13. /\ Wire(<<last>>) /\ ToSet(<<last>>) = {last} /\ Ends(last, OwnCertificate) /\ DOMAIN last = Header
    BY Headers, Short DEF Wire, Ends
  <2> HIDE DEF last
  <2>14. LastFlight(flight, mac) = Append(flight, last)
    BY DEF LastFlight, last
  <2>15. /\ IsSeq(Append(flight, last)) /\ ToSet(Append(flight, last)) = ToSet(flight) \cup {last}
    BY <2>5, Appended DEF Wire
  <2> DEFINE sent == ToSet(flight) \cup {last}
  <2>16. /\ IsSeq(c2s') /\ ToSet(c2s') \subseteq ToSet(c2s) \cup sent /\ Later(c2s') \subseteq Later(c2s) \cup sent
    BY <2>1, <2>14, <2>15, Sent DEF NetShape
  <2>17. /\ IsSeq(s2c') /\ ToSet(s2c') = Later(s2c) /\ Later(s2c') \subseteq Later(s2c)
         /\ Head(s2c) \in ToSet(s2c) /\ Later(s2c) \subseteq ToSet(s2c)
    BY <1>1, <2>1, Taken DEF NetShape
  <2>18. NetShape'
    BY <2>5, <2>13, <2>16, <2>17 DEF NetShape, Wire
  <2>19. ClientReads /\ ClientAdds(sent) /\ \A m \in sent : Ends(m, OwnCertificate)
    BY <1>1, <2>1, <2>5, <2>13, <2>16, <2>17 DEF ClientReads, ClientAdds
  <2>20. n.request = cli.request
    BY <2>8 DEF Fields
  <2>21. Own(cli', OwnCertificate)
    BY <2>1, <2>8, <2>11, <2>20 DEF Own
  <2> HIDE DEF sent
  <2>22. /\ cli'.pc = "complete" /\ cli'.peerSum = sum /\ cli'.key = TrafficOf("server", cli'.peerSum)
         /\ cli'.out = TrafficOf("client", cli'.peerSum) /\ cli'.master = ResumptionOf(cli'.sum)
         /\ sessions' = sessions \cup {[master |-> cli'.master, client |-> OwnCertificate, server |-> cli.peer]}
    BY <2>1, <2>8, <2>10, <2>12
  <2>23. ClientCompletes
    BY <1>1, <1>3, <2>1, <2>8, <2>19, <2>21, <2>22 DEF ClientCompletes, sum
  <2> QED BY <2>18, <2>23
<1> QED BY <1>2, <1>3

\* A ticket, read after the handshake.
ClientKeepsTicket ==
  /\ cli.pc = "complete" /\ ClientReads
  /\ Head(s2c).type = "ticket"
  /\ \E useBy :
       LET session == [ticket |-> Head(s2c).body, vers |-> VersionTLS13, suite |-> cli.sh.suite, master |-> cli.master,
                       cert |-> cli.peer, verified |-> IF cli.resumed THEN cli.offered.verified ELSE ~ccfg.insecure,
                       useBy |-> useBy]
       IN  cache' \in {cache, [cache EXCEPT ![CacheKey(ccfg)] = session]}
  /\ UNCHANGED <<cli, c2s, sessions>>

\* ClientTicket keeps it.
LEMMA TicketDoes == ASSUME NetShape, ClientTicket PROVE ClientKeepsTicket /\ NetShape'
<1>1. /\ cli.pc = "complete" /\ s2c # <<>> /\ Head(s2c).type = "ticket" /\ s2c' = Tail(s2c)
      /\ UNCHANGED <<world, cli, srv, c2s, sessions, burnt>>
  BY DEF ClientTicket, ClientGets
<1>2. /\ IsSeq(s2c') /\ ToSet(s2c') = Later(s2c) /\ Later(s2c') \subseteq Later(s2c)
      /\ Head(s2c) \in ToSet(s2c) /\ Later(s2c) \subseteq ToSet(s2c)
  BY <1>1, Taken DEF NetShape
<1>3. ClientKeepsTicket
  BY <1>1, <1>2 DEF ClientTicket, ClientKeepsTicket, ClientReads
<1> QED BY <1>1, <1>2, <1>3 DEF NetShape

\* Every step of the client.
ClientSteps ==
  \/ ClientGivesUp \/ ClientGreets \/ ClientRetries \/ ClientHears \/ ClientReadsOn \/ ClientCompletes
  \/ ClientKeepsTicket

\* The whole of the client.
LEMMA ClientDoes ==
  ASSUME Shape, ClientInv, Client \/ ClientCut PROVE ClientSteps /\ NetShape'
<1>1. NetShape /\ DOMAIN cli = Fields
  BY DEF Shape
<1>2. ASSUME ClientUnexpected \/ ClientCut PROVE ClientGivesUp /\ NetShape'
  BY <1>1, <1>2, ClientQuits DEF ClientUnexpected, ClientCut
<1> QED BY <1>1, <1>2, StartDoes, RetryDoes, ServerHelloDoes, ReadsOnDoes, ClientFinishedDoes, TicketDoes
        DEF Client, ClientSteps

----------------------------------------------------------------------------
(* What the server's steps do.                                             *)

\* A failing return.  Behind the hello the server keeps what it has.
ServerGivesUp ==
  /\ ~Ended(srv) /\ srv'.pc = "failed" /\ DOMAIN srv' = Fields
  /\ srv.pc # "clientHello" => srv' = [srv EXCEPT !.pc = "failed"]
  /\ ToSet(s2c') \subseteq ToSet(s2c) \cup {Close} /\ ToSet(c2s') = {}
  /\ UNCHANGED <<world, cache, cli, sessions>>

\* ServerFails is one.
LEMMA ServerQuits ==
  ASSUME NetShape, ~Ended(srv), NEW e, DOMAIN e = Fields, srv.pc # "clientHello" => e = srv, ServerFails(e, <<>>)
  PROVE  ServerGivesUp /\ NetShape'
<1>1. /\ NetShape' /\ ToSet(c2s') = {} /\ ToSet(s2c') \subseteq ToSet(s2c) \cup (ToSet(<<>>) \cup {Close})
      /\ srv' = [e EXCEPT !.pc = "failed"] /\ UNCHANGED <<world, cache, cli, sessions>>
  BY NothingSent, ServerFailsNet
<1> QED BY <1>1, NothingSent DEF ServerGivesUp, Fields

\* A HelloRetryRequest.
ServerRetries ==
  /\ srv.pc = "clientHello"
  /\ \E retry, body : srv' = [srv EXCEPT !.retry = retry] /\ ServerTakes({Msg("retry", body)})
  /\ UNCHANGED sessions

\* What the server sends with its answer: its Finished, and its ticket when it does
\* not wait for the client.
Answers(m, e) ==
  \/ m.type \in {"serverHello", "extensions", "request", "certificate", "verify"}
  \/ m.type = "finished" /\ m.body = e.sum
  \/ m.type = "ticket" /\ e.pc = "finished" /\ Grants(m.body, e)

\* The server's hello and the flight behind it.
ServerAnswersHello ==
  /\ srv.pc = "clientHello" /\ Head(c2s).type = "clientHello"
  /\ \E sent : ServerTakes(sent) /\ \A m \in sent : Answers(m, srv')
  /\ DOMAIN srv' = Fields /\ srv'.pc = IF Asks' THEN "certificate" ELSE "finished"
  /\ Covers(srv'.sum, srv') /\ Names1(srv'.sum.log.rest, srv'.proto)
  /\ Requested(srv'.sum.log.rest) => Asks'
  /\ srv'.out = TrafficOf("server", srv'.sum) /\ srv'.master = TrafficOf("client", srv'.sum)
  /\ srv'.sh.psk = srv'.resumed /\ srv'.sh.share.of = <<"server", conn>>
  /\ srv'.early = EarlySecret(IF srv'.resumed THEN srv'.offered.master ELSE None)
  /\ srv'.resumed =>
       /\ Head(c2s).body.ticket # None /\ srv'.offered = Head(c2s).body.ticket.state
       /\ srv'.peer = srv'.offered.cert /\ AcceptsClient(srv'.peer) /\ CarriesOver(srv'.peer)
  /\ ~srv'.resumed => srv'.peer = None
  /\ IF Asks' THEN srv'.rest = After(srv'.sum).rest ELSE srv'.peerSum = FinishedOf("client", srv'.sum)
  /\ UNCHANGED sessions

\* A flight sent under a key is the same flight.
LEMMA KeyedFlight ==
  ASSUME NEW q, Wire(q), NEW key
  PROVE  LET k == [i \in DOMAIN q |-> [q[i] EXCEPT !.key = key]]
         IN  Wire(k) /\ \A m \in ToSet(k) : \E f \in ToSet(q) : m.type = f.type /\ m.body = f.body
<1> DEFINE k == [i \in DOMAIN q |-> [q[i] EXCEPT !.key = key]]
<1>1. DOMAIN q = 1 .. Len(q) /\ Len(q) \in Nat /\ ToSet(q) = {q[i] : i \in 1 .. Len(q)}
  BY SetOf DEF Wire
<1>2. k \in Seq({[q[i] EXCEPT !.key = key] : i \in DOMAIN q}) /\ Len(k) = Len(q)
  BY <1>1
<1>3. IsSeq(k)
  BY <1>2, SeqIsSeq
<1>4. ToSet(k) = {k[i] : i \in 1 .. Len(q)}
  BY <1>2, <1>3, SetOf
<1>5. \A i \in 1 .. Len(q) : k[i] = [q[i] EXCEPT !.key = key] /\ DOMAIN q[i] = Header
  BY <1>1 DEF Wire
<1> HIDE DEF k
<1>6. \A i \in 1 .. Len(q) : DOMAIN k[i] = Header /\ k[i].type = q[i].type /\ k[i].body = q[i].body
  BY <1>5 DEF Header
<1>7. Wire(k) /\ \A m \in ToSet(k) : \E f \in ToSet(q) : m.type = f.type /\ m.body = f.body
  BY <1>1, <1>3, <1>4, <1>6 DEF Wire
<1> QED BY <1>7 DEF k

\* Flights in a row are a flight.
LEMMA WireJoined ==
  ASSUME NEW q, NEW r, Wire(q), Wire(r) PROVE Wire(q \o r) /\ ToSet(q \o r) = ToSet(q) \cup ToSet(r)
BY Joined DEF Wire

\* TicketsSent expects the Finished of the client, and puts the secret of its log in
\* a ticket.
LEMMA TicketsDo ==
  ASSUME NEW e, DOMAIN e = Fields, IsSeq(e.rest)
  PROVE  LET last == TicketsSent(e)
         IN  /\ DOMAIN last = Fields /\ last.pc = "finished" /\ last.peerSum = FinishedMAC("client", e)
             /\ \A f \in Fields \ {"pc", "rest", "peerSum", "session"} : last[f] = e[f]
             /\ Wire(TicketFlight(last))
             /\ \A m \in ToSet(TicketFlight(last)) : m.type = "ticket" /\ Grants(m.body, last)
<1> DEFINE mac  == FinishedMAC("client", e)
           done == [Logged(e, Msg("finished", None)) EXCEPT !.pc = "finished", !.peerSum = mac]
           last == TicketsSent(e)
<1>1. /\ DOMAIN done = Fields /\ done.pc = "finished" /\ done.peerSum = mac /\ done.rest = Append(e.rest, End)
      /\ \A f \in Fields \ {"pc", "rest", "peerSum"} : done[f] = e[f]
  BY DEF Logged, Fields, Kept, Msg, Under, End
<1>2. last = [done EXCEPT !.session = IF scfg.tickets /\ e.ch.pskModes THEN SessionTicket(done) ELSE None]
  BY DEF TicketsSent
<1> HIDE DEF done
<1>3. /\ DOMAIN last = Fields /\ last.pc = "finished" /\ last.peerSum = mac
      /\ \A f \in Fields \ {"pc", "rest", "peerSum", "session"} : last[f] = e[f]
      /\ last.session \in {SessionTicket(done), None}
  BY <1>1, <1>2 DEF Fields
<1> HIDE DEF last
<1>4. Secret(done) = Secret(e) /\ Hellos(done) = Hellos(e)
  BY <1>1 DEF Secret, Hellos, Retry, Fields
<1>5. ResumptionSecret(done) = ResumptionOf(mac)
  BY <1>1, <1>4 DEF ResumptionSecret, ResumptionOf, Transcript, After, FinishedMAC
<1>6. Grants(SessionTicket(done), last)
  <2>1. /\ SessionTicket(done).state.master = ResumptionSecret(done) /\ SessionTicket(done).state.suite = done.sh.suite
        /\ SessionTicket(done).state.cert = done.peer
    BY DEF SessionTicket, EncryptTicket
  <2>2. done.sh = last.sh /\ done.peer = last.peer
    BY <1>1, <1>3 DEF Fields
  <2> QED BY <1>3, <1>5, <2>1, <2>2 DEF Grants
<1>7. /\ Wire(TicketFlight(last))
      /\ \A m \in ToSet(TicketFlight(last)) : m.type = "ticket" /\ Grants(m.body, last)
  <2>1. CASE last.session = None
    BY <2>1, NothingSent DEF TicketFlight
  <2>2. CASE last.session # None
    <3> DEFINE t == Under(last.out, "ticket", last.session)
    <3>1. TicketFlight(last) = <<t>> /\ last.session = SessionTicket(done)
      BY <1>3, <2>2 DEF TicketFlight
    <3>2. DOMAIN t = Header /\ t.type = "ticket" /\ t.body = last.session
      BY Headers
    <3> HIDE DEF t
    <3>3. Wire(<<t>>) /\ ToSet(<<t>>) = {t}
      BY <3>2, Short DEF Wire
    <3> QED BY <1>6, <3>1, <3>2, <3>3
  <2> QED BY <2>1, <2>2
<1> QED BY <1>3, <1>7 DEF last, mac

\* The flight before the server's signature.
LEMMA ParametersSent ==
  ASSUME NEW e, NEW proto, NEW cert
  PROVE  LET q == Parameters(e, proto, cert)
         IN  /\ Wire(q) /\ q # <<>> /\ q[1] = Msg("extensions", proto)
             /\ \A m \in ToSet(q) : /\ m.type \in {"extensions", "request", "certificate"}
                                    /\ m.type = "request" => RequestsClientCert(e)
<1> DEFINE a == Msg("extensions", proto)
           b == Msg("request", [schemes |-> SupportedSignatureAlgorithms, acceptableCAs |-> scfg.clientCAs])
           c == Msg("certificate", cert)
           x == <<a>>
           y == IF RequestsClientCert(e) THEN <<b>> ELSE <<>>
           z == IF e.resumed THEN <<>> ELSE <<c>>
<1>1. /\ DOMAIN a = Header /\ DOMAIN b = Header /\ DOMAIN c = Header
      /\ a.type = "extensions" /\ b.type = "request" /\ c.type = "certificate"
  BY Headers
<1>2. Parameters(e, proto, cert) = x \o y \o z
  BY DEF Parameters
<1> HIDE DEF a, b, c
<1>3. /\ Wire(x) /\ ToSet(x) = {a} /\ x # <<>> /\ x[1] = a
      /\ Wire(y) /\ ToSet(y) \subseteq {b} /\ (ToSet(y) # {} => RequestsClientCert(e))
      /\ Wire(z) /\ ToSet(z) \subseteq {c}
  <2>1. ASSUME NEW m, DOMAIN m = Header PROVE Wire(<<m>>) /\ ToSet(<<m>>) = {m}
    BY <2>1, Short DEF Wire
  <2>2. x # <<>> /\ x[1] = a
    OBVIOUS
  <2>3. (y = <<b>> /\ RequestsClientCert(e)) \/ y = <<>>
    OBVIOUS
  <2>4. z = <<c>> \/ z = <<>>
    OBVIOUS
  <2> QED BY <1>1, <2>1, <2>2, <2>3, <2>4, NothingSent
<1> HIDE DEF x, y, z
<1>4. Wire(x \o y) /\ ToSet(x \o y) = ToSet(x) \cup ToSet(y) /\ x \o y # <<>> /\ (x \o y)[1] = a
  BY <1>3, WireJoined, Joined DEF Wire
<1>5. /\ Wire((x \o y) \o z) /\ ToSet((x \o y) \o z) = ToSet(x) \cup ToSet(y) \cup ToSet(z)
      /\ (x \o y) \o z # <<>> /\ ((x \o y) \o z)[1] = a
  BY <1>3, <1>4, WireJoined, Joined DEF Wire
<1>6. \A m \in ToSet((x \o y) \o z) : /\ m.type \in {"extensions", "request", "certificate"}
                                      /\ m.type = "request" => RequestsClientCert(e)
  BY <1>1, <1>3, <1>5
<1> QED BY <1>2, <1>5, <1>6 DEF a

\* A server that has a hello and the secrets of the handshake, but has sent nothing.
Prepared(e) ==
  /\ DOMAIN e = Fields /\ e.rest = <<>> /\ e.session = None
  /\ e.sh.psk = e.resumed /\ e.sh.share.of = <<"server", conn>>
  /\ e.early = EarlySecret(IF e.resumed THEN e.offered.master ELSE None)
  /\ e.resumed =>
       /\ Head(c2s).body.ticket # None /\ e.offered = Head(c2s).body.ticket.state
       /\ e.peer = e.offered.cert /\ AcceptsClient(e.peer) /\ CarriesOver(e.peer)
  /\ ~e.resumed => e.peer = None

\* ServerFlight answers with what the server has prepared.
LEMMA FlightDoes ==
  ASSUME NetShape, srv.pc = "clientHello", c2s # <<>>, Head(c2s).type = "clientHello",
         NEW e, Prepared(e), NEW cert, ServerFlight(e, cert)
  PROVE  ServerAnswersHello /\ NetShape'
<1> DEFINE proto  == IF e.ch.alpnProtocols = <<>> THEN None ELSE MutualProtocol(e.ch.alpnProtocols, scfg.protos)
           named  == LoggedAll(e, Parameters(e, proto, cert))
           proof  == Msg("verify", Signature("server", cert, e.ch.supportedSignatureAlgorithms, named))
           verify == IF e.resumed THEN <<>> ELSE <<proof>>
           signed == LoggedAll(named, verify)
           mac    == FinishedMAC("server", signed)
           final  == Msg("finished", mac)
           flight == Parameters(e, proto, cert) \o verify \o <<final>>
           sent   == [Logged(signed, Msg("finished", None)) EXCEPT
                        !.sum = mac, !.proto = proto, !.key = HandshakeKey("client", e)]
           done   == [sent EXCEPT !.out = TrafficKey("server", sent), !.master = TrafficKey("client", sent)]
           last   == IF RequestsClientCert(e) THEN [done EXCEPT !.pc = "certificate"] ELSE TicketsSent(done)
           first  == Msg("serverHello", e.sh)
           keyed  == [i \in DOMAIN flight |-> [flight[i] EXCEPT !.key = HandshakeKey("server", e)]]
           all    == <<first>> \o keyed \o TicketFlight(last)
<1>1. ServerNext(last, all)
  BY DEF ServerFlight
<1>2. DOMAIN e = Fields /\ e.rest = <<>> /\ e.session = None
  BY DEF Prepared
<1>3. /\ Wire(Parameters(e, proto, cert)) /\ Parameters(e, proto, cert) # <<>>
      /\ Parameters(e, proto, cert)[1] = Msg("extensions", proto)
      /\ \A m \in ToSet(Parameters(e, proto, cert)) : /\ m.type \in {"extensions", "request", "certificate"}
                                                      /\ m.type = "request" => RequestsClientCert(e)
  BY ParametersSent
<1> DEFINE params == Parameters(e, proto, cert)
<1> HIDE DEF params
<1>4. /\ Wire(verify) /\ \A m \in ToSet(verify) : m.type = "verify"
  <2>1. DOMAIN proof = Header /\ proof.type = "verify"
    BY Headers
  <2> HIDE DEF proof
  <2>2. Wire(<<proof>>) /\ ToSet(<<proof>>) = {proof}
    BY <2>1, Short DEF Wire
  <2> QED BY <2>1, <2>2, NothingSent
<1>5. /\ DOMAIN named = Fields /\ named.rest = e.rest \o KeptOf(params)
      /\ \A f \in Fields \ {"rest"} : named[f] = e[f]
  BY <1>2 DEF LoggedAll, KeptOf, Fields, params
<1> HIDE DEF named
<1> HIDE DEF proof
<1> HIDE DEF verify
<1>6. /\ DOMAIN signed = Fields /\ signed.rest = named.rest \o KeptOf(verify)
      /\ \A f \in Fields \ {"rest"} : signed[f] = e[f]
  BY <1>5 DEF LoggedAll, KeptOf, Fields
<1> HIDE DEF signed
<1>7. /\ IsSeq(signed.rest) /\ signed.rest # <<>> /\ signed.rest[1] = Msg("extensions", proto)
      /\ Requested(signed.rest) => RequestsClientCert(e)
  <2>1. /\ IsSeq(KeptOf(params)) /\ ToSet(KeptOf(params)) = {Kept(m) : m \in ToSet(params)}
        /\ KeptOf(params) # <<>> /\ KeptOf(params)[1] = Kept(params[1])
        /\ IsSeq(KeptOf(verify)) /\ ToSet(KeptOf(verify)) = {Kept(m) : m \in ToSet(verify)}
    BY <1>3, <1>4, KeptFlight DEF Wire, params
  <2>2. named.rest = KeptOf(params)
    BY <1>2, <1>5, <2>1 DEF IsSeq
  <2>3. /\ IsSeq(signed.rest) /\ ToSet(signed.rest) = ToSet(KeptOf(params)) \cup ToSet(KeptOf(verify))
        /\ signed.rest # <<>> /\ signed.rest[1] = Kept(params[1])
    BY <1>6, <2>1, <2>2, Joined
  <2>4. \A m : Kept(m).type = m.type
    BY Headers DEF Kept
  <2>5. Kept(params[1]) = Msg("extensions", proto)
    BY <1>3, Headers DEF Kept, params
  <2>6. Requested(signed.rest) => RequestsClientCert(e)
    BY <1>3, <1>4, <2>1, <2>3, <2>4 DEF Requested, params
  <2> QED BY <2>3, <2>5, <2>6
<1>8. /\ DOMAIN sent = Fields /\ sent.rest = Append(signed.rest, End) /\ sent.sum = mac /\ sent.proto = proto
      /\ \A f \in Fields \ {"rest", "sum", "proto", "key"} : sent[f] = e[f]
  BY <1>6 DEF Logged, Fields, Kept, Msg, Under, End
<1> HIDE DEF proto, sent
<1>9. /\ DOMAIN done = Fields /\ done.rest = Append(signed.rest, End) /\ done.sum = mac /\ done.proto = proto
      /\ done.out = TrafficKey("server", sent) /\ done.master = TrafficKey("client", sent)
      /\ \A f \in Fields \ {"rest", "sum", "proto", "key", "out", "master"} : done[f] = e[f]
  BY <1>8 DEF Fields
<1> HIDE DEF done
<1>10. /\ Secret(signed) = Secret(e) /\ Hellos(signed) = Hellos(e) /\ Secret(sent) = Secret(e)
       /\ Hellos(sent) = Hellos(e) /\ Secret(done) = Secret(e) /\ Hellos(done) = Hellos(e)
  BY <1>6, <1>8, <1>9 DEF Secret, Hellos, Retry, Fields
<1>11. /\ mac.secret = Secret(e) /\ mac.log.hellos = Hellos(e) /\ mac.log.rest = signed.rest
       /\ After(mac).rest = done.rest /\ After(mac) = Transcript(done)
  BY <1>9, <1>10 DEF FinishedMAC, Transcript, After
<1>12. /\ done.out = TrafficOf("server", mac) /\ done.master = TrafficOf("client", mac)
       /\ FinishedMAC("client", done) = FinishedOf("client", mac)
  BY <1>8, <1>9, <1>10, <1>11 DEF TrafficKey, TrafficOf, FinishedMAC, FinishedOf, Transcript, After
<1> HIDE DEF mac
<1>13. IsSeq(done.rest)
  BY <1>7, <1>9, Appended
<1>14. /\ DOMAIN last = Fields /\ last.pc = IF RequestsClientCert(e) THEN "certificate" ELSE "finished"
       /\ \A f \in Fields \ {"pc", "rest", "peerSum", "session"} : last[f] = done[f]
       /\ Wire(TicketFlight(last))
       /\ \A m \in ToSet(TicketFlight(last)) : m.type = "ticket" /\ last.pc = "finished" /\ Grants(m.body, last)
       /\ IF RequestsClientCert(e) THEN last.rest = done.rest ELSE last.peerSum = FinishedMAC("client", done)
  <2>1. CASE ~RequestsClientCert(e)
    <3>1. last = TicketsSent(done)
      BY <2>1
    <3> QED BY <1>9, <1>13, <2>1, <3>1, TicketsDo
  <2>2. CASE RequestsClientCert(e)
    <3>1. last = [done EXCEPT !.pc = "certificate"]
      BY <2>2
    <3>2. done.session = None
      BY <1>2, <1>9 DEF Fields
    <3>3. /\ DOMAIN last = Fields /\ last.pc = "certificate" /\ last.session = None /\ last.rest = done.rest
          /\ \A f \in Fields \ {"pc", "rest", "peerSum", "session"} : last[f] = done[f]
      BY <1>9, <3>1, <3>2 DEF Fields
    <3> QED BY <2>2, <3>3, NothingSent DEF TicketFlight
  <2> QED BY <2>1, <2>2
<1> HIDE DEF last
<1>15. /\ Wire(flight)
       /\ \A m \in ToSet(flight) :
            m.type \in {"extensions", "request", "certificate", "verify"} \/ (m.type = "finished" /\ m.body = mac)
  <2>1. DOMAIN final = Header /\ final.type = "finished" /\ final.body = mac
    BY Headers
  <2> HIDE DEF final
  <2>2. Wire(<<final>>) /\ ToSet(<<final>>) = {final}
    BY <2>1, Short DEF Wire
  <2>3. Wire(params \o verify) /\ ToSet(params \o verify) = ToSet(params) \cup ToSet(verify)
    BY <1>3, <1>4, WireJoined DEF params
  <2>4. Wire((params \o verify) \o <<final>>)
        /\ ToSet((params \o verify) \o <<final>>) = ToSet(params) \cup ToSet(verify) \cup {final}
    BY <2>2, <2>3, WireJoined
  <2>5. flight = (params \o verify) \o <<final>>
    BY DEF params
  <2> HIDE DEF flight
  <2>6. \A m \in ToSet(params) : m.type \in {"extensions", "request", "certificate"}
    BY <1>3 DEF params
  <2>7. ToSet(flight) = ToSet(params) \cup ToSet(verify) \cup {final} /\ Wire(flight)
    BY <2>4, <2>5
  <2>8. \A m \in ToSet(flight) : m \in ToSet(params) \/ m \in ToSet(verify) \/ m = final
    BY <2>7
  <2> QED BY <1>4, <2>1, <2>6, <2>7, <2>8
<1> HIDE DEF flight
<1>16. /\ Wire(keyed) /\ \A m \in ToSet(keyed) : \E f \in ToSet(flight) : m.type = f.type /\ m.body = f.body
  BY <1>15, KeyedFlight
<1> HIDE DEF keyed
<1>17. DOMAIN first = Header /\ first.type = "serverHello" /\ Wire(<<first>>) /\ ToSet(<<first>>) = {first}
  <2>1. DOMAIN first = Header /\ first.type = "serverHello"
    BY Headers
  <2> HIDE DEF first
  <2> QED BY <2>1, Short DEF Wire
<1> HIDE DEF first
<1>18. Wire(all) /\ ToSet(all) = {first} \cup ToSet(keyed) \cup ToSet(TicketFlight(last))
  <2>1. Wire(<<first>> \o keyed) /\ ToSet(<<first>> \o keyed) = {first} \cup ToSet(keyed)
    BY <1>16, <1>17, WireJoined
  <2> QED BY <1>14, <2>1, WireJoined
<1> HIDE DEF all
<1>19. last.sum = mac /\ last.proto = proto
  BY <1>9, <1>14 DEF Fields
<1>20. \A m \in ToSet(all) : Answers(m, last)
  BY <1>14, <1>15, <1>16, <1>17, <1>18, <1>19 DEF Answers
<1>21. srv' = last /\ ServerTakes(ToSet(all)) /\ NetShape' /\ UNCHANGED sessions
  BY <1>1, <1>18, ServerNextNet
<1>22. UNCHANGED <<scfg, conn>>
  BY <1>21 DEF ServerTakes, ServerReads, world
<1>23. \A f \in {"sh", "ch", "retry", "resumed", "offered", "peer", "early", "shared"} : last[f] = e[f]
  BY <1>9, <1>14 DEF Fields
<1>24. /\ last.out = TrafficOf("server", mac) /\ last.master = TrafficOf("client", mac)
       /\ IF RequestsClientCert(e) THEN last.rest = After(mac).rest ELSE last.peerSum = FinishedOf("client", mac)
  BY <1>11, <1>12, <1>14 DEF Fields
<1>25. Secret(last) = Secret(e) /\ Hellos(last) = Hellos(e)
  BY <1>23 DEF Secret, Hellos, Retry
<1>26. Asks' <=> RequestsClientCert(e)
  BY <1>21, <1>22, <1>23 DEF Asks, RequestsClientCert
<1>27. /\ Covers(srv'.sum, srv') /\ Names1(srv'.sum.log.rest, srv'.proto)
       /\ Requested(srv'.sum.log.rest) => Asks'
  BY <1>7, <1>11, <1>19, <1>21, <1>25, <1>26 DEF Covers, Names1
<1>28. /\ srv'.out = TrafficOf("server", srv'.sum) /\ srv'.master = TrafficOf("client", srv'.sum)
       /\ IF Asks' THEN srv'.rest = After(srv'.sum).rest ELSE srv'.peerSum = FinishedOf("client", srv'.sum)
       /\ srv'.pc = IF Asks' THEN "certificate" ELSE "finished"
  BY <1>14, <1>19, <1>21, <1>24, <1>26
<1>29. /\ srv'.sh.psk = srv'.resumed /\ srv'.sh.share.of = <<"server", conn>>
       /\ srv'.early = EarlySecret(IF srv'.resumed THEN srv'.offered.master ELSE None)
       /\ srv'.resumed =>
            /\ Head(c2s).body.ticket # None /\ srv'.offered = Head(c2s).body.ticket.state
            /\ srv'.peer = srv'.offered.cert /\ AcceptsClient(srv'.peer) /\ CarriesOver(srv'.peer)
       /\ ~srv'.resumed => srv'.peer = None
  BY <1>21, <1>23 DEF Prepared
<1> QED BY <1>14, <1>20, <1>21, <1>27, <1>28, <1>29 DEF ServerAnswersHello

\* ServerAnswers answers or gives up.
LEMMA AnswersDoes ==
  ASSUME NetShape, ServerInv, DOMAIN srv = Fields, srv.pc = "clientHello", c2s # <<>>,
         Head(c2s).type = "clientHello", ServerAnswers(Head(c2s).body)
  PROVE  (ServerGivesUp \/ ServerAnswersHello) /\ NetShape'
<1> DEFINE ch    == Head(c2s).body
           suite == PickSuite(ch)
           psk   == Resumes(ch, suite)
           state == Opened(ch.ticket)
           cert  == GetCertificate(scfg, ch.serverName)
           share == Share(ch.share.group, "server")
           sh    == [random |-> <<"server", conn>>, sessionId |-> ch.sessionId, suite |-> suite,
                     share |-> share, psk |-> psk]
           e     == [srv EXCEPT !.ch = ch, !.sh = sh, !.resumed = psk, !.offered = IF psk THEN state ELSE None,
                       !.peer = IF psk THEN state.cert ELSE None,
                       !.early = EarlySecret(IF psk THEN state.master ELSE None),
                       !.shared = SharedKey(ch.share, share)]
<1>1. srv.rest = <<>> /\ srv.session = None
  <2>1. srv = [Fresh("clientHello") EXCEPT !.retry = srv.retry]
    BY DEF ServerInv
  <2> DEFINE retry == srv.retry
  <2> HIDE DEF retry
  <2>2. [Fresh("clientHello") EXCEPT !.retry = retry].rest = <<>>
        /\ [Fresh("clientHello") EXCEPT !.retry = retry].session = None
    BY DEF Fresh
  <2> QED BY <2>1, <2>2 DEF retry
<1>2. \/ ServerFails(e, <<>>) \/ ServerFails(srv, <<>>)
      \/ ServerFlight(e, cert) /\ (psk => AcceptsClient(state.cert))
  BY DEF ServerAnswers
<1>3. psk => ch.ticket # None /\ state = ch.ticket.state /\ CarriesOver(state.cert)
  BY DEF Resumes, Opened
<1>4. sh.psk = psk /\ sh.share.of = <<"server", conn>>
  BY DEF Share
<1> HIDE DEF sh, psk, state, share
<1>5. /\ DOMAIN e = Fields /\ e.rest = <<>> /\ e.session = None /\ e.sh = sh /\ e.resumed = psk
      /\ e.offered = (IF psk THEN state ELSE None) /\ e.peer = (IF psk THEN state.cert ELSE None)
      /\ e.early = EarlySecret(IF psk THEN state.master ELSE None)
  BY <1>1 DEF Fields
<1> HIDE DEF e
<1>6. ASSUME psk => AcceptsClient(state.cert) PROVE Prepared(e)
  BY <1>3, <1>4, <1>5, <1>6 DEF Prepared
<1>7. CASE ServerFails(e, <<>>) \/ ServerFails(srv, <<>>)
  BY <1>5, <1>7, ServerQuits DEF Ended
<1>8. CASE ServerFlight(e, cert) /\ (psk => AcceptsClient(state.cert))
  BY <1>6, <1>8, FlightDoes
<1> QED BY <1>2, <1>7, <1>8

\* Both hellos are answered, or given up, or retried.
LEMMA HelloDoes ==
  ASSUME NetShape, ServerInv, DOMAIN srv = Fields, ServerClientHello \/ ServerSecondHello
  PROVE  (ServerGivesUp \/ ServerRetries \/ ServerAnswersHello) /\ NetShape'
<1> DEFINE ch    == Head(c2s).body
           group == SelectedGroup(ch)
           retry == [random |-> "retry", sessionId |-> ch.sessionId, suite |-> PickSuite(ch), group |-> group]
           e     == [srv EXCEPT !.retry = [ch |-> ch, sh |-> retry]]
<1>1. /\ srv.pc = "clientHello" /\ c2s # <<>> /\ Head(c2s).type = "clientHello" /\ ~Ended(srv)
      /\ ServerFails(srv, <<>>) \/ ServerAnswers(Head(c2s).body) \/ ServerNext(e, <<Msg("retry", retry)>>)
  BY DEF ServerClientHello, ServerSecondHello, ServerGets, Ended
<1>2. ASSUME ServerNext(e, <<Msg("retry", retry)>>) PROVE ServerRetries /\ NetShape'
  <2>1. DOMAIN Msg("retry", retry) = Header
    BY Headers
  <2>2. \A m : DOMAIN m = Header => Wire(<<m>>) /\ ToSet(<<m>>) = {m}
    <3>1. ASSUME NEW m, DOMAIN m = Header PROVE Wire(<<m>>) /\ ToSet(<<m>>) = {m}
      BY <3>1, Short DEF Wire
    <3> QED BY <3>1
  <2> HIDE DEF retry
  <2>3. srv' = e /\ ServerTakes({Msg("retry", retry)}) /\ NetShape' /\ UNCHANGED sessions
    BY <1>1, <1>2, <2>1, <2>2, ServerNextNet
  <2> QED BY <1>1, <2>3 DEF ServerRetries
<1> QED BY <1>1, <1>2, ServerQuits, AnswersDoes

\* The certificate of a client that has one.
ServerWaits ==
  /\ srv.pc = "certificate" /\ ServerQuiet
  /\ Head(c2s).type = "certificate" /\ Head(c2s).body # None /\ AcceptsClient(Head(c2s).body)
  /\ DOMAIN srv' = Fields /\ srv'.pc = "verify" /\ srv'.peer = Head(c2s).body
  /\ srv'.rest = Append(srv.rest, Msg("certificate", Head(c2s).body))
  /\ \A f \in Fields \ {"pc", "rest", "peer"} : srv'[f] = srv[f]

\* All of the client that comes before its Finished.
ServerHearsOut ==
  /\ \/ /\ srv.pc = "certificate" /\ Head(c2s).type = "certificate" /\ Head(c2s).body = None
        /\ AcceptsClient(None) /\ srv'.peer = None
     \/ /\ srv.pc = "verify" /\ Head(c2s).type = "verify" /\ srv'.peer = srv.peer
  /\ \E sent : ServerTakes(sent) /\ \A m \in sent : m.type = "ticket" /\ Grants(m.body, srv')
  /\ DOMAIN srv' = Fields /\ srv'.pc = "finished"
  /\ srv'.peerSum = [role |-> "client", phase |-> "finished", secret |-> Secret(srv),
                     log |-> [hellos |-> Hellos(srv), rest |-> Append(srv.rest, Kept(Head(c2s)))]]
  /\ \A f \in Fields \ {"pc", "rest", "peer", "peerSum", "session"} : srv'[f] = srv[f]
  /\ UNCHANGED sessions

\* ServerHeard sends the tickets of what the server knows then.
LEMMA HeardDoes ==
  ASSUME NetShape, c2s # <<>>, NEW e, DOMAIN e = Fields, e.rest = Append(srv.rest, Kept(Head(c2s))),
         IsSeq(srv.rest), \A f \in Fields \ {"pc", "rest", "peer"} : e[f] = srv[f], ServerHeard(e)
  PROVE  /\ \E sent : ServerTakes(sent) /\ \A m \in sent : m.type = "ticket" /\ Grants(m.body, srv')
         /\ DOMAIN srv' = Fields /\ srv'.pc = "finished" /\ srv'.peer = e.peer
         /\ srv'.peerSum = [role |-> "client", phase |-> "finished", secret |-> Secret(srv),
                            log |-> [hellos |-> Hellos(srv), rest |-> Append(srv.rest, Kept(Head(c2s)))]]
         /\ \A f \in Fields \ {"pc", "rest", "peer", "peerSum", "session"} : srv'[f] = srv[f]
         /\ UNCHANGED sessions /\ NetShape'
<1> DEFINE last == TicketsSent(e)
<1>1. ServerNext(last, TicketFlight(last))
  BY DEF ServerHeard
<1>2. IsSeq(e.rest)
  BY Appended
<1>3. /\ DOMAIN last = Fields /\ last.pc = "finished" /\ last.peerSum = FinishedMAC("client", e)
      /\ \A f \in Fields \ {"pc", "rest", "peerSum", "session"} : last[f] = e[f]
      /\ Wire(TicketFlight(last))
      /\ \A m \in ToSet(TicketFlight(last)) : m.type = "ticket" /\ Grants(m.body, last)
  BY <1>2, TicketsDo
<1> HIDE DEF last
<1>4. srv' = last /\ ServerTakes(ToSet(TicketFlight(last))) /\ NetShape' /\ UNCHANGED sessions
  BY <1>1, <1>3, ServerNextNet
<1>5. Secret(e) = Secret(srv) /\ Hellos(e) = Hellos(srv)
  BY DEF Secret, Hellos, Retry, Fields
<1>6. FinishedMAC("client", e) = [role |-> "client", phase |-> "finished", secret |-> Secret(srv),
                                  log |-> [hellos |-> Hellos(srv), rest |-> Append(srv.rest, Kept(Head(c2s)))]]
  BY <1>5 DEF FinishedMAC, Transcript
<1>7. last.peer = e.peer /\ \A f \in Fields \ {"pc", "rest", "peer", "peerSum", "session"} : last[f] = srv[f]
  BY <1>3 DEF Fields
<1> QED BY <1>3, <1>4, <1>6, <1>7

\* The log of the server while it waits for the client.
LEMMA LogIsSeq ==
  ASSUME ServerInv, srv.pc \in {"certificate", "verify"} PROVE IsSeq(srv.rest)
<1>1. Names1(srv.sum.log.rest, srv.proto)
  BY DEF ServerInv, Answering, ServerSigned
<1>2. IsSeq(After(srv.sum).rest)
  BY <1>1, Appended DEF Names1, After
<1> DEFINE r == After(srv.sum).rest
<1>3. srv.rest = r \/ srv.rest = Append(r, Msg("certificate", srv.peer))
  BY DEF ServerInv
<1> HIDE DEF r
<1>4. IsSeq(r) => IsSeq(Append(r, Msg("certificate", srv.peer)))
  BY Appended
<1> QED BY <1>2, <1>3, <1>4 DEF r

\* The messages of the client before its Finished are taken, or the server gives up.
LEMMA CertificateDoes ==
  ASSUME NetShape, ServerInv, DOMAIN srv = Fields, ServerCertificate \/ ServerVerify
  PROVE  (ServerGivesUp \/ ServerWaits \/ ServerHearsOut) /\ NetShape'
<1> DEFINE m == Head(c2s)
<1>1. CASE ServerCertificate
  <2> DEFINE e == [Logged(srv, m) EXCEPT !.peer = m.body]
             n == [e EXCEPT !.pc = "verify"]
  <2>1. /\ srv.pc = "certificate" /\ c2s # <<>> /\ m.type = "certificate" /\ ~Ended(srv)
        /\ \/ ServerFails(srv, <<>>)
           \/ AcceptsClient(m.body) /\ m.body = None /\ ServerHeard(e)
           \/ AcceptsClient(m.body) /\ m.body # None /\ ServerNext(n, <<>>)
    BY <1>1 DEF ServerCertificate, ServerGets, Ended
  <2>2. Kept(m) = Msg("certificate", m.body)
    BY <2>1 DEF Kept
  <2>3. /\ DOMAIN e = Fields /\ e.rest = Append(srv.rest, Kept(m)) /\ e.peer = m.body
        /\ \A f \in Fields \ {"pc", "rest", "peer"} : e[f] = srv[f]
    BY DEF Logged, Fields
  <2> HIDE DEF e
  <2>4. ASSUME AcceptsClient(m.body), m.body = None, ServerHeard(e) PROVE ServerHearsOut /\ NetShape'
    <3>1. IsSeq(srv.rest)
      BY <2>1, LogIsSeq
    <3> HIDE DEF m
    <3>2. /\ \E sent : ServerTakes(sent) /\ \A x \in sent : x.type = "ticket" /\ Grants(x.body, srv')
          /\ DOMAIN srv' = Fields /\ srv'.pc = "finished" /\ srv'.peer = e.peer
          /\ srv'.peerSum = [role |-> "client", phase |-> "finished", secret |-> Secret(srv),
                             log |-> [hellos |-> Hellos(srv), rest |-> Append(srv.rest, Kept(Head(c2s)))]]
          /\ \A f \in Fields \ {"pc", "rest", "peer", "peerSum", "session"} : srv'[f] = srv[f]
          /\ UNCHANGED sessions /\ NetShape'
      BY <2>1, <2>3, <2>4, <3>1, HeardDoes DEF m
    <3> QED BY <2>1, <2>3, <2>4, <3>2 DEF ServerHearsOut, m
  <2>5. ASSUME AcceptsClient(m.body), m.body # None, ServerNext(n, <<>>) PROVE ServerWaits /\ NetShape'
    <3>1. /\ DOMAIN n = Fields /\ n.pc = "verify" /\ n.peer = m.body /\ n.rest = Append(srv.rest, Kept(m))
          /\ \A f \in Fields \ {"pc", "rest", "peer"} : n[f] = srv[f]
      BY <2>3 DEF Fields
    <3> HIDE DEF n
    <3>2. srv' = n /\ ServerQuiet /\ NetShape'
      BY <2>1, <2>5, ServerReadsNet
    <3> QED BY <2>1, <2>2, <2>5, <3>1, <3>2 DEF ServerWaits
  <2> QED BY <2>1, <2>4, <2>5, ServerQuits
<1>2. CASE ServerVerify
  <2> DEFINE e == Logged(srv, m)
  <2>1. /\ srv.pc = "verify" /\ c2s # <<>> /\ m.type = "verify" /\ ~Ended(srv)
        /\ ServerFails(srv, <<>>) \/ ServerHeard(e)
    BY <1>2 DEF ServerVerify, ServerGets, Ended
  <2>2. /\ DOMAIN e = Fields /\ e.rest = Append(srv.rest, Kept(m)) /\ e.peer = srv.peer
        /\ \A f \in Fields \ {"pc", "rest", "peer"} : e[f] = srv[f]
    BY DEF Logged, Fields
  <2> HIDE DEF e
  <2>3. ASSUME ServerHeard(e) PROVE ServerHearsOut /\ NetShape'
    <3>1. IsSeq(srv.rest)
      BY <2>1, LogIsSeq
    <3> HIDE DEF m
    <3>2. /\ \E sent : ServerTakes(sent) /\ \A x \in sent : x.type = "ticket" /\ Grants(x.body, srv')
          /\ DOMAIN srv' = Fields /\ srv'.pc = "finished" /\ srv'.peer = e.peer
          /\ srv'.peerSum = [role |-> "client", phase |-> "finished", secret |-> Secret(srv),
                             log |-> [hellos |-> Hellos(srv), rest |-> Append(srv.rest, Kept(Head(c2s)))]]
          /\ \A f \in Fields \ {"pc", "rest", "peer", "peerSum", "session"} : srv'[f] = srv[f]
          /\ UNCHANGED sessions /\ NetShape'
      BY <2>1, <2>2, <2>3, <3>1, HeardDoes DEF m
    <3> QED BY <2>1, <2>2, <3>2 DEF ServerHearsOut, m
  <2> QED BY <2>1, <2>3, ServerQuits
<1> QED BY <1>1, <1>2

\* The client's Finished, which is the one that the server expects.
ServerCompletes ==
  /\ srv.pc = "finished" /\ ServerQuiet
  /\ Head(c2s).type = "finished"
  /\ srv' = [srv EXCEPT !.pc = "complete", !.key = srv.master]

\* ServerFinished completes or gives up.
LEMMA ServerFinishedDoes ==
  ASSUME NetShape, DOMAIN srv = Fields, ServerFinished PROVE (ServerGivesUp \/ ServerCompletes) /\ NetShape'
<1> DEFINE n == [srv EXCEPT !.pc = "complete", !.key = srv.master]
<1>1. /\ srv.pc = "finished" /\ c2s # <<>> /\ Head(c2s).type = "finished" /\ ~Ended(srv)
      /\ ServerFails(srv, <<>>) \/ ServerNext(n, <<>>)
  BY DEF ServerFinished, ServerGets, Ended
<1>2. ASSUME ServerNext(n, <<>>) PROVE ServerCompletes /\ NetShape'
  <2>1. srv' = n /\ ServerQuiet /\ NetShape'
    BY <1>1, <1>2, ServerReadsNet
  <2> QED BY <1>1, <2>1 DEF ServerCompletes
<1> QED BY <1>1, <1>2, ServerQuits

\* Every step of the server.
ServerSteps ==
  ServerGivesUp \/ ServerRetries \/ ServerAnswersHello \/ ServerWaits \/ ServerHearsOut \/ ServerCompletes

\* The whole of the server.
LEMMA ServerDoes ==
  ASSUME Shape, ServerInv, Server \/ ServerCut PROVE ServerSteps /\ NetShape'
<1>1. NetShape /\ DOMAIN srv = Fields
  BY DEF Shape
<1>2. ASSUME ServerUnexpected \/ ServerCut PROVE ServerGivesUp /\ NetShape'
  BY <1>1, <1>2, ServerQuits DEF ServerUnexpected, ServerCut
<1> QED BY <1>1, <1>2, HelloDoes, CertificateDoes, ServerFinishedDoes DEF Server, ServerSteps

----------------------------------------------------------------------------
(* What happens around them.                                               *)

\* A damaged hello of a client is a hello with the same ticket or none, and one of a
\* server is one of a server.
Damaged(q, nextq) ==
  \A m \in ToSet(nextq) : m \in ToSet(q) \/ m.type \in {"retry", "serverHello"} \/
    \E h \in ToSet(q) : /\ m.type = "clientHello" /\ h.type = "clientHello"
                        /\ DOMAIN m.body = DOMAIN h.body
                        /\ "ticket" \in DOMAIN h.body => m.body.ticket \in {None, h.body.ticket}

\* DamageHello: the first message of a direction, when it is a hello, is another hello.
HelloDamaged ==
  /\ Damaged(c2s, c2s') /\ Damaged(s2c, s2c')
  /\ UNCHANGED <<plan, ccfg, scfg, conn, now, cache, cli, srv, sessions>>

\* The first message of a direction, damaged.
LEMMA DamagedFirst ==
  ASSUME NEW q, NEW nextq, Wire(q), q # <<>>, nextq \in DamagedHead(q, Damages(Head(q)))
  PROVE  Damaged(q, nextq) /\ Wire(nextq)
<1> DEFINE h == Head(q)
<1>1. PICK m : /\ m.body \in Damages(h) /\ m.body # h.body /\ m.type = h.type
               /\ ToSet(nextq) = {m} \cup Later(q) /\ Wire(nextq)
               /\ h \in ToSet(q) /\ Later(q) \subseteq ToSet(q)
  BY DamagedNet
<1> HIDE DEF h
<1>2. CASE h.type = "clientHello"
  <2>1. DOMAIN m.body = DOMAIN h.body /\ ("ticket" \in DOMAIN h.body => m.body.ticket \in {None, h.body.ticket})
    BY <1>1, <1>2 DEF Damages
  <2> QED BY <1>1, <1>2, <2>1 DEF Damaged
<1>3. CASE h.type \in {"retry", "serverHello"}
  BY <1>1, <1>3 DEF Damaged
<1>4. CASE h.type \notin {"clientHello", "retry", "serverHello"}
  BY <1>1, <1>4 DEF Damages
<1> QED BY <1>2, <1>3, <1>4

\* DamageHello damages one of them.
LEMMA DamageDoes == ASSUME NetShape, DamageHello(Damages) PROVE HelloDamaged /\ NetShape'
<1>1. /\ Wire(c2s) /\ Wire(s2c) /\ Damaged(c2s, c2s) /\ Damaged(s2c, s2c)
      /\ UNCHANGED <<plan, ccfg, scfg, conn, now, cache, cli, srv, sessions>>
  BY DEF NetShape, Wire, DamageHello, Damaged
<1>2. CASE c2s # <<>> /\ c2s' \in DamagedHead(c2s, Damages(Head(c2s))) /\ UNCHANGED s2c
  <2>1. Damaged(c2s, c2s') /\ Wire(c2s')
    BY <1>1, <1>2, DamagedFirst
  <2> QED BY <1>1, <1>2, <2>1 DEF HelloDamaged, NetShape, Wire
<1>3. CASE s2c # <<>> /\ s2c' \in DamagedHead(s2c, Damages(Head(s2c))) /\ UNCHANGED c2s
  <2>1. Damaged(s2c, s2c') /\ Wire(s2c')
    BY <1>1, <1>3, DamagedFirst
  <2> QED BY <1>1, <1>3, <2>1 DEF HelloDamaged, NetShape, Wire
<1> QED BY <1>2, <1>3 DEF DamageHello

----------------------------------------------------------------------------
(* The invariant is inductive.                                             *)

\* Every step of the handshake.
Effects == ClientSteps \/ ServerSteps \/ HelloDamaged \/ Idles \/ Begins

\* Every step is one of these.
LEMMA StepDoes ==
  ASSUME Shape, ClientInv, ServerInv, [Next]_vars PROVE Effects /\ NetShape'
<1>1. NetShape
  BY DEF Shape
<1> QED BY <1>1, ClientDoes, ServerDoes, DamageDoes, AroundDoes DEF Next, Effects

\* Shape is kept.
LEMMA ShapeStep == ASSUME Shape, ClientInv, Effects, NetShape' PROVE Shape'
<1> USE DEF Shape, Fields, Keyed, Answering, world
<1>1. CASE ClientGivesUp
  BY <1>1 DEF ClientGivesUp, Evicted
<1>2. CASE ClientGreets
  BY <1>2 DEF ClientGreets
<1>3. CASE ClientRetries
  BY <1>3 DEF ClientRetries, ClientTakes, ClientReads
<1>4. CASE ClientHears
  BY <1>4 DEF ClientHears, ClientQuiet, ClientTakes, ClientReads
<1>5. CASE ClientReadsOn
  BY <1>5 DEF ClientReadsOn, ClientQuiet, ClientTakes, ClientReads
<1>6. CASE ClientCompletes
  BY <1>6 DEF ClientCompletes, ClientReads
<1>7. CASE ClientKeepsTicket
  BY <1>7 DEF ClientKeepsTicket, ClientReads
<1>8. CASE ServerGivesUp
  BY <1>8 DEF ServerGivesUp
<1>9. CASE ServerRetries
  BY <1>9 DEF ServerRetries, ServerTakes, ServerReads
<1>10. CASE ServerAnswersHello
  BY <1>10 DEF ServerAnswersHello, ServerTakes, ServerReads
<1>11. CASE ServerWaits
  BY <1>11 DEF ServerWaits, ServerQuiet, ServerTakes, ServerReads
<1>12. CASE ServerHearsOut
  BY <1>12 DEF ServerHearsOut, ServerTakes, ServerReads
<1>13. CASE ServerCompletes
  BY <1>13 DEF ServerCompletes, ServerQuiet, ServerTakes, ServerReads
<1>14. CASE HelloDamaged
  BY <1>14 DEF HelloDamaged
<1>15. CASE Idles
  BY <1>15 DEF Idles
<1>16. CASE Begins
  BY <1>16 DEF Begins, Fresh
<1> QED BY <1>1, <1>2, <1>3, <1>4, <1>5, <1>6, <1>7, <1>8, <1>9, <1>10, <1>11, <1>12, <1>13, <1>14, <1>15, <1>16
        DEF Effects, ClientSteps, ServerSteps

\* ClientInv is kept.
LEMMA ClientStep == ASSUME Shape, ClientInv, Effects PROVE ClientInv'
<1> USE DEF ClientInv, Fields, Keyed, world
<1>0. DOMAIN cli = Fields
  BY DEF Shape
<1>1. CASE ClientGivesUp
  BY <1>0, <1>1 DEF ClientGivesUp
<1>2. CASE ClientGreets
  <2>1. cli.rest = <<>> /\ cli.request = None
    BY <1>2 DEF ClientGreets, Fresh
  <2> QED BY <1>0, <1>2, <2>1 DEF ClientGreets
<1>3. CASE ClientRetries
  BY <1>0, <1>3 DEF ClientRetries, ClientTakes, ClientReads
<1>4. CASE ClientHears
  BY <1>0, <1>4 DEF ClientHears, ClientQuiet, ClientTakes, ClientReads
<1>5. CASE ClientReadsOn
  <2>1. /\ DOMAIN cli' = Fields /\ cli'.rest = Append(cli.rest, Kept(Head(s2c))) /\ UNCHANGED conn
        /\ \A f \in Fields \ {"pc", "rest", "proto", "request", "peer"} : cli'[f] = cli[f]
    BY <1>5 DEF ClientReadsOn, ClientQuiet, ClientTakes, ClientReads
  <2>2. \A m : Kept(m).type = m.type
    BY Headers DEF Kept
  <2>3. CASE cli.pc = "parameters"
    <3>1. /\ Head(s2c).type = "extensions" /\ cli'.pc = IF cli.resumed THEN "finished" ELSE "afterParameters"
          /\ cli'.proto = Head(s2c).body /\ cli'.request = cli.request /\ cli'.peer = cli.peer
          /\ cli.rest = <<>> /\ cli.request = None
      BY <1>5, <2>3 DEF ClientReadsOn
    <3>2. Kept(Head(s2c)) = Msg("extensions", cli'.proto)
      BY <3>1 DEF Kept
    <3>3. Names1(cli'.rest, cli'.proto)
      BY <2>1, <3>1, <3>2, Appended, Short DEF Names1
    <3> QED BY <1>0, <2>1, <2>3, <3>1, <3>3
  <2>4. CASE cli.pc # "parameters"
    <3>1. /\ cli.pc \in {"afterParameters", "certificate", "verify"} /\ cli'.proto = cli.proto
          /\ cli'.pc \in {"certificate", "verify", "finished"}
          /\ cli'.request # cli.request => Head(s2c).type = "request"
      BY <1>5, <2>4 DEF ClientReadsOn
    <3>2. Names1(cli.rest, cli.proto) /\ (cli.request # None => Requested(cli.rest)) /\ ~cli.resumed
      BY <3>1
    <3>3. /\ Names1(cli'.rest, cli'.proto) /\ ToSet(cli'.rest) = ToSet(cli.rest) \cup {Kept(Head(s2c))}
      BY <2>1, <3>1, <3>2, Appended DEF Names1
    <3>4. cli'.request # None => Requested(cli'.rest)
      BY <2>2, <3>1, <3>2, <3>3 DEF Requested
    <3> QED BY <1>0, <2>1, <3>1, <3>2, <3>3, <3>4
  <2> QED BY <2>3, <2>4
<1>6. CASE ClientCompletes
  <2>1. /\ cli.pc = "finished" /\ DOMAIN cli' = Fields /\ cli'.pc = "complete" /\ cli'.peerSum = FinishedMAC("server", cli)
        /\ cli'.key = TrafficOf("server", cli'.peerSum) /\ cli'.out = TrafficOf("client", cli'.peerSum)
        /\ cli'.master = ResumptionOf(cli'.sum) /\ UNCHANGED conn
        /\ \A f \in Fields \ {"pc", "rest", "key", "out", "peerSum", "sum", "master"} : cli'[f] = cli[f]
    BY <1>6 DEF ClientCompletes, ClientReads
  <2>2. Secret(cli') = Secret(cli) /\ Hellos(cli') = Hellos(cli)
    BY <1>0, <2>1 DEF Secret, Hellos, Retry
  <2>3. /\ cli'.peerSum.secret = Secret(cli) /\ cli'.peerSum.log.hellos = Hellos(cli)
        /\ cli'.peerSum.log.rest = cli.rest
    BY <2>1 DEF FinishedMAC, Transcript
  <2>4. Covers(cli'.peerSum, cli')
    BY <2>2, <2>3 DEF Covers
  <2> QED BY <1>0, <2>1, <2>3, <2>4
<1>7. CASE ClientKeepsTicket
  BY <1>7 DEF ClientKeepsTicket, ClientReads
<1>8. CASE ServerSteps
  <2>1. UNCHANGED <<cli, conn>>
    BY <1>8 DEF ServerSteps, ServerGivesUp, ServerRetries, ServerAnswersHello, ServerWaits, ServerHearsOut,
                ServerCompletes, ServerQuiet, ServerTakes, ServerReads
  <2> QED BY <2>1
<1>9. CASE HelloDamaged
  BY <1>9 DEF HelloDamaged
<1>10. CASE Idles
  BY <1>10 DEF Idles
<1>11. CASE Begins
  BY <1>11 DEF Begins, Fresh
<1> QED BY <1>1, <1>2, <1>3, <1>4, <1>5, <1>6, <1>7, <1>8, <1>9, <1>10, <1>11 DEF Effects, ClientSteps

\* What a server has signed stays: later steps change neither the hellos nor the
\* secrets, and its peer only when the client was asked for a certificate.
Standing == {"retry", "ch", "sh", "resumed", "offered", "proto", "early", "shared", "out", "sum"}

\* What a server has signed stands while its settled fields stay and sessions are only added.
LEMMA SignedStays ==
  ASSUME ServerSigned, sessions \subseteq sessions', UNCHANGED <<scfg, conn>>,
         \A f \in Standing : srv'[f] = srv[f], srv'.peer = srv.peer \/ Asks, srv'.pc # "clientHello",
         srv'.pc # "failed" => (IF srv'.pc = "complete" THEN srv'.key ELSE srv'.master) = TrafficOf("client", srv.sum)
  PROVE  ServerSigned' /\ (Asks' <=> Asks)
<1>1. /\ srv'.retry = srv.retry /\ srv'.ch = srv.ch /\ srv'.sh = srv.sh /\ srv'.resumed = srv.resumed
      /\ srv'.offered = srv.offered /\ srv'.proto = srv.proto /\ srv'.early = srv.early /\ srv'.shared = srv.shared
      /\ srv'.out = srv.out /\ srv'.sum = srv.sum
  BY DEF Standing
<1>2. Secret(srv') = Secret(srv) /\ Hellos(srv') = Hellos(srv)
  BY <1>1 DEF Secret, Hellos, Retry
<1>3. Asks' <=> Asks
  BY <1>1 DEF Asks, RequestsClientCert
<1>4. /\ Covers(srv'.sum, srv') /\ Names1(srv'.sum.log.rest, srv'.proto)
      /\ Requested(srv'.sum.log.rest) => Asks'
  BY <1>1, <1>2, <1>3 DEF ServerSigned, Covers
<1>5. /\ srv'.out = TrafficOf("server", srv'.sum) /\ srv'.sh.psk = srv'.resumed
      /\ srv'.sh.share.of = <<"server", conn'>>
      /\ srv'.early = EarlySecret(IF srv'.resumed THEN srv'.offered.master ELSE None)
      /\ srv'.pc # "failed" => (IF srv'.pc = "complete" THEN srv'.key ELSE srv'.master) = TrafficOf("client", srv'.sum)
  BY <1>1 DEF ServerSigned
<1>6. Asks => ~srv.resumed
  BY DEF Asks, RequestsClientCert
<1>7. srv'.resumed => srv'.peer = srv'.offered.cert /\ Known(srv.offered.master, srv.peer)'
  BY <1>1, <1>6 DEF ServerSigned, Known
<1>8. ~srv'.resumed /\ ~Asks' => srv'.peer = None
  BY <1>1, <1>3 DEF ServerSigned
<1> QED BY <1>3, <1>4, <1>5, <1>7, <1>8 DEF ServerSigned

\* The server's steps that change nothing of that.
LEMMA ServerGoesOn ==
  ASSUME Shape, ServerInv, ServerSigned, ServerGivesUp \/ ServerWaits \/ ServerHearsOut \/ ServerCompletes
  PROVE  ServerSigned' /\ (Asks' <=> Asks)
<1>0. DOMAIN srv = Fields /\ (srv.pc = "certificate" => Asks) /\ srv.pc # "clientHello"
  BY DEF Shape, ServerInv, ServerSigned
<1> USE DEF Standing, Fields, world
<1>1. CASE ServerGivesUp
  <2>1. /\ sessions \subseteq sessions' /\ UNCHANGED <<scfg, conn>> /\ \A f \in Standing : srv'[f] = srv[f]
        /\ srv'.peer = srv.peer /\ srv'.pc = "failed"
    BY <1>0, <1>1 DEF ServerGivesUp
  <2> QED BY <2>1, SignedStays
<1>2. CASE ServerWaits \/ ServerHearsOut
  <2>1. /\ sessions \subseteq sessions' /\ UNCHANGED <<scfg, conn>> /\ \A f \in Standing : srv'[f] = srv[f]
        /\ srv.pc \in {"certificate", "verify"} /\ srv'.pc \in {"verify", "finished"} /\ srv'.master = srv.master
        /\ srv.pc # "certificate" => srv'.peer = srv.peer
    BY <1>0, <1>2 DEF ServerWaits, ServerHearsOut, ServerQuiet, ServerTakes, ServerReads
  <2>2. srv.master = TrafficOf("client", srv.sum)
    BY <2>1 DEF ServerSigned
  <2> QED BY <1>0, <2>1, <2>2, SignedStays
<1>3. CASE ServerCompletes
  <2>1. /\ sessions \subseteq sessions' /\ UNCHANGED <<scfg, conn>> /\ \A f \in Standing : srv'[f] = srv[f]
        /\ srv.pc = "finished" /\ srv'.pc = "complete" /\ srv'.key = srv.master /\ srv'.peer = srv.peer
    BY <1>0, <1>3 DEF ServerCompletes, ServerQuiet, ServerTakes, ServerReads
  <2>2. srv.master = TrafficOf("client", srv.sum)
    BY <2>1 DEF ServerSigned
  <2> QED BY <2>1, <2>2, SignedStays
<1> QED BY <1>1, <1>2, <1>3

\* Steps of the client, and around the ends, leave the server as it is.
LEMMA ServerIsLeft ==
  ASSUME ClientSteps \/ HelloDamaged \/ Idles
  PROVE  sessions \subseteq sessions' /\ UNCHANGED <<srv, scfg, conn>>
BY DEF ClientSteps, HelloDamaged, Idles, ClientGivesUp, ClientGreets, ClientRetries, ClientHears, ClientReadsOn,
       ClientCompletes, ClientKeepsTicket, ClientQuiet, ClientTakes, ClientReads, world

\* A step of the client, or a loss, leaves it standing.
LEMMA SignedIsLeft ==
  ASSUME ServerSigned, ClientSteps \/ HelloDamaged \/ Idles PROVE ServerSigned' /\ (Asks' <=> Asks)
<1>1. sessions \subseteq sessions' /\ UNCHANGED <<srv, scfg, conn>>
  BY ServerIsLeft
<1> QED BY <1>1, SignedStays DEF ServerSigned

\* The answer to a hello: what it resumes comes out of a ticket.
LEMMA AnswerSigned ==
  ASSUME Shape, WireInv, ServerAnswersHello PROVE ServerSigned'
<1>1. /\ srv'.pc \in {"certificate", "finished"} /\ UNCHANGED <<sessions, conn>>
      /\ c2s # <<>> /\ Head(c2s) \in ToSet(c2s) /\ Head(c2s).type = "clientHello"
  BY DEF ServerAnswersHello, ServerTakes, ServerReads, world
<1>2. srv'.resumed => Known(srv.offered.master, srv.peer)'
  BY <1>1 DEF ServerAnswersHello, WireInv, TicketOk, Known
<1> QED BY <1>1, <1>2 DEF ServerSigned, ServerAnswersHello

\* ServerInv is kept.
LEMMA ServerStep == ASSUME Shape, ServerInv, WireInv, Effects PROVE ServerInv'
<1>0. DOMAIN srv = Fields /\ (srv.pc \in Answering => ServerSigned) /\ srv.pc \in {"clientHello", "failed"} \cup Answering
  BY DEF Shape, ServerInv
<1> USE DEF Answering
<1>1. CASE ClientSteps \/ HelloDamaged \/ Idles
  <2>1. sessions \subseteq sessions' /\ UNCHANGED <<srv, scfg, conn>>
    BY <1>1, ServerIsLeft
  <2>2. cli.pc = "complete" => cli'.pc = "complete"
    BY <1>1 DEF ClientSteps, HelloDamaged, Idles, ClientGivesUp, ClientGreets, ClientRetries, ClientHears, ClientReadsOn,
                ClientCompletes, ClientKeepsTicket, Ended
  <2>3. srv'.pc \in Answering => ServerSigned' /\ (Asks' <=> Asks)
    BY <1>0, <1>1, <2>1, SignedIsLeft
  <2> QED BY <2>1, <2>2, <2>3 DEF ServerInv
<1>2. CASE ServerGivesUp
  <2>1. srv'.pc = "failed"
    BY <1>2 DEF ServerGivesUp
  <2> QED BY <2>1 DEF ServerInv
<1>3. CASE ServerRetries
  <2>1. PICK retry : srv' = [srv EXCEPT !.retry = retry]
    BY <1>3 DEF ServerRetries
  <2>2. srv.pc = "clientHello" /\ srv = [Fresh("clientHello") EXCEPT !.retry = srv.retry]
    BY <1>3 DEF ServerRetries, ServerInv
  <2> DEFINE old == srv.retry
  <2> HIDE DEF old
  <2>3. srv' = [[Fresh("clientHello") EXCEPT !.retry = old] EXCEPT !.retry = retry]
    BY <2>1, <2>2 DEF old
  <2>4. srv' = [Fresh("clientHello") EXCEPT !.retry = srv'.retry] /\ srv'.pc = "clientHello"
    BY <2>3 DEF Fresh
  <2> QED BY <2>4 DEF ServerInv
<1>4. CASE ServerAnswersHello
  <2>1. ServerSigned'
    BY <1>4, AnswerSigned
  <2>2. srv'.pc = IF Asks' THEN "certificate" ELSE "finished"
    BY <1>4 DEF ServerAnswersHello
  <2>3. Asks' => srv'.rest = After(srv'.sum).rest
    BY <1>4 DEF ServerAnswersHello
  <2> QED BY <2>1, <2>2, <2>3 DEF ServerInv
<1>5. CASE ServerWaits
  <2>1. ServerSigned' /\ (Asks' <=> Asks)
    BY <1>0, <1>5, ServerGoesOn DEF ServerWaits
  <2>2. /\ srv.pc = "certificate" /\ srv'.pc = "verify" /\ srv'.peer = Head(c2s).body /\ srv'.peer # None
        /\ srv'.rest = Append(srv.rest, Msg("certificate", srv'.peer)) /\ srv'.sum = srv.sum
        /\ Head(c2s) \in ToSet(c2s) /\ Head(c2s).type = "certificate" /\ cli' = cli
    BY <1>0, <1>5 DEF ServerWaits, ServerQuiet, ServerTakes, ServerReads, Fields
  <2>3. cli'.pc = "complete"
    BY <2>2 DEF WireInv
  <2>4. Asks /\ srv.rest = After(srv.sum).rest
    BY <2>2 DEF ServerInv
  <2> QED BY <2>1, <2>2, <2>3, <2>4 DEF ServerInv
<1>6. CASE ServerHearsOut \/ ServerCompletes
  <2>1. srv.pc \in Answering /\ srv'.pc \in {"finished", "complete"}
    BY <1>0, <1>6 DEF ServerHearsOut, ServerCompletes, Fields
  <2>2. ServerSigned'
    BY <1>0, <1>6, <2>1, ServerGoesOn
  <2> QED BY <2>1, <2>2 DEF ServerInv
<1>7. CASE Begins
  <2>1. srv' = Fresh("clientHello")
    BY <1>7 DEF Begins
  <2>2. srv'.pc = "clientHello" /\ srv' = [Fresh("clientHello") EXCEPT !.retry = srv'.retry]
    BY <2>1 DEF Fresh
  <2> QED BY <2>2 DEF ServerInv
<1> QED BY <1>1, <1>2, <1>3, <1>4, <1>5, <1>6, <1>7 DEF Effects, ServerSteps

\* Tickets and sessions that were of a completed handshake remain so.
LEMMA TicketsRemain ==
  ASSUME sessions \subseteq sessions'
  PROVE  /\ \A t : TicketOk(t) => TicketOk(t)'
         /\ \A s : SessionOk(s) => SessionOk(s)'
BY DEF TicketOk, SessionOk, Known

\* A client's offer is a session it has stored.
LEMMA OfferIsStored ==
  ASSUME Shape, SessionInv, NEW hello, Offered(hello) # None
  PROVE  /\ SessionOk(Offered(hello)) /\ Offered(hello) = cache[CacheKey(ccfg)] /\ CacheKey(ccfg) \in DOMAIN cache
         /\ Offered(hello) = Stored /\ Usable(hello)
<1>1. Offered(hello) = Stored /\ Stored = cache[CacheKey(ccfg)] /\ CacheKey(ccfg) \in DOMAIN cache /\ Usable(hello)
  BY DEF Offered, Stored, Shape
<1> QED BY <1>1 DEF SessionInv

\* The Finished messages and the tickets that were on their way still fit the server.
LEMMA StillFits ==
  ASSUME Shape, ServerInv, WireInv, OrderInv,
         ServerGivesUp \/ ServerWaits \/ ServerHearsOut \/ ServerCompletes
  PROVE  \A m \in ToSet(s2c) : /\ m.type = "finished" => m.body = srv'.sum /\ ServerSigned'
                               /\ m.type = "ticket" => Grants(m.body, srv') /\ ServerSigned'
<1> USE DEF Fields
<1>0. DOMAIN srv = Fields
  BY DEF Shape
<1> SUFFICES ASSUME NEW m \in ToSet(s2c), m.type \in {"finished", "ticket"}
             PROVE  /\ m.type = "finished" => m.body = srv'.sum /\ ServerSigned'
                    /\ m.type = "ticket" => Grants(m.body, srv') /\ ServerSigned'
  OBVIOUS
<1>1. ServerSigned /\ (m.type = "finished" => m.body = srv.sum) /\ (m.type = "ticket" => Grants(m.body, srv))
  BY DEF WireInv
<1>2. ServerSigned'
  BY <1>1, ServerGoesOn
<1>3. m.type = "ticket" => srv.pc \in {"finished", "complete", "failed"}
  BY DEF OrderInv, Granted
<1>4. srv.pc # "clientHello"
  BY <1>1 DEF ServerSigned
<1>5. srv'.sum = srv.sum
  BY <1>0, <1>4 DEF ServerGivesUp, ServerWaits, ServerHearsOut, ServerCompletes
<1>6. m.type = "ticket" => srv'.peerSum = srv.peerSum /\ srv'.sh = srv.sh /\ srv'.peer = srv.peer
  BY <1>0, <1>3, <1>4 DEF ServerGivesUp, ServerWaits, ServerHearsOut, ServerCompletes
<1>7. m.type = "ticket" => Grants(m.body, srv')
  BY <1>1, <1>6 DEF Grants
<1> QED BY <1>1, <1>2, <1>5, <1>7

\* WireInv is kept.
LEMMA WireStep ==
  ASSUME Shape, ClientInv, ServerInv, WireInv, OrderInv, SessionInv, Effects PROVE WireInv'
<1> USE DEF world
<1>0. /\ DOMAIN cli = Fields /\ DOMAIN srv = Fields /\ Later(c2s) \subseteq ToSet(c2s) /\ Later(s2c) \subseteq ToSet(s2c)
  BY DEF Shape, NetShape, Later, ToSet, IsSeq
<1> DEFINE Upstream(m) ==
             /\ m.type = "clientHello" => DOMAIN m.body = HelloFields /\ (m.body.ticket # None => TicketOk(m.body.ticket))
             /\ m.type \in {"certificate", "finished"} => cli.pc = "complete"
           Downstream(m) ==
             /\ m.type = "finished" => m.body = srv.sum /\ ServerSigned
             /\ m.type = "ticket" => Grants(m.body, srv) /\ ServerSigned
<1>a. WireInv <=> (\A m \in ToSet(c2s) : Upstream(m)) /\ (\A m \in ToSet(s2c) : Downstream(m))
  BY DEF WireInv
<1>b. WireInv' <=> (\A m \in ToSet(c2s') : Upstream(m)') /\ (\A m \in ToSet(s2c') : Downstream(m)')
  BY DEF WireInv
<1>c. Close.type = "close"
  BY Headers DEF Close
\* What comes from the server, when the client or something around them moves.
<1>d. ASSUME ClientSteps \/ HelloDamaged \/ Idles, \A m \in ToSet(s2c') : m \in ToSet(s2c) \/ m.type \in {"retry", "serverHello"}
      PROVE  \A m \in ToSet(s2c') : Downstream(m)'
  <2>1. srv' = srv
    BY <1>d, ServerIsLeft
  <2>2. ServerSigned => ServerSigned'
    BY <1>d, SignedIsLeft
  <2>3. \A t : Grants(t, srv) => Grants(t, srv')
    BY <2>1
  <2> QED BY <1>a, <1>d, <2>1, <2>2, <2>3
\* What comes from the client, when it has not completed or stays as it is.
<1>e. ASSUME sessions \subseteq sessions', cli'.pc = cli.pc \/ cli.pc # "complete", NEW m, Upstream(m)
      PROVE  Upstream(m)'
  BY <1>e, TicketsRemain
\* What comes from the client, when the server moves.
<1>f. ASSUME ServerSteps PROVE \A m \in ToSet(c2s') : Upstream(m)'
  <2>1. cli' = cli /\ sessions' = sessions /\ ToSet(c2s') \subseteq ToSet(c2s)
    BY <1>0, <1>f DEF ServerSteps, ServerGivesUp, ServerRetries, ServerAnswersHello, ServerWaits, ServerHearsOut,
                ServerCompletes, ServerQuiet, ServerTakes, ServerReads
  <2> QED BY <1>a, <1>e, <2>1
<1> HIDE DEF Downstream
<1>1. CASE ClientGivesUp
  <2>1. /\ ToSet(s2c') = {} /\ ToSet(c2s') \subseteq ToSet(c2s) \cup {Close} /\ cli.pc # "complete" /\ sessions' = sessions
    BY <1>1 DEF ClientGivesUp, Ended
  <2>2. \A m \in ToSet(c2s) : Upstream(m)'
    BY <1>a, <1>e, <2>1
  <2> QED BY <1>b, <1>c, <2>1, <2>2
<1>2. CASE ClientGreets
  <2>1. PICK hello : /\ DOMAIN cli'.ch = HelloFields
                     /\ cli'.ch.ticket = IF Offered(hello) = None THEN None ELSE Offered(hello).ticket
    BY <1>2 DEF ClientGreets
  <2>2. /\ s2c' = s2c /\ ToSet(c2s') \subseteq ToSet(c2s) \cup {Msg("clientHello", cli'.ch)} /\ cli.pc = "start"
        /\ sessions' = sessions
    BY <1>2 DEF ClientGreets
  <2>3. cli'.ch.ticket # None => TicketOk(cli.ch.ticket)'
    <3>1. Offered(hello) # None => SessionOk(Offered(hello))
      BY OfferIsStored
    <3>2. Offered(hello) # None => TicketOk(Offered(hello).ticket)
      BY <3>1 DEF SessionOk
    <3> QED BY <2>1, <2>2, <3>2 DEF TicketOk, Known
  <2>4. \A m : m.type = "clientHello" /\ m.body = cli'.ch => Upstream(m)'
    BY <2>1, <2>3
  <2>5. \A m \in ToSet(c2s) : Upstream(m)'
    BY <1>a, <1>e, <2>2
  <2>6. \A m \in ToSet(s2c') : Downstream(m)'
    BY <1>2, <1>d, <2>2 DEF ClientSteps
  <2> HIDE DEF Upstream
  <2> QED BY <1>b, <2>2, <2>4, <2>5, <2>6, Headers
<1>3. CASE ClientRetries
  <2>1. PICK ch : /\ DOMAIN ch = HelloFields /\ ch.ticket \in {cli.ch.ticket, None} /\ ClientTakes({Msg("clientHello", ch)})
    BY <1>3 DEF ClientRetries
  <2>2. cli.pc = "serverHello" /\ sessions' = sessions
    BY <1>3 DEF ClientRetries
  <2>3. /\ ToSet(s2c') \subseteq ToSet(s2c) /\ ToSet(c2s') \subseteq ToSet(c2s) \cup {Msg("clientHello", ch)}
    BY <1>0, <2>1 DEF ClientTakes, ClientReads, ClientAdds
  <2>4. cli.ch.ticket # None => TicketOk(cli.ch.ticket)
    BY <2>2 DEF ClientInv, SessionInv, SessionOk
  <2>5. ch.ticket # None => TicketOk(ch.ticket)'
    BY <2>1, <2>2, <2>4 DEF TicketOk, Known
  <2>6. \A m : m.type = "clientHello" /\ m.body = ch => Upstream(m)'
    BY <2>1, <2>5
  <2>7. \A m \in ToSet(c2s) : Upstream(m)'
    BY <1>a, <1>e, <2>2
  <2>8. \A m \in ToSet(s2c') : Downstream(m)'
    BY <1>3, <1>d, <2>3 DEF ClientSteps
  <2> HIDE DEF Upstream
  <2> QED BY <1>b, <2>3, <2>6, <2>7, <2>8, Headers
<1>4. CASE ClientHears \/ ClientReadsOn \/ ClientKeepsTicket
  <2>1. /\ ToSet(s2c') \subseteq ToSet(s2c) /\ ToSet(c2s') \subseteq ToSet(c2s) /\ sessions' = sessions
        /\ cli'.pc = cli.pc \/ cli.pc # "complete"
    BY <1>0, <1>4 DEF ClientHears, ClientReadsOn, ClientKeepsTicket, ClientQuiet, ClientTakes, ClientReads, ClientAdds
  <2>2. \A m \in ToSet(c2s) : Upstream(m)'
    BY <1>a, <1>e, <2>1
  <2>3. \A m \in ToSet(s2c') : Downstream(m)'
    BY <1>4, <1>d, <2>1 DEF ClientSteps
  <2> QED BY <1>b, <2>1, <2>2, <2>3
<1>5. CASE ClientCompletes
  <2>1. PICK sent : ClientAdds(sent) /\ \A m \in sent : Ends(m, OwnCertificate)
    BY <1>5 DEF ClientCompletes
  <2>2. /\ ToSet(s2c') \subseteq ToSet(s2c) /\ ToSet(c2s') \subseteq ToSet(c2s) \cup sent /\ sessions \subseteq sessions'
        /\ cli.pc # "complete" /\ cli'.pc = "complete"
    BY <1>0, <1>5, <2>1 DEF ClientCompletes, ClientReads, ClientAdds
  <2>3. \A m \in sent : Upstream(m)'
    BY <2>1, <2>2 DEF Ends
  <2>4. \A m \in ToSet(c2s) : Upstream(m)'
    BY <1>a, <1>e, <2>2
  <2>5. \A m \in ToSet(s2c') : Downstream(m)'
    BY <1>5, <1>d, <2>2 DEF ClientSteps
  <2> QED BY <1>b, <2>2, <2>3, <2>4, <2>5
<1>6. CASE ServerGivesUp \/ ServerWaits \/ ServerHearsOut \/ ServerCompletes
  <2>1. \A m \in ToSet(s2c) : Downstream(m)'
    BY <1>6, StillFits DEF Downstream
  <2>2. ASSUME NEW m \in ToSet(s2c'), m \notin ToSet(s2c) PROVE Downstream(m)'
    <3>1. m = Close \/ (srv.pc \in {"certificate", "verify"} /\ ServerHearsOut /\ m.type = "ticket" /\ Grants(m.body, srv'))
      BY <1>6, <2>2 DEF ServerGivesUp, ServerWaits, ServerHearsOut, ServerCompletes, ServerQuiet, ServerTakes, ServerAdds
    <3>2. CASE m = Close
      BY <1>c, <3>2 DEF Downstream
    <3>3. CASE srv.pc \in {"certificate", "verify"} /\ ServerHearsOut /\ m.type = "ticket" /\ Grants(m.body, srv')
      <4>1. ServerSigned'
        BY <3>3, ServerGoesOn DEF ServerInv, Answering
      <4> QED BY <3>3, <4>1 DEF Downstream
    <3> QED BY <3>1, <3>2, <3>3
  <2>3. \A m \in ToSet(c2s') : Upstream(m)'
    BY <1>6, <1>f DEF ServerSteps
  <2> QED BY <1>b, <2>1, <2>2, <2>3
<1>7. CASE ServerRetries \/ ServerAnswersHello
  <2>1. srv.pc = "clientHello"
    BY <1>7 DEF ServerRetries, ServerAnswersHello
  <2>2. \A m \in ToSet(s2c) : m.type \notin {"finished", "ticket"}
    BY <2>1 DEF WireInv, ServerSigned
  <2>3. ASSUME NEW m \in ToSet(s2c'), m.type \in {"finished", "ticket"} PROVE Downstream(m)'
    <3>1. m \notin ToSet(s2c)
      BY <2>2, <2>3
    <3>2. ServerAnswersHello /\ Answers(m, srv')
      BY <1>7, <2>3, <3>1, Headers DEF ServerRetries, ServerAnswersHello, ServerTakes, ServerAdds
    <3>3. ServerSigned'
      BY <3>2, AnswerSigned
    <3> QED BY <2>3, <3>2, <3>3 DEF Answers, Downstream
  <2>4. \A m \in ToSet(s2c') : Downstream(m)'
    BY <2>3 DEF Downstream
  <2>5. \A m \in ToSet(c2s') : Upstream(m)'
    BY <1>7, <1>f DEF ServerSteps
  <2> QED BY <1>b, <2>4, <2>5
<1>8. CASE HelloDamaged
  <2>1. /\ Damaged(c2s, c2s') /\ cli' = cli /\ sessions' = sessions
        /\ \A m \in ToSet(s2c') : m \in ToSet(s2c) \/ m.type \notin {"finished", "ticket"}
    BY <1>8 DEF HelloDamaged, Damaged
  <2>2. srv' = srv /\ (ServerSigned => ServerSigned')
    BY <1>8, ServerIsLeft, SignedIsLeft
  <2>3. \A m \in ToSet(s2c') : Downstream(m)'
    BY <1>a, <2>1, <2>2 DEF Downstream
  <2>4. \A m \in ToSet(c2s) : Upstream(m)'
    BY <1>a, <1>e, <2>1
  <2>5. ASSUME NEW m \in ToSet(c2s'), m \notin ToSet(c2s) PROVE Upstream(m)'
    <3>1. CASE m.type \in {"retry", "serverHello"}
      BY <3>1
    <3>2. CASE m.type \notin {"retry", "serverHello"}
      <4>1. PICK h \in ToSet(c2s) : /\ m.type = "clientHello" /\ h.type = "clientHello" /\ DOMAIN m.body = DOMAIN h.body
                                    /\ "ticket" \in DOMAIN h.body => m.body.ticket \in {None, h.body.ticket}
        BY <2>1, <2>5, <3>2 DEF Damaged
      <4>2. Upstream(h)'
        BY <2>4
      <4> QED BY <4>1, <4>2 DEF HelloFields
    <3> QED BY <3>1, <3>2
  <2> QED BY <1>b, <2>3, <2>4, <2>5
<1>9. CASE Idles
  <2>1. UNCHANGED <<c2s, s2c, cli, sessions>>
    BY <1>9 DEF Idles, net
  <2>2. \A m \in ToSet(s2c') : Downstream(m)'
    BY <1>9, <1>d, <2>1
  <2>3. \A m \in ToSet(c2s) : Upstream(m)'
    BY <1>a, <1>e, <2>1
  <2> QED BY <1>b, <2>1, <2>2, <2>3
<1>10. CASE Begins
  BY <1>10, <1>b DEF Begins
<1> QED BY <1>1, <1>2, <1>3, <1>4, <1>5, <1>6, <1>7, <1>8, <1>9, <1>10 DEF Effects, ClientSteps, ServerSteps

\* A client that completes has checked the server's Finished, and with it agrees on
\* the hellos, the secret and the protocol; if the server already knows its last
\* flight, that holds no certificate, and the certificate of a session that goes on
\* is the same on both sides.
LEMMA ClientSettles ==
  ASSUME Shape, ClientInv, ServerInv, WireInv, OrderInv, BornInv, ClientCompletes
  PROVE  /\ ServerSigned /\ cli'.peerSum = srv.sum
         /\ cli.sh = srv.sh /\ cli.early = srv.early /\ cli.shared = srv.shared /\ cli.resumed = srv.resumed
         /\ cli.request # None => Asks
         /\ srv.pc \in {"verify", "finished", "complete"} \/ Granted => ~Asks /\ OwnCertificate = srv.peer
<1>1. /\ cli.pc = "finished" /\ Head(s2c) \in ToSet(s2c) /\ Head(s2c).type = "finished"
      /\ Head(s2c).body = FinishedMAC("server", cli) /\ cli'.peerSum = Head(s2c).body
  BY DEF ClientCompletes, ClientReads
<1>2. ServerSigned /\ srv.sum = FinishedMAC("server", cli) /\ cli'.peerSum = srv.sum
  BY <1>1 DEF WireInv
<1>3. srv.sum.secret = Secret(cli) /\ srv.sum.log.hellos = Hellos(cli) /\ srv.sum.log.rest = cli.rest
  BY <1>2 DEF FinishedMAC, Transcript
<1>4. Secret(cli) = Secret(srv) /\ Hellos(cli) = Hellos(srv)
  BY <1>2, <1>3 DEF ServerSigned, Covers
<1>5. cli.sh = srv.sh /\ cli.early = srv.early /\ cli.shared = srv.shared
  BY <1>4 DEF Secret, Hellos
<1>6. cli.resumed = srv.resumed
  BY <1>1, <1>2, <1>5 DEF ClientInv, Keyed, ServerSigned
<1>7. cli.request # None => Asks
  BY <1>1, <1>2, <1>3 DEF ClientInv, Keyed, ServerSigned
<1>8. ASSUME srv.pc \in {"verify", "finished", "complete"} \/ Granted PROVE ~Asks /\ OwnCertificate = srv.peer
  <2>1. ~Asks
    BY <1>1, <1>8 DEF ServerInv, OrderInv, Heard
  <2>2. CASE srv.resumed
    <3>1. cli.resumed
      BY <1>6, <2>2
    <3>2. cli.early = EarlySecret(cli.offered.master) /\ srv.early = EarlySecret(srv.offered.master)
      BY <1>1, <1>2, <2>2, <3>1 DEF ClientInv, Keyed, ServerSigned
    <3>3. cli.offered.master = srv.offered.master
      <4>1. \A psk : EarlySecret(psk)[2] = psk
        BY DEF EarlySecret
      <4> QED BY <1>5, <3>2, <4>1
    <3>4. PICK s \in sessions : s.master = cli.offered.master /\ s.client = srv.peer
      BY <1>2, <2>2, <3>3 DEF ServerSigned, Known
    <3> DEFINE c == CHOOSE x \in sessions : x.master = cli.offered.master
    <3>5. c \in sessions /\ c.master = cli.offered.master
      BY <3>4
    <3> HIDE DEF c
    <3>6. c.client = srv.peer
      BY <3>4, <3>5 DEF BornInv
    <3>7. OwnCertificate = c.client
      BY <3>1 DEF OwnCertificate, c
    <3> QED BY <2>1, <3>6, <3>7
  <2>3. CASE ~srv.resumed
    <3>1. cli.request = None /\ ~cli.resumed
      BY <1>6, <1>7, <2>1, <2>3
    <3>2. OwnCertificate = None
      BY <3>1 DEF OwnCertificate
    <3> QED BY <1>2, <2>1, <2>3, <3>2 DEF ServerSigned
  <2> QED BY <2>2, <2>3
<1> QED BY <1>2, <1>5, <1>6, <1>7, <1>8

\* A server that has heard the client out knows the certificate and the Finished of
\* the client, which has completed.
LEMMA ServerSettles ==
  ASSUME Shape, ServerInv, WireInv, OrderInv, ServerHearsOut \/ ServerWaits,
         NEW x, Own(cli, x.client),
         \A m \in ToSet(c2s) : m.type = "certificate" => m.body = x.client /\ cli.request # None,
         srv.pc \in {"verify", "finished", "complete"} \/ Granted => srv.peer = x.client,
         srv.pc = "verify" => cli.request # None
  PROVE  /\ cli.pc = "complete" /\ Asks /\ ServerSigned /\ srv'.peer = x.client /\ cli.request # None
         /\ ServerHearsOut => srv'.peerSum = cli.sum
<1>1. srv.pc \in {"certificate", "verify"} /\ Head(c2s) \in ToSet(c2s)
  BY DEF ServerHearsOut, ServerWaits, ServerQuiet, ServerTakes, ServerReads
<1>2. ServerSigned /\ Asks
  BY <1>1 DEF ServerInv, Answering
<1>3. cli.pc = "complete"
  BY <1>1 DEF ServerHearsOut, ServerWaits, WireInv, ServerInv
<1>4. srv'.peer = x.client /\ cli.request # None
  BY <1>1 DEF ServerHearsOut, ServerWaits
<1>5. ASSUME ServerHearsOut PROVE srv'.peerSum = cli.sum
  <2>1. cli.peerSum = srv.sum /\ cli.sum = Answer(srv.sum, x.client)
    BY <1>3, <1>4 DEF OrderInv, Own
  <2>2. srv'.peerSum = [role |-> "client", phase |-> "finished", secret |-> Secret(srv),
                        log |-> [hellos |-> Hellos(srv), rest |-> Append(srv.rest, Kept(Head(c2s)))]]
    BY <1>5 DEF ServerHearsOut
  <2>3. srv.sum.secret = Secret(srv) /\ srv.sum.log.hellos = Hellos(srv) /\ IsSeq(srv.sum.log.rest)
    BY <1>2 DEF ServerSigned, Covers, Names1
  <2> DEFINE r == Append(srv.sum.log.rest, End)
  <2>4. IsSeq(r) /\ r = After(srv.sum).rest
    BY <2>3, Appended DEF After
  <2> HIDE DEF r
  <2>5. \A a, b : Append(r, a) = r \o <<a>> /\ Append(Append(r, a), b) = r \o <<a, b>>
    <3> SUFFICES ASSUME NEW a, NEW b PROVE Append(r, a) = r \o <<a>> /\ Append(Append(r, a), b) = r \o <<a, b>>
      OBVIOUS
    <3>1. r \in Seq(ToSet(r) \cup {a, b}) /\ a \in ToSet(r) \cup {a, b} /\ b \in ToSet(r) \cup {a, b}
      BY <2>4 DEF IsSeq
    <3> QED BY <3>1
  <2>6. Append(srv.rest, Kept(Head(c2s))) = r \o CertificateLog(x.client)
    <3>1. CASE srv.pc = "certificate"
      <4>1. Head(c2s).type = "certificate" /\ Head(c2s).body = None /\ x.client = None
        BY <1>4, <1>5, <3>1 DEF ServerHearsOut
      <4>2. Kept(Head(c2s)) = Msg("certificate", None) /\ CertificateLog(x.client) = <<Msg("certificate", None)>>
        BY <4>1 DEF Kept, CertificateLog
      <4>3. srv.rest = r
        BY <2>4, <3>1 DEF ServerInv
      <4> QED BY <2>5, <4>2, <4>3
    <3>2. CASE srv.pc = "verify"
      <4>1. Head(c2s).type = "verify" /\ srv.peer = x.client /\ x.client # None
        BY <1>5, <3>2 DEF ServerHearsOut, ServerInv
      <4>2. /\ Kept(Head(c2s)) = Msg("verify", None)
            /\ CertificateLog(x.client) = <<Msg("certificate", x.client), Msg("verify", None)>>
        BY <4>1 DEF Kept, CertificateLog
      <4>3. srv.rest = Append(r, Msg("certificate", x.client))
        BY <2>4, <3>2, <4>1 DEF ServerInv
      <4> QED BY <2>5, <4>2, <4>3
    <3> QED BY <1>1, <3>1, <3>2
  <2> QED BY <2>1, <2>2, <2>3, <2>6 DEF Answer, r
<1> QED BY <1>2, <1>3, <1>4, <1>5

\* What the server knows of the client's last flight, it keeps knowing.
LEMMA HeardStays ==
  ASSUME Heard, srv'.peerSum = srv.peerSum, srv'.sum = srv.sum, Asks' <=> Asks,
         cli.pc = "complete" => cli' = cli
  PROVE  Heard'
BY DEF Heard

\* OrderInv is kept.
LEMMA OrderStep ==
  ASSUME Shape, ClientInv, ServerInv, WireInv, OrderInv, OwnInv, BornInv, Effects PROVE OrderInv'
<1> USE DEF world
<1>0. /\ DOMAIN cli = Fields /\ DOMAIN srv = Fields /\ Later(c2s) \subseteq ToSet(c2s) /\ Later(s2c) \subseteq ToSet(s2c)
  BY DEF Shape, NetShape, Later, ToSet, IsSeq
<1>c. Close.type = "close"
  BY Headers DEF Close
<1>1. ASSUME ClientSteps \/ HelloDamaged \/ Idles PROVE OrderInv'
  <2>1. srv' = srv
    BY <1>1, ServerIsLeft
  <2>2. ServerSigned => ServerSigned' /\ (Asks' <=> Asks)
    BY <1>1, SignedIsLeft
  <2>3. \A m \in ToSet(s2c') : m \in ToSet(s2c) \/ m.type # "ticket"
    BY <1>0, <1>1 DEF ClientSteps, HelloDamaged, Damaged, Idles, net, ClientGivesUp, ClientGreets, ClientRetries, ClientHears,
                      ClientReadsOn, ClientCompletes, ClientKeepsTicket, ClientQuiet, ClientTakes, ClientReads
  <2>4. Granted' => Granted
    BY <2>3 DEF Granted
  <2>5. cli.pc = "complete" => cli' = cli
    BY <1>1 DEF ClientSteps, HelloDamaged, Idles, ClientGivesUp, ClientGreets, ClientRetries, ClientHears,
                ClientReadsOn, ClientCompletes, ClientKeepsTicket, Ended
  <2>6. srv.pc \in {"finished", "complete"} \/ Granted => ServerSigned /\ Heard
    BY DEF OrderInv, ServerInv, Answering, WireInv, Granted
  <2>7. srv'.pc \in {"finished", "complete"} \/ Granted' => Heard'
    BY <2>1, <2>2, <2>4, <2>5, <2>6, HeardStays
  <2>8. cli'.pc = "complete" => cli'.peerSum = srv'.sum /\ ServerSigned'
    <3>1. CASE ClientCompletes
      BY <2>1, <2>2, <3>1, ClientSettles
    <3>2. CASE ~ClientCompletes
      <4>1. cli'.pc = "complete" => cli.pc = "complete"
        BY <1>0, <1>1, <3>2 DEF ClientSteps, HelloDamaged, Idles, ClientGivesUp, ClientGreets, ClientRetries, ClientHears,
                    ClientReadsOn, ClientKeepsTicket, Fields
      <4> QED BY <2>1, <2>2, <2>5, <4>1 DEF OrderInv
    <3> QED BY <3>1, <3>2
  <2> QED BY <2>1, <2>4, <2>5, <2>7, <2>8 DEF OrderInv
<1>2. CASE ServerGivesUp \/ ServerCompletes
  <2>1. cli' = cli /\ srv.pc # "complete" /\ srv'.pc \in {"failed", "complete"}
        /\ (srv'.pc = "complete" => srv.pc = "finished" /\ Head(c2s).type = "finished" /\ Head(c2s) \in ToSet(c2s))
    BY <1>0, <1>2 DEF ServerGivesUp, ServerCompletes, ServerQuiet, ServerTakes, ServerReads, Ended, Fields
  <2>2. \A m \in ToSet(s2c') : m \in ToSet(s2c) \/ m.type # "ticket"
    BY <1>c, <1>2 DEF ServerGivesUp, ServerCompletes, ServerQuiet, ServerTakes, ServerAdds
  <2>3. ASSUME ServerSigned PROVE ServerSigned' /\ (Asks' <=> Asks) /\ srv'.peerSum = srv.peerSum /\ srv'.sum = srv.sum
    <3>1. ServerSigned' /\ (Asks' <=> Asks)
      BY <1>2, <2>3, ServerGoesOn
    <3>2. srv'.peerSum = srv.peerSum /\ srv'.sum = srv.sum
      BY <1>0, <1>2, <2>3 DEF ServerSigned, ServerGivesUp, ServerCompletes, Fields
    <3> QED BY <3>1, <3>2
  <2>4. Granted' => Granted
    BY <2>2 DEF Granted
  <2>5. srv.pc = "finished" \/ Granted => ServerSigned /\ Heard
    BY DEF OrderInv, ServerInv, Answering, WireInv, Granted
  <2>6. srv'.pc \in {"finished", "complete"} \/ Granted' => Heard'
    BY <2>1, <2>3, <2>4, <2>5, HeardStays
  <2>7. cli'.pc = "complete" => cli'.peerSum = srv'.sum /\ ServerSigned'
    BY <2>1, <2>3 DEF OrderInv
  <2>8. srv'.pc = "complete" => cli'.pc = "complete"
    BY <2>1 DEF WireInv
  <2> QED BY <2>1, <2>6, <2>7, <2>8 DEF OrderInv
<1>3. CASE ServerRetries \/ ServerAnswersHello
  <2>1. srv.pc = "clientHello" /\ cli' = cli
    BY <1>3 DEF ServerRetries, ServerAnswersHello, ServerTakes, ServerReads
  <2>2. cli.pc # "complete" /\ \A m \in ToSet(s2c) : m.type # "ticket"
    BY <2>1 DEF OrderInv, WireInv, ServerSigned
  <2>3. CASE ServerRetries
    <3>1. srv'.pc = "clientHello" /\ ~Granted'
      BY <1>0, <2>1, <2>2, <2>3, Headers DEF ServerRetries, ServerTakes, ServerAdds, Granted, Fields
    <3> QED BY <2>1, <2>2, <3>1 DEF OrderInv
  <2>4. CASE ServerAnswersHello
    <3>1. srv'.pc \in {"certificate", "finished"} /\ (Granted' => srv'.pc = "finished")
      BY <2>2, <2>4 DEF ServerAnswersHello, ServerTakes, ServerAdds, Granted, Answers
    <3>2. srv'.pc = "finished" => Heard'
      BY <2>4 DEF ServerAnswersHello, Heard
    <3> QED BY <2>1, <2>2, <3>1, <3>2 DEF OrderInv
  <2> QED BY <1>3, <2>3, <2>4
<1>4. CASE ServerWaits \/ ServerHearsOut
  <2>1. /\ srv.pc \in {"certificate", "verify"} /\ Head(c2s) \in ToSet(c2s) /\ cli' = cli
        /\ srv'.pc = IF ServerHearsOut THEN "finished" ELSE "verify"
        /\ srv'.sum = srv.sum
        /\ ServerHearsOut \/ \A m \in ToSet(s2c') : m \in ToSet(s2c)
    BY <1>0, <1>4 DEF ServerWaits, ServerHearsOut, ServerQuiet, ServerTakes, ServerReads, ServerAdds, Fields
  <2>2. cli.pc = "complete"
    BY <1>4, <2>1 DEF ServerWaits, ServerHearsOut, WireInv, ServerInv
  <2>3. PICK x \in sessions :
          /\ Own(cli, x.client)
          /\ \A m \in ToSet(c2s) : m.type = "certificate" => m.body = x.client /\ cli.request # None
          /\ srv.pc \in {"verify", "finished", "complete"} \/ Granted => srv.peer = x.client
          /\ srv.pc = "verify" => cli.request # None
    BY <2>2 DEF OwnInv
  <2>4. Asks /\ ServerSigned /\ (ServerHearsOut => srv'.peerSum = cli.sum)
    BY <1>4, <2>3, ServerSettles
  <2>5. ServerSigned' /\ (Asks' <=> Asks)
    BY <1>4, <2>4, ServerGoesOn
  <2>6. ~Granted
    BY <2>1 DEF OrderInv
  <2>7. CASE ServerHearsOut
    BY <2>1, <2>2, <2>4, <2>5, <2>7 DEF OrderInv, Heard
  <2>8. CASE ~ServerHearsOut
    BY <2>1, <2>2, <2>5, <2>6, <2>8 DEF OrderInv, Granted
  <2> QED BY <2>7, <2>8
<1>5. CASE Begins
  BY <1>5 DEF Begins, Fresh, OrderInv, Granted
<1> QED BY <1>1, <1>2, <1>3, <1>4, <1>5 DEF Effects, ServerSteps

\* OwnInv is kept.
LEMMA OwnStep ==
  ASSUME Shape, ClientInv, ServerInv, WireInv, OrderInv, OwnInv, BornInv, Effects PROVE OwnInv'
<1> USE DEF world
<1>0. /\ DOMAIN cli = Fields /\ DOMAIN srv = Fields /\ Later(c2s) \subseteq ToSet(c2s) /\ Later(s2c) \subseteq ToSet(s2c)
  BY DEF Shape, NetShape, Later, ToSet, IsSeq
<1>c. Close.type = "close"
  BY Headers DEF Close
<1> SUFFICES ASSUME cli'.pc = "complete" PROVE OwnInv'
  BY DEF OwnInv
<1>1. CASE ClientCompletes
  <2> DEFINE x == [master |-> cli'.master, client |-> OwnCertificate, server |-> cli.peer]
  <2>1. /\ x \in sessions' /\ Own(cli', OwnCertificate) /\ srv' = srv
        /\ cli.pc = "finished" /\ cli'.peer = cli.peer /\ cli'.request = cli.request
        /\ ToSet(s2c') \subseteq ToSet(s2c)
    BY <1>0, <1>1 DEF ClientCompletes, ClientReads, Fields
  <2>2. \A m \in ToSet(c2s') : m.type = "certificate" => m.body = OwnCertificate /\ cli'.request # None
    BY <1>1, <2>1 DEF ClientCompletes, ClientAdds, Ends, WireInv
  <2>3. /\ srv.pc \in {"verify", "finished", "complete"} \/ Granted => ~Asks /\ OwnCertificate = srv.peer
        /\ srv.pc = "verify" => Asks
    BY <1>1, ClientSettles DEF ServerInv
  <2>4. Granted' => Granted
    BY <2>1 DEF Granted
  <2>5. x.master = cli'.master /\ x.client = OwnCertificate /\ x.server = cli'.peer
    BY <2>1
  <2> HIDE DEF x
  <2>6. /\ Own(cli', x.client)
        /\ \A m \in ToSet(c2s') : m.type = "certificate" => m.body = x.client /\ cli'.request # None
        /\ srv'.pc \in {"verify", "finished", "complete"} \/ Granted' => srv'.peer = x.client
        /\ srv'.pc = "verify" => cli'.request # None
    BY <2>1, <2>2, <2>3, <2>4, <2>5
  <2> QED BY <2>1, <2>5, <2>6 DEF OwnInv, Own
<1>2. CASE ~ClientCompletes /\ (ClientSteps \/ HelloDamaged \/ Idles)
  <2>1. /\ cli.pc = "complete" /\ cli' = cli
        /\ \A m \in ToSet(c2s') : m.type = "certificate" => m \in ToSet(c2s)
        /\ \A m \in ToSet(s2c') : m.type = "ticket" => m \in ToSet(s2c)
    BY <1>0, <1>2 DEF ClientSteps, HelloDamaged, Damaged, Idles, net, ClientGivesUp, ClientGreets, ClientRetries, ClientHears,
                      ClientReadsOn, ClientKeepsTicket, ClientReads, Ended, Fields
  <2>2. srv' = srv /\ sessions \subseteq sessions'
    BY <1>2, ServerIsLeft
  <2>3. Granted' => Granted
    BY <2>1 DEF Granted
  <2> QED BY <2>1, <2>2, <2>3 DEF OwnInv
<1>3. CASE ServerSteps
  <2>1. cli' = cli /\ cli.pc = "complete" /\ sessions' = sessions /\ ToSet(c2s') \subseteq ToSet(c2s)
    BY <1>0, <1>3 DEF ServerSteps, ServerGivesUp, ServerRetries, ServerAnswersHello, ServerWaits, ServerHearsOut,
                ServerCompletes, ServerQuiet, ServerTakes, ServerReads
  <2>2. srv.pc # "clientHello"
    BY <2>1 DEF OrderInv, ServerSigned
  <2>3. PICK x \in sessions :
          /\ x.master = cli.master /\ x.server = cli.peer /\ Own(cli, x.client)
          /\ \A m \in ToSet(c2s) : m.type = "certificate" => m.body = x.client /\ cli.request # None
          /\ srv.pc \in {"verify", "finished", "complete"} \/ Granted => srv.peer = x.client
          /\ srv.pc = "verify" => cli.request # None
    BY <2>1 DEF OwnInv
  <2>4. CASE ServerGivesUp \/ ServerCompletes
    <3>1. /\ srv'.pc \in {"failed", "complete"} /\ srv'.peer = srv.peer /\ (srv'.pc = "complete" => srv.pc = "finished")
          /\ \A m \in ToSet(s2c') : m.type = "ticket" => m \in ToSet(s2c)
      BY <1>0, <1>c, <2>2, <2>4 DEF ServerGivesUp, ServerCompletes, ServerQuiet, ServerTakes, ServerAdds, Fields
    <3>2. Granted' => Granted
      BY <3>1 DEF Granted
    <3> QED BY <2>1, <2>3, <3>1, <3>2 DEF OwnInv
  <2>5. CASE ServerWaits \/ ServerHearsOut
    <3>1. srv'.peer = x.client /\ cli.request # None
      BY <2>3, <2>5, ServerSettles
    <3> QED BY <2>1, <2>3, <3>1 DEF OwnInv
  <2> QED BY <1>3, <2>2, <2>4, <2>5 DEF ServerSteps, ServerRetries, ServerAnswersHello
<1>4. CASE Begins
  BY <1>4 DEF Begins, Fresh
<1> QED BY <1>1, <1>2, <1>3, <1>4 DEF Effects

\* The ticket that the client reads is of the handshake it has completed.
LEMMA TicketFits ==
  ASSUME WireInv, OrderInv, OwnInv, ClientInv, cli.pc = "complete", NEW m \in ToSet(s2c), m.type = "ticket"
  PROVE  /\ m.body.state.master = cli.master /\ m.body.state.suite = cli.sh.suite
         /\ TicketOk(m.body) /\ \E x \in sessions : x.master = cli.master /\ x.server = cli.peer
<1>1. Grants(m.body, srv) /\ ServerSigned /\ Granted
  BY DEF WireInv, Granted
<1>2. Heard /\ cli.peerSum = srv.sum
  BY <1>1 DEF OrderInv
<1>3. PICK x \in sessions : /\ x.master = cli.master /\ x.server = cli.peer /\ Own(cli, x.client) /\ srv.peer = x.client
  BY <1>1 DEF OwnInv
<1>4. srv.peerSum = cli.sum
  <2>1. CASE Asks
    BY <1>2, <2>1 DEF Heard
  <2>2. CASE ~Asks
    <3>1. srv.peerSum = FinishedOf("client", srv.sum)
      BY <1>2, <2>2 DEF Heard
    <3>2. cli.request = None
      BY <1>1, <1>2, <2>2 DEF ClientInv, Keyed, ServerSigned
    <3>3. cli.sum = FinishedOf("client", cli.peerSum)
      BY <1>3, <3>2 DEF Own
    <3> QED BY <1>2, <3>1, <3>3
  <2> QED BY <2>1, <2>2
<1>5. cli.master = ResumptionOf(cli.sum)
  BY DEF ClientInv, Keyed
<1>6. cli.sh = srv.sh
  <2>1. Hellos(cli) = Hellos(srv)
    BY <1>1, <1>2 DEF ClientInv, Keyed, ServerSigned, Covers
  <2> QED BY <2>1 DEF Hellos
<1>7. /\ m.body.state.master = cli.master /\ m.body.state.suite = cli.sh.suite /\ m.body.state.cert = x.client
  BY <1>1, <1>3, <1>4, <1>5, <1>6 DEF Grants
<1> QED BY <1>3, <1>7 DEF TicketOk, Known

\* SessionInv is kept.
LEMMA SessionStep ==
  ASSUME Shape, ClientInv, WireInv, OrderInv, OwnInv, SessionInv, Effects PROVE SessionInv'
<1> USE DEF world
<1>0. DOMAIN cli = Fields /\ CacheKey(ccfg) \in DOMAIN cache
  BY DEF Shape
<1>1. CASE ClientGivesUp
  <2>1. /\ cli'.offered = cli.offered /\ sessions' = sessions
        /\ \A k \in DOMAIN cache' : k \in DOMAIN cache /\ (cache'[k] # None => cache'[k] = cache[k])
    BY <1>0, <1>1 DEF ClientGivesUp, Evicted, Fields
  <2>2. \A s : SessionOk(s) => SessionOk(s)'
    BY <2>1, TicketsRemain
  <2> HIDE DEF SessionOk
  <2> QED BY <2>1, <2>2 DEF SessionInv
<1>2. CASE ClientGreets
  <2>1. PICK hello : cli' = [cli EXCEPT !.pc = "serverHello", !.ch = Greeting(hello, hello.keyShares[1], Offered(hello), None),
                                        !.offered = Offered(hello)]
    BY <1>2 DEF ClientGreets
  <2>2. /\ cli'.offered = Offered(hello) /\ sessions' = sessions
        /\ \A k \in DOMAIN cache' : k \in DOMAIN cache /\ (cache'[k] # None => cache'[k] = cache[k])
    BY <1>0, <1>2, <2>1 DEF ClientGreets, Fields
  <2>3. \A s : SessionOk(s) => SessionOk(s)'
    BY <2>2, TicketsRemain
  <2>4. Offered(hello) # None => SessionOk(Offered(hello))
    BY OfferIsStored
  <2> HIDE DEF SessionOk
  <2> QED BY <2>2, <2>3, <2>4 DEF SessionInv
<1>3. CASE ClientKeepsTicket
  <2>1. PICK useBy :
          LET session == [ticket |-> Head(s2c).body, vers |-> VersionTLS13, suite |-> cli.sh.suite, master |-> cli.master,
                          cert |-> cli.peer, verified |-> IF cli.resumed THEN cli.offered.verified ELSE ~ccfg.insecure,
                          useBy |-> useBy]
          IN  cache' \in {cache, [cache EXCEPT ![CacheKey(ccfg)] = session]}
    BY <1>3 DEF ClientKeepsTicket
  <2> DEFINE s == [ticket |-> Head(s2c).body, vers |-> VersionTLS13, suite |-> cli.sh.suite, master |-> cli.master,
                   cert |-> cli.peer, verified |-> IF cli.resumed THEN cli.offered.verified ELSE ~ccfg.insecure,
                   useBy |-> useBy]
  <2>2. s.ticket = Head(s2c).body /\ s.suite = cli.sh.suite /\ s.master = cli.master /\ s.cert = cli.peer
    OBVIOUS
  <2>3. cache' \in {cache, [cache EXCEPT ![CacheKey(ccfg)] = s]}
    BY <2>1
  <2> HIDE DEF s
  <2>4. cli.pc = "complete" /\ Head(s2c) \in ToSet(s2c) /\ Head(s2c).type = "ticket" /\ cli' = cli /\ sessions' = sessions
    BY <1>3 DEF ClientKeepsTicket, ClientReads
  <2>5. SessionOk(s)
    <3>1. /\ s.ticket.state.master = s.master /\ s.ticket.state.suite = s.suite /\ TicketOk(s.ticket)
          /\ \E x \in sessions : x.master = s.master /\ x.server = s.cert
      BY <2>2, <2>4, TicketFits
    <3> QED BY <3>1 DEF SessionOk
  <2>6. \A k \in DOMAIN cache' : k \in DOMAIN cache /\ (cache'[k] # None => cache'[k] = cache[k] \/ cache'[k] = s)
    BY <2>3
  <2>7. \A t : SessionOk(t) => SessionOk(t)'
    BY <2>4, TicketsRemain
  <2> HIDE DEF SessionOk
  <2>8. \A k \in DOMAIN cache' : cache'[k] # None => SessionOk(cache[k])'
    BY <2>5, <2>6, <2>7 DEF SessionInv
  <2> QED BY <2>4, <2>7, <2>8 DEF SessionInv
<1>4. CASE ~(ClientGivesUp \/ ClientGreets \/ ClientKeepsTicket \/ Begins)
  <2>1. cache' = cache /\ cli'.offered = cli.offered /\ sessions \subseteq sessions'
    BY <1>0, <1>4 DEF Effects, ClientSteps, ServerSteps, ClientRetries, ClientHears, ClientReadsOn, ClientCompletes, ClientQuiet,
       ServerGivesUp, ServerRetries, ServerAnswersHello, ServerWaits, ServerHearsOut, ServerCompletes, ServerQuiet,
       ServerTakes, ServerReads, HelloDamaged, Idles, Fields
  <2>2. \A s : SessionOk(s) => SessionOk(s)'
    BY <2>1, TicketsRemain
  <2> HIDE DEF SessionOk
  <2> QED BY <2>1, <2>2 DEF SessionInv
<1>5. CASE Begins
  <2>1. cache' = cache /\ cli'.offered = None /\ sessions' = sessions
    BY <1>5 DEF Begins, Fresh
  <2>2. \A s : SessionOk(s) => SessionOk(s)'
    BY <2>1, TicketsRemain
  <2> HIDE DEF SessionOk
  <2> QED BY <2>1, <2>2 DEF SessionInv
<1> QED BY <1>1, <1>2, <1>3, <1>4, <1>5

\* A secret that was born by one handshake was born by a later one.
LEMMA BornLater ==
  ASSUME NEW m, NEW i \in Int, NEW j \in Int, i <= j, BornBy(m, i) PROVE BornBy(m, j)
<1>1. 1 .. i \subseteq 1 .. j
  OBVIOUS
<1> QED BY <1>1 DEF BornBy

\* A handshake that completes has a secret of its own: no earlier one has its key shares.
LEMMA BornStep ==
  ASSUME Shape, ClientInv, ServerInv, WireInv, OrderInv, BornInv, Effects PROVE BornInv'
<1> USE DEF world
<1>0. DOMAIN cli = Fields /\ conn \in Nat \ {0}
  BY DEF Shape
<1>1. CASE ClientCompletes
  <2> DEFINE x == [master |-> cli'.master, client |-> OwnCertificate, server |-> cli.peer]
             a == cli.ch.share
             b == cli.sh.share
  <2>1. /\ cli.pc = "finished" /\ cli'.pc = "complete" /\ conn' = conn /\ sessions' = sessions \cup {x}
        /\ cli'.master = ResumptionOf(cli'.sum) /\ Own(cli', OwnCertificate)
        /\ cli'.peerSum = FinishedMAC("server", cli)
    BY <1>1 DEF ClientCompletes, ClientReads
  <2>2. x.master = cli'.master /\ x.client = OwnCertificate
    OBVIOUS
  <2> HIDE DEF x
  <2>3. cli'.master.secret = Secret(cli)
    BY <2>1 DEF ResumptionOf, Own, FinishedOf, Answer, FinishedMAC
  <2>4. a.of = <<"client", conn>> /\ cli.shared = {a, b}
    BY <2>1 DEF ClientInv, Keyed, SharedKey
  <2>5. b.of = <<"server", conn>>
    BY <1>1, ClientSettles DEF ServerSigned
  <2> HIDE DEF a, b
  <2>6. cli'.master.secret.shared = {a, b}
    BY <2>3, <2>4 DEF Secret
  <2>7. BornBy(cli'.master, conn)
    <3>1. conn \in 1 .. conn
      BY <1>0
    <3> QED BY <2>4, <2>5, <2>6, <3>1 DEF BornBy
  <2>8. ~BornBy(cli'.master, conn - 1)
    <3>1. SUFFICES ASSUME NEW i \in 1 .. conn - 1, a.of \in {<<"client", i>>, <<"server", i>>} PROVE FALSE
      BY <2>6 DEF BornBy
    <3>2. a.of[2] = conn /\ a.of[2] = i
      BY <2>4, <3>1
    <3> QED BY <1>0, <3>2
  <2>9. \A s \in sessions : BornBy(s.master, conn - 1) /\ BornBy(s.master, conn) /\ s.master # cli'.master
    <3> SUFFICES ASSUME NEW s \in sessions
                 PROVE  BornBy(s.master, conn - 1) /\ BornBy(s.master, conn) /\ s.master # cli'.master
      OBVIOUS
    <3>1. BornBy(s.master, conn - 1)
      BY <2>1 DEF BornInv
    <3> QED BY <1>0, <2>8, <3>1, BornLater
  <2>10. \A s \in sessions' : BornBy(s.master, conn)
    BY <2>1, <2>2, <2>7, <2>9
  <2>11. \A s, t \in sessions' : s.master = t.master => s.client = t.client
    BY <2>1, <2>2, <2>9 DEF BornInv
  <2> QED BY <2>1, <2>10, <2>11 DEF BornInv, BornBy
<1>2. CASE ~ClientCompletes
  <2>1. /\ sessions' = sessions
        /\ \/ conn' = conn /\ (cli'.pc = "complete" <=> cli.pc = "complete")
           \/ conn' = conn + 1
    BY <1>0, <1>2 DEF Effects, ClientSteps, ServerSteps, ClientGivesUp, ClientGreets, ClientRetries, ClientHears, ClientReadsOn,
       ClientKeepsTicket, ClientQuiet, ClientTakes, ClientReads, ServerGivesUp, ServerRetries, ServerAnswersHello,
       ServerWaits, ServerHearsOut, ServerCompletes, ServerQuiet, ServerTakes, ServerReads, HelloDamaged, Idles, Begins,
       Ended, Fields
  <2> DEFINE n(e, i) == IF e.pc = "complete" THEN i ELSE i - 1
  <2>2. n(cli, conn) \in Int /\ n(cli', conn') \in Int /\ n(cli, conn) <= n(cli', conn')
    BY <1>0, <2>1
  <2>3. \A s \in sessions : BornBy(s.master, n(cli, conn))
    BY DEF BornInv
  <2> HIDE DEF n
  <2>4. \A s \in sessions : BornBy(s.master, n(cli', conn'))
    BY <2>2, <2>3, BornLater
  <2> QED BY <2>1, <2>4 DEF BornInv, BornBy, n
<1> QED BY <1>1, <1>2

\* A server goes on only with a client that its configuration accepts.
LEMMA PolicyStep == ASSUME Shape, ServerInv, PolicyInv, Effects PROVE PolicyInv'
<1> USE DEF world
<1>0. DOMAIN srv = Fields
  BY DEF Shape
<1>1. CASE ClientSteps \/ HelloDamaged \/ Idles \/ ServerGivesUp \/ ServerRetries \/ ServerCompletes
  <2>1. /\ srv'.pc \in {"failed", "clientHello"} \/ UNCHANGED <<scfg, now>>
        /\ srv'.pc \in {"verify", "finished", "complete"} =>
             srv.pc \in {"verify", "finished", "complete"} /\ srv'.peer = srv.peer
    BY <1>0, <1>1 DEF ClientSteps, HelloDamaged, Idles, ClientGivesUp, ClientGreets, ClientRetries, ClientHears,
       ClientReadsOn, ClientCompletes, ClientKeepsTicket, ClientQuiet, ClientTakes, ClientReads, ServerGivesUp,
       ServerRetries, ServerCompletes, ServerQuiet, ServerTakes, ServerReads, Fields
  <2> QED BY <2>1 DEF PolicyInv, AcceptsClient, Verify, Current
<1>2. CASE ServerAnswersHello
  <2>1. UNCHANGED <<scfg, now>> /\ (srv'.pc \in {"verify", "finished", "complete"} => ~Asks')
    BY <1>2 DEF ServerAnswersHello, ServerTakes, ServerReads
  <2>2. ~Asks' => srv'.resumed \/ scfg.clientAuth = "NoClientCert"
    BY <2>1 DEF Asks, RequestsClientCert
  <2>3. CASE srv'.resumed
    <3>1. AcceptsClient(srv'.peer) /\ CarriesOver(srv'.peer)
      BY <1>2, <2>3 DEF ServerAnswersHello
    <3> QED BY <2>1, <3>1 DEF PolicyInv, AcceptsClient, CarriesOver, Verify, Current
  <2>4. CASE ~srv'.resumed
    <3>1. srv'.peer = None
      BY <1>2, <2>4 DEF ServerAnswersHello
    <3> QED BY <2>1, <2>2, <2>4, <3>1
            DEF PolicyInv, AcceptsClient, Verify, Current, RequiresClientCert, VerifiesClientCert
  <2> QED BY <2>3, <2>4
<1>3. CASE ServerWaits \/ ServerHearsOut
  <2>1. /\ srv.pc \in {"certificate", "verify"} /\ UNCHANGED <<scfg, now>>
        /\ IF srv.pc = "certificate" THEN AcceptsClient(srv'.peer) ELSE srv'.peer = srv.peer
    BY <1>0, <1>3 DEF ServerWaits, ServerHearsOut, ServerQuiet, ServerTakes, ServerReads
  <2>2. scfg.clientAuth # "NoClientCert"
    BY <2>1 DEF ServerInv, Asks, RequestsClientCert
  <2>3. AcceptsClient(srv'.peer)
    BY <2>1 DEF PolicyInv
  <2> QED BY <2>1, <2>2, <2>3 DEF PolicyInv, AcceptsClient, Verify, Current
<1>4. CASE Begins
  BY <1>4 DEF Begins, Fresh, PolicyInv
<1> QED BY <1>1, <1>2, <1>3, <1>4 DEF Effects, ServerSteps

\* The client's certificate checks, its session cache included.
LEMMA PeerStep == ASSUME SameRoots, Shape, ClientInv, PeerInv, Effects PROVE PeerInv'
<1> USE DEF world
<1>0. /\ DOMAIN cli = Fields /\ CacheKey(ccfg) \in DOMAIN cache /\ conn \in Nat \ {0} /\ plan.conns \in Nat
      /\ plan \in Plans /\ ccfg \in plan.clients
  BY PlansAssumption DEF Shape
<1>1. CASE ClientGreets
  <2>1. PICK hello : cli' = [cli EXCEPT !.pc = "serverHello", !.ch = Greeting(hello, hello.keyShares[1], Offered(hello), None),
                                        !.offered = Offered(hello)]
    BY <1>1 DEF ClientGreets
  <2>2. /\ cli.pc = "start" /\ cli'.pc = "serverHello" /\ cli'.offered = Offered(hello)
        /\ UNCHANGED <<plan, ccfg, conn, now>>
        /\ \A k \in DOMAIN cache' : k \in DOMAIN cache /\ (cache'[k] # None => cache'[k] = cache[k])
    BY <1>0, <1>1, <2>1 DEF ClientGreets, Fields
  <2> DEFINE s == Offered(hello)
  <2>3. s # None => s = cache[CacheKey(ccfg)] /\ Usable(hello) /\ Stored = s
    BY DEF Offered, Stored
  <2>4. s # None /\ s.verified => \E c \in plan.clients : s.cert.issuer \in c.roots
    BY <1>0, <2>3 DEF PeerInv
  <2>5. ASSUME s # None, ~ccfg.insecure PROVE s.verified /\ Verify(s.cert, ccfg.roots, ccfg.server.name)
    <3> HIDE DEF s
    <3>1. s.verified /\ ~Expired /\ Names(s.cert, ccfg.server.name)
      BY <2>3, <2>5 DEF Usable, Trusted
    <3>2. conn > 1
      BY <1>0, <2>2, <2>3, <2>5 DEF PeerInv
    <3>3. plan.conns > 1
      BY <1>0, <3>2 DEF PeerInv
    <3>4. s.cert.issuer \in ccfg.roots
      BY <1>0, <2>4, <2>5, <3>1, <3>3 DEF SameRoots, s
    <3>5. Current(s.cert)
      BY <2>3, <2>5, <3>1 DEF Expired
    <3> QED BY <3>1, <3>4, <3>5 DEF Verify
  <2> HIDE DEF s
  <2>6. \A k \in DOMAIN cache : cache[k] # None => conn > 1
    BY <2>2 DEF PeerInv
  <2> QED BY <2>2, <2>4, <2>5, <2>6 DEF PeerInv, Verify, Current, s
<1>2. CASE ClientReadsOn
  <2>1. /\ cli'.offered = cli.offered /\ UNCHANGED <<plan, ccfg, conn, now, cache>> /\ cli.pc # "complete"
        /\ cli'.pc # "complete"
    BY <1>0, <1>2 DEF ClientReadsOn, ClientQuiet, ClientTakes, ClientReads, Fields
  <2>2. ASSUME cli'.pc \in {"verify", "finished"} PROVE AcceptsServer(cli'.peer)
    <3>1. CASE cli.pc = "parameters"
      <4>1. cli.resumed /\ cli'.peer = cli.peer
        BY <1>2, <2>2, <3>1 DEF ClientReadsOn
      <4>2. cli.offered # None /\ cli.peer = cli.offered.cert
        BY <3>1, <4>1 DEF ClientInv, Keyed
      <4> QED BY <4>1, <4>2 DEF PeerInv, AcceptsServer
    <3>2. CASE cli.pc = "verify"
      <4>1. cli'.peer = cli.peer /\ AcceptsServer(cli.peer)
        BY <1>2, <3>2 DEF ClientReadsOn, PeerInv
      <4> QED BY <4>1
    <3>3. CASE cli.pc \notin {"parameters", "verify"}
      BY <1>2, <2>2, <3>3 DEF ClientReadsOn
    <3> QED BY <3>1, <3>2, <3>3
  <2> QED BY <2>1, <2>2 DEF PeerInv, AcceptsServer, Verify, Current
<1>3. CASE ClientKeepsTicket
  <2>1. PICK useBy :
          LET session == [ticket |-> Head(s2c).body, vers |-> VersionTLS13, suite |-> cli.sh.suite, master |-> cli.master,
                          cert |-> cli.peer, verified |-> IF cli.resumed THEN cli.offered.verified ELSE ~ccfg.insecure,
                          useBy |-> useBy]
          IN  cache' \in {cache, [cache EXCEPT ![CacheKey(ccfg)] = session]}
    BY <1>3 DEF ClientKeepsTicket
  <2> DEFINE s == [ticket |-> Head(s2c).body, vers |-> VersionTLS13, suite |-> cli.sh.suite, master |-> cli.master,
                   cert |-> cli.peer, verified |-> IF cli.resumed THEN cli.offered.verified ELSE ~ccfg.insecure,
                   useBy |-> useBy]
  <2>2. s.cert = cli.peer /\ s.verified = IF cli.resumed THEN cli.offered.verified ELSE ~ccfg.insecure
    OBVIOUS
  <2>3. cache' \in {cache, [cache EXCEPT ![CacheKey(ccfg)] = s]}
    BY <2>1
  <2> HIDE DEF s
  <2>4. cli.pc = "complete" /\ UNCHANGED <<cli, plan, ccfg, conn, now>>
    BY <1>3 DEF ClientKeepsTicket, ClientReads
  <2>5. ASSUME s.verified PROVE \E c \in plan.clients : s.cert.issuer \in c.roots
    <3>1. CASE cli.resumed
      <4>1. cli.offered # None /\ cli.peer = cli.offered.cert
        BY <2>4, <3>1 DEF ClientInv, Keyed
      <4> QED BY <2>2, <2>5, <3>1, <4>1 DEF PeerInv
    <3>2. CASE ~cli.resumed
      <4>1. AcceptsServer(cli.peer) /\ ~ccfg.insecure
        BY <2>2, <2>4, <2>5, <3>2 DEF PeerInv
      <4> QED BY <1>0, <2>2, <4>1 DEF AcceptsServer, Verify
    <3> QED BY <3>1, <3>2
  <2>6. \A k \in DOMAIN cache' : k \in DOMAIN cache /\ (cache'[k] = cache[k] \/ cache'[k] = s)
    BY <2>3
  <2>7. \A k \in DOMAIN cache' : cache'[k] # None /\ cache'[k].verified =>
          \E c \in plan.clients : cache'[k].cert.issuer \in c.roots
    BY <2>5, <2>6 DEF PeerInv
  <2> QED BY <2>4, <2>7 DEF PeerInv, AcceptsServer, Verify, Current
<1>4. CASE Begins
  BY <1>0, <1>4 DEF Begins, Fresh, PeerInv
<1>5. CASE ~(ClientGreets \/ ClientReadsOn \/ ClientKeepsTicket \/ Begins)
  <2>1. /\ UNCHANGED <<plan, ccfg, conn, now>> /\ cli'.offered = cli.offered
        /\ \A k \in DOMAIN cache' : k \in DOMAIN cache /\ (cache'[k] # None => cache'[k] = cache[k])
        /\ cli.pc = "complete" => cli'.pc = "complete"
        /\ cli'.pc \in {"verify", "finished", "complete"} =>
             cli.pc \in {"verify", "finished", "complete"} /\ cli'.peer = cli.peer
    <3>1. CASE ServerSteps \/ HelloDamaged \/ Idles
      <4>1. UNCHANGED <<plan, ccfg, conn, now, cli, cache>>
        BY <3>1 DEF ServerSteps, ServerGivesUp, ServerRetries, ServerAnswersHello, ServerWaits, ServerHearsOut,
           ServerCompletes, ServerQuiet, ServerTakes, ServerReads, HelloDamaged, Idles
      <4> QED BY <4>1
    <3>2. CASE ClientGivesUp
      BY <1>0, <3>2 DEF ClientGivesUp, Evicted, Ended
    <3>3. CASE ClientRetries \/ ClientHears \/ ClientCompletes
      <4>1. UNCHANGED <<plan, ccfg, conn, now, cache>> /\ cli'.offered = cli.offered
        BY <1>0, <3>3 DEF ClientRetries, ClientHears, ClientCompletes, ClientQuiet, ClientTakes, ClientReads, Fields
      <4>2. cli'.pc \in {"serverHello", "parameters"} \/ (cli.pc = "finished" /\ cli'.peer = cli.peer)
        BY <1>0, <3>3 DEF ClientRetries, ClientHears, ClientCompletes, ClientTakes, ClientReads, Fields
      <4>3. cli.pc # "complete"
        BY <1>0, <3>3 DEF ClientRetries, ClientHears, ClientCompletes, ClientTakes, ClientReads
      <4> QED BY <4>1, <4>2, <4>3
    <3> QED BY <1>5, <3>1, <3>2, <3>3 DEF Effects, ClientSteps
  <2> QED BY <2>1 DEF PeerInv, AcceptsServer, Verify, Current
<1> QED BY <1>1, <1>2, <1>3, <1>4, <1>5

----------------------------------------------------------------------------
(* The theorems.                                                           *)

\* The invariant holds at the start.
LEMMA InitInv == ASSUME Init PROVE IInv /\ PeerInv
<1>1. /\ DOMAIN Fresh("start") = Fields /\ DOMAIN Fresh("clientHello") = Fields
      /\ IsSeq(<<>>) /\ ToSet(<<>>) = {}
  BY Short DEF Fresh, Fields
<1>2. \A pc : Fresh(pc).pc = pc /\ Fresh(pc).offered = None /\ Fresh(pc).retry = None
  BY DEF Fresh
<1>3. /\ cli = Fresh("start") /\ srv = Fresh("clientHello") /\ c2s = <<>> /\ s2c = <<>>
      /\ conn = 1 /\ sessions = {} /\ \A k \in DOMAIN cache : cache[k] = None
      /\ DOMAIN cache = {CacheKey(c) : c \in plan.clients}
      /\ plan \in Plans /\ ccfg \in plan.clients /\ scfg \in plan.servers
  BY DEF Init
<1>4. Shape
  BY <1>1, <1>2, <1>3 DEF Shape, NetShape
<1>5. ClientInv
  BY <1>2, <1>3 DEF ClientInv, Keyed
<1>6. ServerInv
  <2> DEFINE f == Fresh("clientHello")
  <2>0. f = [x \in DOMAIN f |-> f[x]] /\ f.retry = None
    BY DEF Fresh
  <2> HIDE DEF f
  <2>1. f = [f EXCEPT !.retry = None]
    BY <2>0
  <2> QED BY <1>2, <1>3, <2>1 DEF ServerInv, Answering, f
<1>7. WireInv /\ ~Granted
  BY <1>1, <1>3 DEF WireInv, Granted
<1>8. OrderInv /\ OwnInv
  BY <1>2, <1>3, <1>7 DEF OrderInv, OwnInv
<1>9. SessionInv /\ BornInv
  BY <1>2, <1>3 DEF SessionInv, BornInv
<1>10. PeerInv
  BY <1>2, <1>3 DEF PeerInv
<1>11. PolicyInv
  BY <1>2, <1>3 DEF PolicyInv
<1> QED BY <1>4, <1>5, <1>6, <1>7, <1>8, <1>9, <1>10, <1>11 DEF IInv

\* It is inductive.
LEMMA StepInv == ASSUME IInv, [Next]_vars PROVE IInv'
<1>1. Effects /\ NetShape'
  BY StepDoes DEF IInv
<1> QED BY <1>1, ShapeStep, ClientStep, ServerStep, WireStep, OrderStep, OwnStep, SessionStep, BornStep, PolicyStep
        DEF IInv

\* Every state of the handshake satisfies the inductive invariant.
THEOREM Invariance == Spec => []IInv
<1>1. Init => IInv
  BY InitInv
<1>2. IInv /\ [Next]_vars => IInv'
  BY StepInv
<1> QED BY <1>1, <1>2, PTL DEF Spec

\* The secret and the suite in a ticket that sendSessionTickets has made ahead are
\* those of the session the client keeps it with.
THEOREM TicketsMatch == Spec => []TicketSecretsMatch
<1>1. IInv => TicketSecretsMatch
  BY DEF IInv, SessionInv, SessionOk, TicketSecretsMatch
<1> QED BY <1>1, Invariance, PTL

\* A server that completes knows its client as its ClientAuth demands, with a ticket
\* issued under another configuration too, and a resumed handshake goes on with
\* one that was completed, with the certificates of then.
THEOREM PolicyKept == Spec => [](ClientAuthPolicy /\ ResumesEstablished)
<1>1. IInv => ClientAuthPolicy
  BY DEF IInv, PolicyInv, ClientAuthPolicy, AcceptsClient
<1>2. IInv => ResumesEstablished
  <2> SUFFICES ASSUME IInv, NEW e \in {cli, srv}, e.pc = "complete", e.resumed
               PROVE  \E s \in sessions : /\ s.master = e.offered.master
                                          /\ (e = cli => s.server = cli.peer)
                                          /\ (e = srv => s.client = srv.peer)
    BY DEF ResumesEstablished
  <2>1. cli # srv
    <3>1. ASSUME cli = srv PROVE FALSE
      <4>1. cli.key.role = "server"
        BY <3>1 DEF IInv, ClientInv, TrafficOf
      <4>2. srv.key.role = "client"
        BY <3>1 DEF IInv, ServerInv, Answering, ServerSigned, TrafficOf
      <4> QED BY <3>1, <4>1, <4>2
    <3> QED BY <3>1
  <2>2. CASE e = cli
    <3>1. cli.offered # None /\ cli.peer = cli.offered.cert
      BY <2>2 DEF IInv, ClientInv, Keyed
    <3> QED BY <2>1, <2>2, <3>1 DEF IInv, SessionInv, SessionOk
  <2>3. CASE e = srv
    <3>1. Known(srv.offered.master, srv.peer)
      BY <2>3 DEF IInv, ServerInv, Answering, ServerSigned
    <3> QED BY <2>1, <2>3, <3>1 DEF Known
  <2> QED BY <2>2, <2>3
<1> QED BY <1>1, <1>2, Invariance, PTL

\* A client that verifies completes only with a server of its name, of its roots and
\* of today, also out of a session another connection has stored, as long as
\* clients that share a cache share their roots; and all of PolicyKept.
THEOREM Authentication == ASSUME SameRoots PROVE Spec => []Authenticated
<1>1. PeerInv => AuthenticServer
  BY DEF PeerInv, AuthenticServer, AcceptsServer
<1>2. Init => IInv /\ PeerInv
  BY InitInv
<1>3. IInv /\ PeerInv /\ [Next]_vars => (IInv /\ PeerInv)'
  BY StepInv, StepDoes, PeerStep DEF IInv
<1>4. AuthenticServer /\ ClientAuthPolicy /\ ResumesEstablished => Authenticated
  BY DEF Authenticated
<1> QED BY <1>1, <1>2, <1>3, <1>4, PolicyKept, PTL DEF Spec

----------------------------------------------------------------------------
(* The handshake implements Agreement.                                     *)

\* What each end has come to, as HandshakeSpec sees it.
clientOutcome == Outcome(cli, cli.out, cli.key)
serverOutcome == Outcome(srv, srv.key, srv.out)

\* An outcome tells how far its end is.
LEMMA Outcomes ==
  \A e, c, s : /\ ~Ended(e) <=> Outcome(e, c, s) = Running
               /\ e.pc = "failed" <=> Outcome(e, c, s) = Failed
               /\ e.pc = "complete" <=> Outcome(e, c, s).state = "complete"
<1> SUFFICES ASSUME NEW e, NEW c, NEW s
             PROVE  /\ ~Ended(e) <=> Outcome(e, c, s) = Running
                    /\ e.pc = "failed" <=> Outcome(e, c, s) = Failed
                    /\ e.pc = "complete" <=> Outcome(e, c, s).state = "complete"
  OBVIOUS
<1>1. Running.state = "running" /\ Failed.state = "failed"
  BY DEF Running, Failed
<1>2. CASE e.pc = "complete"
  <2>1. Outcome(e, c, s).state = "complete"
    BY <1>2 DEF Outcome
  <2> QED BY <1>1, <1>2, <2>1 DEF Ended
<1>3. CASE e.pc = "failed"
  <2>1. Outcome(e, c, s) = Failed
    BY <1>3 DEF Outcome
  <2> QED BY <1>1, <1>3, <2>1 DEF Ended
<1>4. CASE ~Ended(e)
  <2>1. Outcome(e, c, s) = Running
    BY <1>4 DEF Outcome, Ended
  <2> QED BY <1>1, <1>4, <2>1 DEF Ended
<1> QED BY <1>2, <1>3, <1>4 DEF Ended

\* Two ends that have both completed report the same: the client has checked the
\* server's Finished, and all they report is derived from the log it covers.
LEMMA Agreeing ==
  ASSUME IInv PROVE Promise!Agree(clientOutcome, serverOutcome)
<1>1. CASE cli.pc = "complete" /\ srv.pc = "complete"
  <2> DEFINE sum == srv.sum
  <2>1. ServerSigned /\ cli.peerSum = sum
    BY <1>1 DEF IInv, OrderInv
  <2>2. /\ Covers(sum, cli) /\ Names1(sum.log.rest, cli.proto) /\ cli.resumed = cli.sh.psk
        /\ cli.key = TrafficOf("server", sum) /\ cli.out = TrafficOf("client", sum)
    BY <1>1, <2>1 DEF IInv, ClientInv, Keyed
  <2>3. /\ Covers(sum, srv) /\ Names1(sum.log.rest, srv.proto) /\ srv.resumed = srv.sh.psk
        /\ srv.out = TrafficOf("server", sum) /\ srv.key = TrafficOf("client", sum)
    BY <1>1, <2>1 DEF ServerSigned
  <2> HIDE DEF sum
  <2>4. cli.sh = srv.sh
    BY <2>2, <2>3 DEF Covers, Hellos
  <2>5. cli.proto = srv.proto
    <3>1. Msg("extensions", cli.proto) = Msg("extensions", srv.proto)
      BY <2>2, <2>3 DEF Names1
    <3> QED BY <3>1, Headers
  <2>6. clientOutcome = serverOutcome
    BY <1>1, <2>2, <2>3, <2>4, <2>5 DEF clientOutcome, serverOutcome, Outcome
  <2> QED BY <2>6 DEF Promise!Agree
<1>2. CASE ~(cli.pc = "complete" /\ srv.pc = "complete")
  BY <1>2, Outcomes DEF Promise!Agree, clientOutcome, serverOutcome, Ended
<1> QED BY <1>1, <1>2

\* The promise, of the two outcomes.
Agreed == Promise!Agree(clientOutcome, serverOutcome)

\* The handshake implements Agreement: who completes reports what its peer reports,
\* suite, protocol, traffic keys, and whether the handshake was resumed, and an
\* outcome stays.
THEOREM AgreementRefined == Spec => Agrees
<1>1. Init => Promise!Init
  <2> SUFFICES ASSUME Init PROVE Promise!Init
    OBVIOUS
  <2>1. cli.pc = "start" /\ srv.pc = "clientHello"
    BY DEF Init, Fresh
  <2>2. clientOutcome = Running /\ serverOutcome = Running
    BY <2>1, Outcomes DEF Ended, clientOutcome, serverOutcome
  <2> QED BY <2>2 DEF Promise!Init, clientOutcome, serverOutcome
<1>2. IInv => Agreed
  BY Agreeing DEF Agreed
<1>3. IInv /\ Agreed' /\ [Next]_vars => [Promise!Next]_<<clientOutcome, serverOutcome>>
  <2> SUFFICES ASSUME IInv, Agreed', [Next]_vars
               PROVE  [Promise!Next]_<<clientOutcome, serverOutcome>>
    OBVIOUS
  <2>1. Effects
    BY StepDoes DEF IInv
  <2>2. Promise!Agree(clientOutcome', serverOutcome')
    BY DEF Agreed
  <2>3. CASE ClientSteps /\ ~ClientKeepsTicket
    <3>1. ~Ended(cli) /\ srv' = srv
      BY <2>3 DEF ClientSteps, ClientGivesUp, ClientGreets, ClientRetries, ClientHears, ClientReadsOn, ClientCompletes,
         ClientQuiet, ClientTakes, ClientReads, Ended
    <3>2. clientOutcome = Running /\ serverOutcome' = serverOutcome
      BY <3>1, Outcomes DEF clientOutcome, serverOutcome
    <3>3. Promise!ClientEnds \/ UNCHANGED <<clientOutcome, serverOutcome>>
      BY <2>2, <3>2 DEF Promise!ClientEnds, clientOutcome, serverOutcome
    <3> QED BY <3>3 DEF Promise!Next
  <2>4. CASE ServerSteps
    <3>1. ~Ended(srv) /\ cli' = cli
      BY <2>4 DEF ServerSteps, ServerGivesUp, ServerRetries, ServerAnswersHello, ServerWaits, ServerHearsOut,
         ServerCompletes, ServerQuiet, ServerTakes, ServerReads, Ended
    <3>2. serverOutcome = Running /\ clientOutcome' = clientOutcome
      BY <3>1, Outcomes DEF clientOutcome, serverOutcome
    <3>3. Promise!ServerEnds \/ UNCHANGED <<clientOutcome, serverOutcome>>
      BY <2>2, <3>2 DEF Promise!ServerEnds, clientOutcome, serverOutcome
    <3> QED BY <3>3 DEF Promise!Next
  <2>5. CASE HelloDamaged \/ Idles \/ ClientKeepsTicket
    <3>1. UNCHANGED <<cli, srv>>
      BY <2>5 DEF HelloDamaged, Idles, ClientKeepsTicket, ClientReads
    <3> QED BY <3>1 DEF clientOutcome, serverOutcome
  <2>6. CASE Begins
    <3>1. Ended(cli) /\ Ended(srv) /\ cli'.pc = "start" /\ srv'.pc = "clientHello"
      BY <2>6 DEF Begins, Fresh
    <3>2. ~Ended(cli') /\ ~Ended(srv')
      BY <3>1 DEF Ended
    <3>3. clientOutcome # Running /\ serverOutcome # Running /\ clientOutcome' = Running /\ serverOutcome' = Running
      BY <3>1, <3>2, Outcomes DEF clientOutcome, serverOutcome
    <3> QED BY <3>3 DEF Promise!Next, Promise!Again, clientOutcome, serverOutcome
  <2> QED BY <2>1, <2>3, <2>4, <2>5, <2>6 DEF Effects
<1> QED BY <1>1, <1>2, <1>3, Invariance, PTL DEF Spec, Agrees, Promise!Spec, clientOutcome,
           serverOutcome
=============================================================================
