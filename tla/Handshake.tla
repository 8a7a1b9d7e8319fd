----------------------------- MODULE Handshake -----------------------------
(***************************************************************************)
(* The ground both handshakes of src/tls stand on: a client and a server,  *)
(* each one goroutine that runs clientHandshake or serverHandshake on its  *)
(* end, the two directions of their connection, the client's session       *)
(* cache, the server's ticket keys, and one connection after the other.    *)
(* A step of an end reads one handshake message and does everything up to  *)
(* the next read.  In between a connection may be lost, a hello may be     *)
(* damaged on its way (the record layer does not protect it yet), and the  *)
(* ticket keys may be rotated.  TlsHandshake12 and TlsHandshake13 add the  *)
(* steps of the ends.                                                      *)
(*                                                                         *)
(* Secrets, signatures and MACs are symbolic: a secret is the record of    *)
(* what it is derived from, a signature or a MAC the record of what it     *)
(* covers.  Alerts and the end of the stream are one message, Close: both  *)
(* make the reader fail.                                                   *)
(***************************************************************************)
EXTENDS Negotiation, FiniteSets

CONSTANT Plans  \* bounds: what a behaviour may use; see Plan

\* The configurations its connections may be made with, how many connections
\* and faults (hellos damaged, connections lost) there may be, how many ticket
\* keys the server ever has, and how far the clock goes.
Plan(clients, servers, conns, faultsMax, keys, time) ==
  [clients |-> clients, servers |-> servers, conns |-> conns, faults |-> faultsMax, keys |-> keys, time |-> time]

\* A connection's number is its session id, and None stands for no session id.
ASSUME NoneAssumption == None \notin Nat

ASSUME PlansAssumption == \A p \in Plans : {p.conns, p.faults, p.keys, p.time} \subseteq Nat

VARIABLES
  plan,         \* the plan of this behaviour
  ccfg, scfg,   \* the configurations of this connection
  conn,         \* the number of this connection
  now,          \* the clock of both ends
  cache,        \* the client's sessions, by cache key
  ticketKeys,   \* the server's ticket keys, the current one first
  cli, srv,     \* the two ends
  c2s, s2c,     \* the messages on their way
  up,           \* the connection has not been lost
  damaged,      \* a hello of this connection was damaged
  faults,       \* faults so far
  sessions,     \* history: what handshakes that can be resumed established
  burnt         \* history: the tickets a failed handshake had offered

net   == <<c2s, s2c>>
world == <<plan, ccfg, scfg, conn, now, ticketKeys, up, damaged, faults>>
vars  == <<world, cache, cli, srv, net, sessions, burnt>>

----------------------------------------------------------------------------
(***************************************************************************)
(* Messages and ends.                                                      *)
(***************************************************************************)
Under(key, type, body) == [type |-> type, body |-> body, key |-> key]
Msg(type, body) == Under(None, type, body)
Close == Msg("close", None)

Send(q, msgs) == IF up THEN q \o msgs ELSE q

\* An end before its first message.  (retry, early, shared, out: TLS 1.3 only.)
Fresh(pc) ==
  [pc |-> pc, retry |-> None, ch |-> None, sh |-> None, rest |-> <<>>, offered |-> None,
   resumed |-> FALSE, peer |-> None, kx |-> None, request |-> None, proto |-> None, early |-> None,
   shared |-> None, master |-> None, key |-> None, out |-> None, sum |-> None, peerSum |-> None,
   session |-> None]

\* The outcomes of an end that has none yet, and of one that will have none.
Running == [state |-> "running"]
Failed == [state |-> "failed"]

Ended(e) == e.pc \in {"complete", "failed"}

\* What the handshake hash keeps of a message: a signature or a MAC is
\* determined by what it covers, which the hash holds already.
Kept(m) == Msg(m.type, IF m.type \in {"verify", "finished"} THEN None ELSE m.body)

Logged(e, m) == [e EXCEPT !.rest = Append(@, Kept(m))]
LoggedAll(e, ms) == [e EXCEPT !.rest = @ \o [i \in DOMAIN ms |-> Kept(ms[i])]]

----------------------------------------------------------------------------
(***************************************************************************)
(* Certificates (crypto/x509) and what each end demands of them.           *)
(***************************************************************************)
Names(cert, name) == name \in cert.names \/ (Len(name) > 1 /\ Wildcard(name, 1) \in cert.names)

Current(cert) == now <= cert.notAfter

Verify(cert, roots, name) ==
  /\ cert.issuer \in roots
  /\ Current(cert)
  /\ name # <<>> => Names(cert, name)

\* verifyServerCertificate
AcceptsServer(cert) == ccfg.insecure \/ Verify(cert, ccfg.roots, ccfg.server.name)

\* processCertsFromClient
AcceptsClient(cert) ==
  /\ RequiresClientCert(scfg.clientAuth) => cert # None
  /\ VerifiesClientCert(scfg.clientAuth) /\ cert # None => Verify(cert, scfg.clientCAs, <<>>)

----------------------------------------------------------------------------
(***************************************************************************)
(* Sessions and tickets.                                                   *)
(***************************************************************************)
CacheKey(c) == IF c.server.name # <<>> THEN c.server.name ELSE <<"address">>

Stored == IF ccfg.tickets THEN cache[CacheKey(ccfg)] ELSE None

\* Faulty: a session of a connection that verified nothing will do.
TrustedUnverified(ch) == Stored # None /\ Stored.vers \in ToSet(ch.supportedVersions)

\* The stored session is of a version on offer and of a verified server.
Trusted(ch) ==
  /\ Stored # None
  /\ Stored.vers \in ToSet(ch.supportedVersions)
  /\ ~ccfg.insecure => Stored.verified

Expired == ~ccfg.insecure /\ ~Current(Stored.cert)

\* What loadSession demands of a session of either version.
Usable(ch) == Trusted(ch) /\ ~Expired /\ (~ccfg.insecure => Names(Stored.cert, ccfg.server.name))

\* Faulty: the session stays in the cache.
EvictedKept == cache

\* A session that was offered is not kept when the handshake fails.
Evicted == IF cli.offered = None THEN cache ELSE [cache EXCEPT ![CacheKey(ccfg)] = None]

EncryptTicket(state) == [key |-> ticketKeys[1], state |-> state]

\* The state of a ticket that one of the server's keys opens.
Opened(ticket) ==
  IF scfg.tickets /\ ticket # None /\ ticket.key \in ToSet(ticketKeys) THEN ticket.state ELSE None

\* The client certificate of a session fits what the server asks for today.
CarriesOver(cert) ==
  /\ RequiresClientCert(scfg.clientAuth) => cert # None
  /\ cert # None => scfg.clientAuth # "NoClientCert"

----------------------------------------------------------------------------
(***************************************************************************)
(* Steps every handshake takes.                                            *)
(***************************************************************************)
\* The message is the one the end reads next, under the key it reads with.
ClientGets(type) == s2c # <<>> /\ Head(s2c).type = type /\ Head(s2c).key = cli.key
ServerGets(type) == c2s # <<>> /\ Head(c2s).type = type /\ Head(c2s).key = srv.key

ClientSends(e, sent) ==
  /\ cli' = e
  /\ s2c' = Tail(s2c)
  /\ c2s' = Send(c2s, sent)
  /\ UNCHANGED <<world, cache, srv, sessions, burnt>>

ClientNext(e) == ClientSends(e, <<>>)

ServerNext(e, sent) ==
  /\ srv' = e
  /\ c2s' = Tail(c2s)
  /\ s2c' = Send(s2c, sent)
  /\ UNCHANGED <<world, cache, cli, sessions, burnt>>

\* A failing return of clientHandshake leaves the flight so far and an alert.
ClientFails(sent) ==
  /\ cli' = [cli EXCEPT !.pc = "failed"]
  /\ c2s' = Send(c2s, Append(sent, Close))
  /\ s2c' = <<>>
  /\ cache' = Evicted
  /\ burnt' = IF cli.offered = None THEN burnt ELSE burnt \cup {cli.offered.ticket}
  /\ UNCHANGED <<world, srv, sessions>>

ServerFails(e, sent) ==
  /\ srv' = [e EXCEPT !.pc = "failed"]
  /\ s2c' = Send(s2c, Append(sent, Close))
  /\ c2s' = <<>>
  /\ UNCHANGED <<world, cache, cli, sessions, burnt>>

\* A lost connection: each end notices, at a read or at a write.
ClientCut == ~up /\ ~Ended(cli) /\ ClientFails(<<>>)
ServerCut == ~up /\ ~Ended(srv) /\ ServerFails(srv, <<>>)

\* The goroutine of the end is not blocked in a read.
ClientReady == ~Ended(cli) /\ (cli.pc = "start" \/ s2c # <<>> \/ ~up)
ServerReady == ~Ended(srv) /\ (c2s # <<>> \/ ~up)

----------------------------------------------------------------------------
(***************************************************************************)
(* Around them: faults, the operator of the server, the next connection.   *)
(***************************************************************************)
DamagedHead(q, bodies) == {<<[Head(q) EXCEPT !.body = b]>> \o Tail(q) : b \in bodies \ {Head(q).body}}

\* One hello arrives with another body; Damages gives the bodies it may have.
DamageHello(Damages(_)) ==
  /\ faults < plan.faults /\ ~damaged
  /\ \/ c2s # <<>> /\ c2s' \in DamagedHead(c2s, Damages(Head(c2s))) /\ UNCHANGED s2c
     \/ s2c # <<>> /\ s2c' \in DamagedHead(s2c, Damages(Head(s2c))) /\ UNCHANGED c2s
  /\ damaged' = TRUE /\ faults' = faults + 1
  /\ UNCHANGED <<plan, ccfg, scfg, conn, now, ticketKeys, up, cache, cli, srv, sessions, burnt>>

\* What is on its way may still arrive; nothing is sent any more.
Lose ==
  /\ faults < plan.faults /\ up
  /\ up' = FALSE /\ faults' = faults + 1
  /\ UNCHANGED <<plan, ccfg, scfg, conn, now, ticketKeys, damaged, cache, cli, srv, net, sessions, burnt>>

\* SetSessionTicketKeys with a new key first and the current one kept for decryption.
Rotate ==
  /\ ticketKeys[1] < plan.keys
  /\ ticketKeys' = <<ticketKeys[1] + 1, ticketKeys[1]>>
  /\ UNCHANGED <<plan, ccfg, scfg, conn, now, up, damaged, faults, cache, cli, srv, net, sessions, burnt>>

Reconnect ==
  /\ Ended(cli) /\ Ended(srv) /\ conn < plan.conns
  /\ ccfg' \in plan.clients /\ scfg' \in plan.servers
  /\ conn' = conn + 1
  /\ now' \in now .. plan.time
  /\ cli' = Fresh("start") /\ srv' = Fresh("clientHello")
  /\ c2s' = <<>> /\ s2c' = <<>>
  /\ up' = TRUE /\ damaged' = FALSE
  /\ UNCHANGED <<plan, ticketKeys, faults, cache, sessions, burnt>>

Init ==
  /\ plan \in Plans
  /\ ccfg \in plan.clients /\ scfg \in plan.servers
  /\ conn = 1 /\ now = 0
  /\ cache = [k \in {CacheKey(c) : c \in plan.clients} |-> None]
  /\ ticketKeys = <<1>>
  /\ cli = Fresh("start") /\ srv = Fresh("clientHello")
  /\ c2s = <<>> /\ s2c = <<>>
  /\ up = TRUE /\ damaged = FALSE /\ faults = 0
  /\ sessions = {} /\ burnt = {}

----------------------------------------------------------------------------
(***************************************************************************)
(* What every handshake promises.                                          *)
(***************************************************************************)
\* A hello that was damaged on its way is found out by the Finished messages
\* (finishedHash covers both hellos): neither end completes.
DamageIsFoundOut == damaged => cli.pc # "complete" /\ srv.pc # "complete"

\* A server that requires a certificate completes only with one, one that
\* verifies completes only with one that its CAs vouch for now, and one that
\* does not ask has none: also when the certificate comes out of a ticket that
\* was issued under another configuration (checkForResumption).
ClientAuthPolicy ==
  srv.pc = "complete" =>
    /\ RequiresClientCert(scfg.clientAuth) => srv.peer # None
    /\ VerifiesClientCert(scfg.clientAuth) /\ srv.peer # None => Verify(srv.peer, scfg.clientCAs, <<>>)
    /\ scfg.clientAuth = "NoClientCert" => srv.peer = None

\* Clients that reconnect, and so share a session cache, have the same roots:
\* loadSession looks at the name and the expiry of a session's certificate, not
\* at who issued it.
SameRoots == \A p \in Plans : p.conns > 1 => \A c, d \in p.clients : c.roots = d.roots

\* A client that verifies completes only with a server whose certificate is
\* for its name, of its roots and not expired, also when it is the certificate
\* of a session that another connection, with other checks, has stored
\* (loadSession), as long as these clients have the same roots.
AuthenticServer ==
  cli.pc = "complete" /\ ~ccfg.insecure => Verify(cli.peer, ccfg.roots, ccfg.server.name)

\* A resumed handshake goes on with an earlier one (checkForResumption): its
\* secret is that of a handshake that was completed, and both ends know the
\* same certificates as then.
ResumesEstablished ==
  \A e \in {cli, srv} : e.pc = "complete" /\ e.resumed =>
    \E s \in sessions : /\ s.master = e.offered.master
                       /\ (e = cli => s.server = cli.peer)
                       /\ (e = srv => s.client = srv.peer)

\* Who completes knows its peer as its configuration demands, by a full handshake
\* or by going on with an earlier one.
Authenticated == AuthenticServer /\ ClientAuthPolicy /\ ResumesEstablished

\* "If we got a handshake failure when resuming a session, throw away the
\* session ticket": what failed once is never offered again.
FailedNotOffered ==
  cli.pc # "failed" /\ cli.offered # None => cli.offered.ticket \notin burnt

\* Every connection ends on both sides, lost ones too, when both goroutines go
\* on.  (Neither handshake has a timeout of its own.)
EverythingEnds == []<>(Ended(cli) /\ Ended(srv))
============================================================================
