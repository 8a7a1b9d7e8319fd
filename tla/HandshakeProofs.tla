-------------------------- MODULE HandshakeProofs --------------------------
(***************************************************************************)
(* Lemmas both handshakes of src/tls are proved with: sequences of         *)
(* messages, what an end reads, sends and logs, damage and reconnection.   *)
(***************************************************************************)
EXTENDS Handshake, TLAPS

----------------------------------------------------------------------------
(* Sequences of messages.                                                  *)

\* A sequence of whatever it holds.
IsSeq(q) == q \in Seq(ToSet(q))
\* What a sequence holds behind its first element.
Later(q) == {q[i] : i \in 2 .. Len(q)}

\* A sequence over any set is one of what it holds.
LEMMA SeqIsSeq == ASSUME NEW S, NEW q \in Seq(S) PROVE IsSeq(q)
<1>1. \A i \in 1 .. Len(q) : q[i] \in ToSet(q)
  BY DEF ToSet
<1> QED BY <1>1 DEF IsSeq

\* ToSet, by the positions of a sequence.
LEMMA SetOf ==
  ASSUME NEW q, IsSeq(q)
  PROVE  ToSet(q) = {q[i] : i \in 1 .. Len(q)} /\ Len(q) \in Nat /\ DOMAIN q = 1 .. Len(q)
BY DEF IsSeq, ToSet

\* The sequences of none, one and two messages, as a flight is made of them.
LEMMA Short ==
  /\ IsSeq(<<>>) /\ ToSet(<<>>) = {}
  /\ \A x : IsSeq(<<x>>) /\ ToSet(<<x>>) = {x}
  /\ \A x, y : IsSeq(<<x, y>>) /\ ToSet(<<x, y>>) = {x, y}
<1>1. IsSeq(<<>>) /\ ToSet(<<>>) = {}
  BY DEF IsSeq, ToSet
<1>2. ASSUME NEW x PROVE IsSeq(<<x>>) /\ ToSet(<<x>>) = {x}
  <2>1. ToSet(<<x>>) = {x}
    BY DEF ToSet
  <2> QED BY <2>1 DEF IsSeq
<1>3. ASSUME NEW x, NEW y PROVE IsSeq(<<x, y>>) /\ ToSet(<<x, y>>) = {x, y}
  <2>1. ToSet(<<x, y>>) = {x, y}
    BY DEF ToSet
  <2> QED BY <2>1 DEF IsSeq
<1> QED BY <1>1, <1>2, <1>3

\* A flight behind what is on its way: nothing is lost, the first stays first.
LEMMA Joined ==
  ASSUME NEW q, NEW r, IsSeq(q), IsSeq(r)
  PROVE  /\ IsSeq(q \o r)
         /\ ToSet(q \o r) = ToSet(q) \cup ToSet(r)
         /\ Later(q \o r) \subseteq Later(q) \cup ToSet(r)
         /\ q = <<>> => q \o r = r
         /\ q # <<>> => q \o r # <<>> /\ (q \o r)[1] = q[1]
<1> DEFINE S == ToSet(q) \cup ToSet(r)
<1>1. q \in Seq(S) /\ r \in Seq(S)
  BY DEF IsSeq
<1>2. /\ q \o r \in Seq(S) /\ Len(q \o r) = Len(q) + Len(r) /\ Len(q) \in Nat /\ Len(r) \in Nat
      /\ \A i \in 1 .. Len(q) + Len(r) : (q \o r)[i] = IF i <= Len(q) THEN q[i] ELSE r[i - Len(q)]
  BY <1>1
<1>3. IsSeq(q \o r)
  BY <1>2, SeqIsSeq
<1>4. ToSet(q) = {q[i] : i \in 1 .. Len(q)} /\ ToSet(r) = {r[i] : i \in 1 .. Len(r)}
      /\ ToSet(q \o r) = {(q \o r)[i] : i \in 1 .. Len(q \o r)}
  BY <1>3, SetOf
<1>5. ToSet(q \o r) \subseteq ToSet(q) \cup ToSet(r)
  BY <1>2, <1>4
<1>6. ToSet(q) \subseteq ToSet(q \o r)
  BY <1>2, <1>4
<1>7. ToSet(r) \subseteq ToSet(q \o r)
  <2> SUFFICES ASSUME NEW i \in 1 .. Len(r) PROVE \E j \in 1 .. Len(q \o r) : (q \o r)[j] = r[i]
    BY <1>4
  <2>1. Len(q) + i \in 1 .. Len(q \o r) /\ ~(Len(q) + i <= Len(q)) /\ (Len(q) + i) - Len(q) = i
    BY <1>2
  <2> QED BY <1>2, <2>1
<1>8. Later(q \o r) \subseteq Later(q) \cup ToSet(r)
  <2> SUFFICES ASSUME NEW i \in 2 .. Len(q \o r) PROVE (q \o r)[i] \in Later(q) \cup ToSet(r)
    BY DEF Later
  <2>1. CASE i <= Len(q)
    BY <1>2, <2>1 DEF Later
  <2>2. CASE ~(i <= Len(q))
    BY <1>2, <1>4, <2>2
  <2> QED BY <2>1, <2>2
<1>9. q = <<>> => q \o r = r
  BY <1>1
<1>10. q # <<>> => q \o r # <<>> /\ (q \o r)[1] = q[1]
  BY <1>1, <1>2
<1> QED BY <1>3, <1>5, <1>6, <1>7, <1>8, <1>9, <1>10

\* The same for one message: what Logged does to a log.
LEMMA Appended ==
  ASSUME NEW q, NEW x, IsSeq(q)
  PROVE  /\ IsSeq(Append(q, x)) /\ Append(q, x) # <<>>
         /\ ToSet(Append(q, x)) = ToSet(q) \cup {x}
         /\ q = <<>> => Append(q, x)[1] = x
         /\ q # <<>> => Append(q, x)[1] = q[1]
<1>1. q \in Seq(ToSet(q) \cup {x}) /\ q \in Seq(ToSet(q))
  BY DEF IsSeq
<1>2. Append(q, x) = q \o <<x>>
  BY <1>1
<1>3. IsSeq(<<x>>) /\ ToSet(<<x>>) = {x}
  BY Short
<1>4. /\ IsSeq(q \o <<x>>) /\ ToSet(q \o <<x>>) = ToSet(q) \cup {x}
  BY <1>3, Joined
<1>5. Append(q, x) # <<>> /\ (q = <<>> => Append(q, x)[1] = x) /\ (q # <<>> => Append(q, x)[1] = q[1])
  BY <1>1
<1> QED BY <1>2, <1>4, <1>5

\* A message is read off the front.
LEMMA Taken ==
  ASSUME NEW q, IsSeq(q), q # <<>>
  PROVE  /\ IsSeq(Tail(q)) /\ ToSet(Tail(q)) = Later(q) /\ Later(Tail(q)) \subseteq Later(q)
         /\ Head(q) \in ToSet(q) /\ Later(q) \subseteq ToSet(q) /\ Head(q) = q[1]
<1>1. /\ q \in Seq(ToSet(q)) /\ Len(q) \in Nat \ {0}
      /\ Tail(q) \in Seq(ToSet(q)) /\ Len(Tail(q)) = Len(q) - 1
      /\ \A i \in 1 .. Len(q) - 1 : Tail(q)[i] = q[i + 1]
  BY DEF IsSeq
<1>2. IsSeq(Tail(q))
  BY <1>1, SeqIsSeq
<1>3. ToSet(Tail(q)) = {Tail(q)[i] : i \in 1 .. Len(q) - 1}
  BY <1>1, <1>2, SetOf
<1>4. ToSet(Tail(q)) \subseteq Later(q)
  <2> SUFFICES ASSUME NEW i \in 1 .. Len(q) - 1 PROVE Tail(q)[i] \in Later(q)
    BY <1>3
  <2>1. i + 1 \in 2 .. Len(q) /\ Tail(q)[i] = q[i + 1]
    BY <1>1
  <2> QED BY <2>1 DEF Later
<1>5. Later(q) \subseteq ToSet(Tail(q))
  <2> SUFFICES ASSUME NEW i \in 2 .. Len(q) PROVE q[i] \in ToSet(Tail(q))
    BY DEF Later
  <2>1. i - 1 \in 1 .. Len(q) - 1 /\ (i - 1) + 1 = i
    BY <1>1
  <2>2. Tail(q)[i - 1] = q[i]
    BY <1>1, <2>1
  <2> QED BY <1>3, <2>1, <2>2
<1>6. Later(Tail(q)) \subseteq ToSet(Tail(q))
  BY <1>1, <1>3 DEF Later
<1>7. Head(q) = q[1] /\ Head(q) \in ToSet(q) /\ Later(q) \subseteq ToSet(q)
  BY <1>1, SetOf DEF Later, IsSeq
<1> QED BY <1>2, <1>4, <1>5, <1>6, <1>7

\* Send adds a flight, or nothing when the connection is lost.
LEMMA Sent ==
  ASSUME NEW q, NEW r, IsSeq(q), IsSeq(r)
  PROVE  /\ IsSeq(Send(q, r)) /\ ToSet(q) \subseteq ToSet(Send(q, r))
         /\ ToSet(Send(q, r)) \subseteq ToSet(q) \cup ToSet(r)
         /\ Later(Send(q, r)) \subseteq Later(q) \cup ToSet(r)
BY Joined DEF Send

\* Another first message leaves the others as they were.
LEMMA DamagedOne ==
  ASSUME NEW q, IsSeq(q), q # <<>>, NEW x
  PROVE  /\ IsSeq(<<x>> \o Tail(q)) /\ ToSet(<<x>> \o Tail(q)) = {x} \cup Later(q)
         /\ Later(<<x>> \o Tail(q)) = Later(q)
<1>1. IsSeq(Tail(q)) /\ ToSet(Tail(q)) = Later(q) /\ IsSeq(<<x>>) /\ ToSet(<<x>>) = {x}
  BY Taken, Short
<1>2. Later(<<x>>) = {}
  BY DEF Later
<1>3. Later(<<x>> \o Tail(q)) \subseteq Later(q)
  BY <1>1, <1>2, Joined
<1>4. IsSeq(<<x>> \o Tail(q)) /\ ToSet(<<x>> \o Tail(q)) = {x} \cup Later(q)
  BY <1>1, Joined
<1>5. Later(q) \subseteq Later(<<x>> \o Tail(q))
  <2> SUFFICES ASSUME NEW i \in 2 .. Len(q) PROVE q[i] \in Later(<<x>> \o Tail(q))
    BY DEF Later
  <2>1. /\ q \in Seq(ToSet(q)) /\ Len(q) \in Nat \ {0}
    BY DEF IsSeq
  <2>2. Tail(q) \in Seq(ToSet(q) \cup {x}) /\ Len(Tail(q)) = Len(q) - 1 /\ <<x>> \in Seq(ToSet(q) \cup {x})
        /\ Len(<<x>>) = 1
    BY <2>1
  <2>3. Tail(q)[i - 1] = q[i]
    BY <2>1
  <2>4. (<<x>> \o Tail(q))[i] = Tail(q)[i - 1] /\ Len(<<x>> \o Tail(q)) = Len(q)
    BY <2>1, <2>2
  <2> QED BY <2>3, <2>4 DEF Later
<1> QED BY <1>3, <1>4, <1>5

----------------------------------------------------------------------------
(* What is read and what is sent.                                          *)

\* The fields of an end, and of a message.
Fields ==
  {"pc", "retry", "ch", "sh", "rest", "offered", "resumed", "peer", "kx", "request", "proto", "early",
   "shared", "master", "key", "out", "sum", "peerSum", "session"}

Header == {"type", "body", "key"}

\* An end reads the next message and goes on on its own.
ClientReads ==
  /\ s2c # <<>> /\ Head(s2c) \in ToSet(s2c) /\ ToSet(s2c') = Later(s2c) /\ Later(s2c') \subseteq Later(s2c)
  /\ UNCHANGED <<world, srv>>
ServerReads ==
  /\ c2s # <<>> /\ Head(c2s) \in ToSet(c2s) /\ ToSet(c2s') = Later(c2s) /\ Later(c2s') \subseteq Later(c2s)
  /\ UNCHANGED <<world, cache, cli, burnt>>

\* What an end puts on the wire is among these messages.
ClientAdds(sent) == ToSet(c2s') \subseteq ToSet(c2s) \cup sent /\ Later(c2s') \subseteq Later(c2s) \cup sent
ServerAdds(sent) == ToSet(s2c') \subseteq ToSet(s2c) \cup sent /\ Later(s2c') \subseteq Later(s2c) \cup sent

\* A read and the flight that answers it.
ClientTakes(sent) == ClientReads /\ ClientAdds(sent)
ServerTakes(sent) == ServerReads /\ ServerAdds(sent)

\* Both directions of the connection hold messages.
NetShape ==
  /\ IsSeq(c2s) /\ IsSeq(s2c)
  /\ \A m \in ToSet(c2s) \cup ToSet(s2c) : DOMAIN m = Header

\* A flight.
Wire(q) == IsSeq(q) /\ \A m \in ToSet(q) : DOMAIN m = Header

\* Msg and Under make messages of the type and the body they are given.
LEMMA Headers ==
  \A type, body, key :
    /\ DOMAIN Under(key, type, body) = Header /\ DOMAIN Msg(type, body) = Header
    /\ Under(key, type, body).type = type /\ Msg(type, body).type = type
    /\ Under(key, type, body).body = body /\ Msg(type, body).body = body
BY DEF Under, Msg, Header

\* ClientSends reads one message, adds its flight and changes only the client.
LEMMA ClientSendsNet ==
  ASSUME NetShape, NEW e, NEW sent, Wire(sent), s2c # <<>>, ClientSends(e, sent)
  PROVE  cli' = e /\ ClientTakes(ToSet(sent)) /\ NetShape' /\ UNCHANGED <<cache, sessions, burnt>>
<1>1. /\ c2s' = Send(c2s, sent) /\ s2c' = Tail(s2c) /\ cli' = e
      /\ UNCHANGED <<world, cache, srv, sessions, burnt>>
  BY DEF ClientSends
<1>2. IsSeq(c2s) /\ IsSeq(s2c) /\ IsSeq(sent)
  BY DEF NetShape, Wire
<1>3. /\ IsSeq(c2s') /\ ToSet(c2s') \subseteq ToSet(c2s) \cup ToSet(sent)
      /\ Later(c2s') \subseteq Later(c2s) \cup ToSet(sent)
  BY <1>1, <1>2, Sent
<1>4. /\ IsSeq(s2c') /\ ToSet(s2c') = Later(s2c) /\ Later(s2c') \subseteq Later(s2c)
      /\ Head(s2c) \in ToSet(s2c) /\ Later(s2c) \subseteq ToSet(s2c)
  BY <1>1, <1>2, Taken
<1>5. NetShape'
  BY <1>3, <1>4 DEF NetShape, Wire
<1> QED BY <1>1, <1>3, <1>4, <1>5 DEF ClientTakes, ClientReads, ClientAdds

\* ServerNext does the same at the server.
LEMMA ServerNextNet ==
  ASSUME NetShape, NEW e, NEW sent, Wire(sent), c2s # <<>>, ServerNext(e, sent)
  PROVE  srv' = e /\ ServerTakes(ToSet(sent)) /\ NetShape' /\ UNCHANGED sessions
<1>1. /\ s2c' = Send(s2c, sent) /\ c2s' = Tail(c2s) /\ srv' = e
      /\ UNCHANGED <<world, cache, cli, sessions, burnt>>
  BY DEF ServerNext
<1>2. IsSeq(c2s) /\ IsSeq(s2c) /\ IsSeq(sent)
  BY DEF NetShape, Wire
<1>3. /\ IsSeq(s2c') /\ ToSet(s2c') \subseteq ToSet(s2c) \cup ToSet(sent)
      /\ Later(s2c') \subseteq Later(s2c) \cup ToSet(sent)
  BY <1>1, <1>2, Sent
<1>4. /\ IsSeq(c2s') /\ ToSet(c2s') = Later(c2s) /\ Later(c2s') \subseteq Later(c2s)
      /\ Head(c2s) \in ToSet(c2s) /\ Later(c2s) \subseteq ToSet(c2s)
  BY <1>1, <1>2, Taken
<1>5. NetShape'
  BY <1>3, <1>4 DEF NetShape, Wire
<1> QED BY <1>1, <1>3, <1>4, <1>5 DEF ServerTakes, ServerReads, ServerAdds

\* A failing client drops what it has not read; behind what it was about to send
\* it leaves a close.
LEMMA ClientFailsNet ==
  ASSUME NetShape, NEW sent, Wire(sent), ClientFails(sent)
  PROVE  /\ NetShape' /\ s2c' = <<>> /\ ToSet(s2c') = {} /\ Later(s2c') = {}
         /\ ToSet(c2s') \subseteq ToSet(c2s) \cup (ToSet(sent) \cup {Close})
         /\ Later(c2s') \subseteq Later(c2s) \cup (ToSet(sent) \cup {Close})
         /\ cli' = [cli EXCEPT !.pc = "failed"] /\ cache' = Evicted
         /\ burnt' = IF cli.offered = None THEN burnt ELSE burnt \cup {cli.offered.ticket}
         /\ UNCHANGED <<world, srv, sessions>>
<1>1. /\ c2s' = Send(c2s, Append(sent, Close)) /\ s2c' = <<>>
      /\ cli' = [cli EXCEPT !.pc = "failed"] /\ cache' = Evicted
      /\ burnt' = IF cli.offered = None THEN burnt ELSE burnt \cup {cli.offered.ticket}
      /\ UNCHANGED <<world, srv, sessions>>
  BY DEF ClientFails
<1>2. IsSeq(Append(sent, Close)) /\ ToSet(Append(sent, Close)) = ToSet(sent) \cup {Close}
  BY Appended DEF Wire
<1>3. DOMAIN Close = Header
  BY Headers DEF Close
<1>4. /\ IsSeq(c2s') /\ ToSet(c2s') \subseteq ToSet(c2s) \cup (ToSet(sent) \cup {Close})
      /\ Later(c2s') \subseteq Later(c2s) \cup (ToSet(sent) \cup {Close})
  BY <1>1, <1>2, Sent DEF NetShape
<1>5. IsSeq(s2c') /\ ToSet(s2c') = {} /\ Later(s2c') = {}
  BY <1>1, Short DEF Later
<1>6. NetShape'
  BY <1>3, <1>4, <1>5 DEF NetShape, Wire
<1> QED BY <1>1, <1>4, <1>5, <1>6

\* The same of the server.
LEMMA ServerFailsNet ==
  ASSUME NetShape, NEW e, NEW sent, Wire(sent), ServerFails(e, sent)
  PROVE  /\ NetShape' /\ c2s' = <<>> /\ ToSet(c2s') = {} /\ Later(c2s') = {}
         /\ ToSet(s2c') \subseteq ToSet(s2c) \cup (ToSet(sent) \cup {Close})
         /\ Later(s2c') \subseteq Later(s2c) \cup (ToSet(sent) \cup {Close})
         /\ srv' = [e EXCEPT !.pc = "failed"]
         /\ UNCHANGED <<world, cache, cli, sessions, burnt>>
         /\ s2c' = s2c \/ up
<1>1. /\ s2c' = Send(s2c, Append(sent, Close)) /\ c2s' = <<>> /\ srv' = [e EXCEPT !.pc = "failed"]
      /\ UNCHANGED <<world, cache, cli, sessions, burnt>>
  BY DEF ServerFails
<1>2. IsSeq(Append(sent, Close)) /\ ToSet(Append(sent, Close)) = ToSet(sent) \cup {Close}
  BY Appended DEF Wire
<1>3. DOMAIN Close = Header
  BY Headers DEF Close
<1>4. /\ IsSeq(s2c') /\ ToSet(s2c') \subseteq ToSet(s2c) \cup (ToSet(sent) \cup {Close})
      /\ Later(s2c') \subseteq Later(s2c) \cup (ToSet(sent) \cup {Close})
  BY <1>1, <1>2, Sent DEF NetShape
<1>5. IsSeq(c2s') /\ ToSet(c2s') = {} /\ Later(c2s') = {}
  BY <1>1, Short DEF Later
<1>6. NetShape'
  BY <1>3, <1>4, <1>5 DEF NetShape, Wire
<1>7. s2c' = s2c \/ up
  BY <1>1 DEF Send
<1> QED BY <1>1, <1>4, <1>5, <1>6, <1>7

\* The empty flight.
LEMMA NothingSent == Wire(<<>>) /\ ToSet(<<>>) = {}
BY Short DEF Wire
\* A step that neither writes nor reads the cache.
ClientQuiet == ClientTakes({}) /\ UNCHANGED <<cache, sessions, burnt>>

\* ClientNext reads one message and changes only the client.
LEMMA ClientNextNet ==
  ASSUME NetShape, NEW e, s2c # <<>>, ClientNext(e)
  PROVE  cli' = e /\ ClientQuiet /\ NetShape'
BY NothingSent, ClientSendsNet DEF ClientNext, ClientQuiet

\* A step that only reads.
ServerQuiet == ServerTakes({}) /\ UNCHANGED sessions

\* ServerNext without a flight reads one message and changes only the server.
LEMMA ServerReadsNet ==
  ASSUME NetShape, NEW e, c2s # <<>>, ServerNext(e, <<>>)
  PROVE  srv' = e /\ ServerQuiet /\ NetShape'
BY NothingSent, ServerNextNet DEF ServerQuiet

----------------------------------------------------------------------------
(* Logs.                                                                   *)

\* A log that goes on.
Extends(s, r) == IsSeq(s) /\ (r # <<>> => s # <<>> /\ s[1] = r[1])

\* Messages added to a log leave its first in place.
LEMMA LogGrows ==
  ASSUME NEW r, IsSeq(r), NEW m, NEW ms, IsSeq(ms)
  PROVE  /\ Extends(Append(r, m), r) /\ Append(r, m) # <<>>
         /\ Extends(r \o [i \in DOMAIN ms |-> Kept(ms[i])], r)
<1>1. Extends(Append(r, m), r) /\ Append(r, m) # <<>>
  BY Appended DEF Extends
<1> DEFINE k == [i \in DOMAIN ms |-> Kept(ms[i])]
<1>2. DOMAIN ms = 1 .. Len(ms) /\ Len(ms) \in Nat
  BY SetOf
<1>3. k \in Seq({Kept(ms[i]) : i \in DOMAIN ms})
  BY <1>2
<1>4. IsSeq(k)
  BY <1>3, SeqIsSeq
<1>5. Extends(r \o k, r)
  BY <1>4, Joined DEF Extends
<1> QED BY <1>1, <1>5

\* A log that goes on twice goes on.
LEMMA ExtendsTwice ==
  ASSUME NEW r, NEW s, NEW t, Extends(s, r), Extends(t, s) PROVE Extends(t, r)
BY DEF Extends

\* Logged changes the log of an end and nothing else.
LEMMA Logging ==
  ASSUME NEW e, DOMAIN e = Fields, IsSeq(e.rest), NEW m
  PROVE  /\ DOMAIN Logged(e, m) = Fields /\ Extends(Logged(e, m).rest, e.rest) /\ Logged(e, m).rest # <<>>
         /\ \A f \in Fields \ {"rest"} : Logged(e, m)[f] = e[f]
<1>1. Extends(Append(e.rest, Kept(m)), e.rest) /\ Append(e.rest, Kept(m)) # <<>>
  BY Appended DEF Extends
<1> QED BY <1>1 DEF Logged, Fields

\* LoggedAll does the same for a flight.
LEMMA LoggingAll ==
  ASSUME NEW e, DOMAIN e = Fields, IsSeq(e.rest), NEW ms, IsSeq(ms)
  PROVE  /\ DOMAIN LoggedAll(e, ms) = Fields /\ Extends(LoggedAll(e, ms).rest, e.rest)
         /\ \A f \in Fields \ {"rest"} : LoggedAll(e, ms)[f] = e[f]
<1>1. Extends(e.rest \o [i \in DOMAIN ms |-> Kept(ms[i])], e.rest)
  BY LogGrows
<1> QED BY <1>1 DEF LoggedAll, Fields

----------------------------------------------------------------------------
(* Around the ends.                                                        *)

\* The next message of a direction arrives with another body.
LEMMA DamagedNet ==
  ASSUME NEW q, NEW nextq, NEW bodies, Wire(q), q # <<>>, nextq \in DamagedHead(q, bodies)
  PROVE  \E m : /\ m.body \in bodies /\ m.body # Head(q).body
                /\ m.type = Head(q).type /\ DOMAIN m = Header
                /\ ToSet(nextq) = {m} \cup Later(q) /\ Later(nextq) = Later(q) /\ Wire(nextq)
                /\ Head(q) \in ToSet(q) /\ Later(q) \subseteq ToSet(q)
<1>1. PICK b \in bodies : b # Head(q).body /\ nextq = <<[Head(q) EXCEPT !.body = b]>> \o Tail(q)
  BY DEF DamagedHead
<1> DEFINE m == [Head(q) EXCEPT !.body = b]
<1>2. Head(q) \in ToSet(q) /\ DOMAIN Head(q) = Header /\ Later(q) \subseteq ToSet(q)
  BY Taken DEF Wire
<1>3. m.type = Head(q).type /\ m.body = b /\ DOMAIN m = Header
  BY <1>2 DEF Header
<1> HIDE DEF m
<1>4. nextq = <<m>> \o Tail(q)
  BY <1>1 DEF m
<1>5. IsSeq(nextq) /\ ToSet(nextq) = {m} \cup Later(q) /\ Later(nextq) = Later(q)
  BY <1>4, DamagedOne DEF Wire
<1>6. Wire(nextq)
  BY <1>2, <1>3, <1>5 DEF Wire
<1> QED BY <1>1, <1>2, <1>3, <1>5, <1>6

\* A step that changes nothing the invariants look at: Lose, Rotate, a stutter.
Idles == UNCHANGED <<plan, ccfg, scfg, conn, now, damaged, cache, cli, srv, net, sessions, burnt>>

\* Reconnect.
Begins ==
  /\ Ended(cli) /\ Ended(srv) /\ conn < plan.conns
  /\ ccfg' \in plan.clients /\ scfg' \in plan.servers
  /\ conn' = conn + 1
  /\ cli' = Fresh("start") /\ srv' = Fresh("clientHello")
  /\ c2s' = <<>> /\ s2c' = <<>> /\ ToSet(c2s') = {} /\ ToSet(s2c') = {} /\ Later(c2s') = {} /\ Later(s2c') = {}
  /\ damaged' = FALSE
  /\ UNCHANGED <<plan, cache, sessions, burnt>>

\* Lose and Rotate change nothing else, and Reconnect begins.
LEMMA AroundDoes ==
  ASSUME NetShape, Lose \/ Rotate \/ Reconnect \/ UNCHANGED vars PROVE (Idles \/ Begins) /\ NetShape'
<1>1. CASE Lose \/ Rotate \/ UNCHANGED vars
  <2>1. Idles
    BY <1>1 DEF Lose, Rotate, vars, world, net, Idles
  <2> QED BY <2>1 DEF Idles, net, NetShape
<1>2. CASE Reconnect
  <2>1. c2s' = <<>> /\ s2c' = <<>> /\ ToSet(c2s') = {} /\ ToSet(s2c') = {} /\ Later(c2s') = {} /\ Later(s2c') = {} /\ IsSeq(<<>>)
    BY <1>2, Short DEF Reconnect, Later
  <2>2. Begins
    BY <1>2, <2>1 DEF Reconnect, Begins
  <2> QED BY <2>1, <2>2 DEF NetShape
<1> QED BY <1>1, <1>2
============================================================================
