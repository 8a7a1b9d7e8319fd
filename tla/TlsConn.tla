------------------------------- MODULE TlsConn -------------------------------
(***************************************************************************)
(* One end of a TLS connection (tls/conn.go): goroutines call Read, Write, *)
(* Close, CloseWrite and Handshake on it at once.  The module has its      *)
(* mutexes (handshakeMutex, in, out), the activeCall interlock of Write    *)
(* and Close, alerts, the closing alert, renegotiation and the messages    *)
(* that follow a handshake.  A handshake itself is its first record, its   *)
(* last record, with which the keys change, and its result.                *)
(*                                                                         *)
(* The records of a handshake are collected in a buffer, which flush sends *)
(* and clears without out: a goroutine that has out may be appending to it *)
(* at the time.                                                            *)
(*                                                                         *)
(* The peer and the network are the environment: which record comes next,  *)
(* how long a write to the socket takes and whether it fails.              *)
(***************************************************************************)
EXTENDS Naturals, Sequences, FiniteSets

CONSTANTS
  Proc,        \* the goroutines that use the connection
  NoProc,      \* nobody holds a mutex
  Modes,       \* kinds of connection: client or server, version, renegotiation
  Ops,         \* the methods the goroutines of this instance call
  Arrivals,    \* the kinds of record the peer of this instance sends
  MaxCalls,    \* bound: calls a goroutine makes
  MaxRecords,  \* bound: records the peer sends after a handshake
  MaxUseless   \* maxUselessRecords

Renegotiation == {"never", "once", "freely"}

ASSUME ConstantsAssumption ==
  /\ NoProc \notin Proc /\ IsFiniteSet(Proc)
  /\ Modes \subseteq [client : BOOLEAN, v13 : BOOLEAN, reneg : Renegotiation]
  /\ Ops \subseteq {"read", "write", "close", "closeWrite", "handshake"}
  /\ MaxCalls \in Nat /\ MaxRecords \in Nat /\ MaxUseless \in Nat

VARIABLES
  mode,             \* isClient, vers = VersionTLS13, config.Renegotiation
  status,           \* handshakeStatus
  hsErr,            \* handshakeErr # nil
  handshakes,       \* handshakes completed
  hsLock,           \* handshakeMutex: its holder
  inLock,           \* in.Mutex
  outLock,          \* out.Mutex
  inErr,            \* in.err # nil
  outErr,           \* out.err # nil
  key,              \* the key of out
  seq,              \* out.seq
  activeCall,       \* twice the goroutines in Write, plus one once closed
  closeNotifySent,
  retryCount,
  hand,             \* handshake messages waiting in c.hand
  input,            \* application data waiting in c.input
  tcp,              \* the underlying connection is open at this end
  arrived,          \* records received after a handshake
  useless,          \* of these, the last ones that brought no application data
  pc,               \* where each goroutine is
  call,             \* the method it is in
  rec,              \* the record it is writing
  calls,            \* calls it has made
  wire,             \* what the peer has made of the records so far
  buffering,        \* records go to sendBuf
  sendBuf,          \* records waiting to be sent
  flight,           \* those that flush has given to the socket, not sent yet
  base,             \* sendBuf as write found it, to append to
  overlap           \* history: flush and write of two goroutines have overlapped

vars == <<mode, status, hsErr, handshakes, hsLock, inLock, outLock, inErr,
          outErr, key, seq, activeCall, closeNotifySent, retryCount, hand,
          input, tcp, arrived, useless, pc, call, rec, calls, wire,
          buffering, sendBuf, flight, base, overlap>>

locks     == <<hsLock, inLock, outLock>>
handshake == <<mode, status, hsErr, handshakes>>
incoming  == <<inErr, retryCount, hand, input, arrived, useless>>
buffer    == <<buffering, sendBuf, flight, base, overlap>>
outgoing  == <<outErr, key, seq, closeNotifySent, wire, buffer>>
closing   == <<activeCall, tcp>>
callers   == <<call, calls>>

Handshakes == {"hello", "finished"}
Alerts     == {"fatal", "soft", "bare", "hsAlert"}
Records    == Handshakes \cup Alerts \cup {"data", "notify", "update"}
Reading    == {"record", "more", "ahead", "aheadMore"}
Messages   == {"ticket", "update", "updateReq", "helloReq", "other", "half",
               "malformed", "huge"}
Writing    == {"seal", "put", "append"}
Flushing   == {"flush", "send", "unbuffer"}
Places     == {"idle", "hsLock", "hsIn", "settle", "inLock", "post", "renego", "take",
               "closing", "shut"} \cup Reading \cup Writing \cup Flushing

NoRecord == [kind |-> "none", key |-> 0, seq |-> 0]
Sealed   == [kind : Records, key : Nat, seq : Nat]

TypeOK ==
  /\ mode \in Modes
  /\ status \in {0, 1}
  /\ hsErr \in BOOLEAN
  /\ handshakes \in Nat
  /\ hsLock \in Proc \cup {NoProc}
  /\ inLock \in Proc \cup {NoProc}
  /\ outLock \in Proc \cup {NoProc}
  /\ inErr \in BOOLEAN /\ outErr \in BOOLEAN
  /\ key \in Nat /\ seq \in Nat
  /\ activeCall \in Nat
  /\ closeNotifySent \in BOOLEAN
  /\ retryCount \in Nat
  /\ hand \in Seq(Messages)
  /\ input \in 0 .. 2
  /\ tcp \in {"open", "closed"}
  /\ arrived \in Nat /\ useless \in Nat
  /\ pc \in [Proc -> Places]
  /\ call \in [Proc -> Ops \cup {"none"}]
  /\ rec \in [Proc -> [kind : Records \cup {"none"}, key : Nat, seq : Nat]]
  /\ calls \in [Proc -> Nat]
  /\ wire \in [state : {"whole", "garbled"},
               phase : {"clear", "handshake", "open"},
               ended : BOOLEAN, sent : Nat, key : Nat, seq : Nat]
  /\ buffering \in BOOLEAN /\ overlap \in BOOLEAN
  /\ sendBuf \in Seq(Sealed) /\ flight \in Seq(Sealed) /\ base \in Seq(Sealed)

Init ==
  /\ mode \in Modes
  /\ status = 0 /\ hsErr = FALSE /\ handshakes = 0
  /\ hsLock = NoProc /\ inLock = NoProc /\ outLock = NoProc
  /\ inErr = FALSE /\ outErr = FALSE
  /\ key = 0 /\ seq = 0
  /\ activeCall = 0
  /\ closeNotifySent = FALSE
  /\ retryCount = 0 /\ hand = << >> /\ input = 0
  /\ tcp = "open"
  /\ arrived = 0 /\ useless = 0
  /\ pc = [p \in Proc |-> "idle"]
  /\ call = [p \in Proc |-> "none"]
  /\ rec = [p \in Proc |-> NoRecord]
  /\ calls = [p \in Proc |-> 0]
  /\ wire = [state |-> "whole", phase |-> "clear", ended |-> FALSE,
             sent |-> 0, key |-> 0, seq |-> 0]
  /\ buffering = FALSE /\ overlap = FALSE
  /\ sendBuf = << >> /\ flight = << >> /\ base = << >>

-----------------------------------------------------------------------------
(* Helpers.                                                                *)

Goto(p, place) == pc' = [pc EXCEPT ![p] = place]

Free(lock) == lock = NoProc

Closed  == activeCall % 2 = 1
Writers == activeCall \div 2

\* Faulty variant of Return: a Write that fails leaves its mark on activeCall.
ReturnMarked(p) ==
  /\ pc' = [pc EXCEPT ![p] = "idle"]
  /\ call' = [call EXCEPT ![p] = "none"]
  /\ UNCHANGED activeCall

\* A call returns: Write takes itself off activeCall.
Return(p) ==
  /\ pc' = [pc EXCEPT ![p] = "idle"]
  /\ call' = [call EXCEPT ![p] = "none"]
  /\ activeCall' = IF call[p] = "write" THEN activeCall - 2 ELSE activeCall

\* Write a record next: take out, encrypt, write to the socket.
GoWrite(p, kind) ==
  /\ pc' = [pc EXCEPT ![p] = "seal"]
  /\ rec' = [rec EXCEPT ![p] = [NoRecord EXCEPT !.kind = kind]]

\* Faulty variant of ReadOn: the loop over c.hand is missing.
ReadOnDeaf(p, messages, data) == Goto(p, IF data > 0 THEN "take" ELSE "record")

\* Where Read is after a record: at the messages it has, else at the data.
ReadOn(p, messages, data) ==
  Goto(p, CASE messages # << >> -> "post"
            [] messages = << >> /\ data > 0 -> "take"
            [] OTHER -> "record")

\* The sequence number after the record with number n; there are none without
\* a cipher.
After(k, n) == IF k = 0 THEN n ELSE n + 1

\* The last record under a key: ChangeCipherSpec or Finished, and KeyUpdate.
SwitchesKey(kind) == kind \in {"finished", "update"}

\* The peer's view after a record arrived whole, and after a part of one.  It
\* stops reading when the stream ends or a record does not fit.
Fits(w, r) == r.key = w.key /\ r.seq = w.seq

PeerDecrypts(w, r) ==
  [w EXCEPT
    !.phase = CASE r.kind = "hello" -> "handshake"
                [] r.kind = "finished" -> "open"
                [] OTHER -> @,
    !.ended = r.kind \in Alerts \cup {"notify"},
    !.sent  = IF r.kind = "data" THEN @ + 1 ELSE @,
    !.key   = IF SwitchesKey(r.kind) THEN @ + 1 ELSE @,
    !.seq   = IF SwitchesKey(r.kind) THEN 0 ELSE After(r.key, @)]

PeerReads(w, r) ==
  CASE ~w.ended /\ Fits(w, r) -> PeerDecrypts(w, r)
    [] ~w.ended /\ ~Fits(w, r) -> [w EXCEPT !.state = "garbled", !.ended = TRUE]
    [] w.ended -> IF r.kind = "data" THEN [w EXCEPT !.sent = @ + 1] ELSE w

PeerCutOff(w) == [w EXCEPT !.ended = TRUE]

-----------------------------------------------------------------------------
(* The methods.                                                            *)

Begin(p, op) ==
  /\ op \in Ops
  /\ pc[p] = "idle"
  /\ calls[p] < MaxCalls
  /\ calls' = [calls EXCEPT ![p] = @ + 1]
  /\ call' = [call EXCEPT ![p] = op]

\* Read, and Handshake itself, start with Handshake.
BeginRead(p) ==
  /\ Begin(p, "read") \/ Begin(p, "handshake")
  /\ Goto(p, "hsLock")
  /\ UNCHANGED <<locks, handshake, incoming, outgoing, closing, rec>>

\* Write enters activeCall unless Close has been called.
BeginWrite(p) ==
  /\ Begin(p, "write")
  /\ ~Closed
  /\ activeCall' = activeCall + 2
  /\ Goto(p, "hsLock")
  /\ UNCHANGED <<locks, handshake, incoming, outgoing, tcp, rec>>

\* Faulty variant of BeginClose: it does not look for Writes.
BeginClosePolite(p) ==
  /\ Begin(p, "close")
  /\ ~Closed
  /\ activeCall' = activeCall + 1
  /\ Goto(p, "closing")
  /\ UNCHANGED <<locks, handshake, incoming, outgoing, tcp, rec>>

\* Close leaves out the closing alert when a Write is in flight.
BeginClose(p) ==
  /\ Begin(p, "close")
  /\ ~Closed
  /\ activeCall' = activeCall + 1
  /\ Goto(p, IF Writers = 0 THEN "closing" ELSE "shut")
  /\ UNCHANGED <<locks, handshake, incoming, outgoing, tcp, rec>>

\* Close after its interlock: the closing alert if the handshake is complete.
CloseChecks(p) ==
  /\ pc[p] = "closing"
  /\ \/ status = 1 /\ GoWrite(p, "notify")
     \/ status = 0 /\ Goto(p, "shut") /\ UNCHANGED rec
  /\ UNCHANGED <<locks, handshake, incoming, outgoing, closing, callers>>

\* The last step of Close: c.conn.Close.
Shut(p) ==
  /\ pc[p] = "shut"
  /\ tcp' = "closed"
  /\ Return(p)
  /\ UNCHANGED <<locks, handshake, incoming, outgoing, rec, calls>>

BeginCloseWrite(p) ==
  /\ Begin(p, "closeWrite")
  /\ status = 1
  /\ GoWrite(p, "notify")
  /\ UNCHANGED <<locks, handshake, incoming, outgoing, closing>>

-----------------------------------------------------------------------------
(* Handshake.                                                              *)

\* Past Handshake: Read takes in, Write writes its record.
AfterHandshake(p) ==
  CASE call[p] = "read" ->
         Goto(p, "inLock") /\ UNCHANGED <<call, activeCall, rec>>
    [] call[p] = "write" ->
         GoWrite(p, "data") /\ UNCHANGED <<call, activeCall>>
    [] call[p] = "handshake" ->
         Return(p) /\ UNCHANGED rec

\* Under handshakeMutex: a failed handshake fails the call, a complete one lets
\* it through, otherwise the caller runs it.
HandshakeDone(p) ==
  /\ pc[p] = "hsLock" /\ Free(hsLock)
  /\ \/ hsErr /\ Return(p) /\ UNCHANGED rec
     \/ ~hsErr /\ status = 1 /\ AfterHandshake(p)
  /\ UNCHANGED <<locks, handshake, incoming, outgoing, tcp, calls>>

HandshakeStarts(p) ==
  /\ pc[p] = "hsLock" /\ Free(hsLock)
  /\ ~hsErr /\ status = 0
  /\ hsLock' = p
  /\ Goto(p, "hsIn")
  /\ UNCHANGED <<inLock, outLock, handshake, incoming, outgoing, closing, callers, rec>>

HandshakeTakesIn(p) ==
  /\ pc[p] = "hsIn" /\ Free(inLock)
  /\ inLock' = p
  /\ GoWrite(p, "hello")
  /\ UNCHANGED <<hsLock, outLock, handshake, incoming, outgoing, closing, callers>>

\* The call or the renegotiation returns the handshake's error; either way its
\* caller gives back in as well.
HandshakeFailed(p) ==
  /\ hsErr' = TRUE
  /\ hsLock' = NoProc
  /\ inLock' = NoProc
  /\ Return(p)
  /\ UNCHANGED <<mode, status, handshakes>>

\* clientHandshake or serverHandshake returns an error: Handshake flushes what is
\* left in the buffer, handleRenegotiation does not.
GiveUp(p) ==
  \/ /\ handshakes = 0
     /\ pc' = [pc EXCEPT ![p] = "flush"]
     /\ rec' = [rec EXCEPT ![p] = NoRecord]
     /\ UNCHANGED <<handshake, hsLock, inLock, call, activeCall>>
  \/ /\ handshakes > 0
     /\ HandshakeFailed(p)
     /\ UNCHANGED rec

InHandshake(p) ==
  \/ pc[p] = "settle"
  \/ pc[p] = "seal" /\ rec[p].kind \in Handshakes

\* The handshake fails between two of its records: it may send an alert, and
\* what it read may have failed for good.
HandshakeFails(p) ==
  /\ InHandshake(p)
  /\ GiveUp(p)
  /\ inErr' \in {inErr, TRUE}
  /\ UNCHANGED <<outLock, retryCount, hand, input, arrived, useless, outgoing, tcp, calls>>

HandshakeAlerts(p) ==
  /\ InHandshake(p)
  /\ GoWrite(p, "hsAlert")
  /\ inErr' \in {inErr, TRUE}
  /\ UNCHANGED <<locks, handshake, retryCount, hand, input, arrived, useless, outgoing,
                 closing, callers>>

\* c.buffering = true: once the other end has answered or, at a server, before its
\* own first record.  A HelloRetryRequest of TLS 1.3 goes out before it.
HandshakeBuffers(p) ==
  /\ pc[p] = "seal" /\ ~buffering
  /\ rec[p].kind = "finished" \/ (rec[p].kind = "hello" /\ ~mode.client)
  /\ buffering' = TRUE
  /\ UNCHANGED <<locks, handshake, incoming, outErr, key, seq, closeNotifySent, wire,
                 sendBuf, flight, base, overlap, closing, pc, rec, callers>>

\* What is buffered; a client writes its last records when the other end has
\* answered, for which its hello must have left.
MustBuffer(kind) == kind = "finished" \/ (kind = "hello" /\ ~mode.client /\ ~mode.v13)

Answered == mode.client => \A i \in DOMAIN sendBuf : sendBuf[i].kind # "hello"

\* A first handshake gives back both mutexes, a renegotiation, which Read runs
\* with in held, only handshakeMutex.  The peer has read all of this handshake.
HandshakeSucceeds(p) ==
  /\ pc[p] = "settle"
  /\ tcp = "open"
  /\ wire.phase = "open" /\ wire.key = key
  /\ hsErr' = FALSE
  /\ status' = 1
  /\ handshakes' = handshakes + 1
  /\ hsLock' = NoProc
  /\ \/ /\ handshakes = 0
        /\ inLock' = NoProc
        /\ AfterHandshake(p)
     \/ /\ handshakes > 0
        /\ Goto(p, "post")
        /\ UNCHANGED <<inLock, call, activeCall, rec>>
  /\ useless' = 0 /\ retryCount' = 0
  /\ UNCHANGED <<mode, outLock, inErr, hand, input, arrived,
                 outgoing, tcp, calls>>

-----------------------------------------------------------------------------
(* Writing a record: writeRecordLocked, and what its caller does after it. *)

\* Faulty variant of MaySendData: a handshake under way is not looked for.
MaySendDataDuring == ~outErr /\ ~closeNotifySent

\* Write looks at the connection again once it has out.
MaySendData == ~outErr /\ status = 1 /\ ~closeNotifySent

MaySeal(kind) ==
  CASE kind = "data" -> MaySendData
    [] kind = "notify" -> ~closeNotifySent
    [] OTHER -> TRUE

\* The record gets out's key and, unless it goes in the clear, out's next
\* sequence number.
Encrypt(p) ==
  /\ rec' = [rec EXCEPT ![p] = [@ EXCEPT !.key = key, !.seq = seq]]
  /\ seq' = After(key, seq)
  /\ Goto(p, "put")

\* Faulty variant of Seal: alerts do not take out.
SealLoose(p) ==
  /\ pc[p] = "seal" /\ rec[p].kind # "bare"
  /\ Free(outLock) \/ rec[p].kind \in Alerts
  /\ MaySeal(rec[p].kind)
  /\ MustBuffer(rec[p].kind) => buffering /\ Answered
  /\ outLock' = IF Free(outLock) THEN p ELSE outLock
  /\ Encrypt(p)
  /\ UNCHANGED <<hsLock, inLock, handshake, incoming, outErr, key, closeNotifySent, wire,
                 buffer, closing, callers>>

Seal(p) ==
  /\ pc[p] = "seal" /\ rec[p].kind # "bare"
  /\ Free(outLock)
  /\ MaySeal(rec[p].kind)
  /\ MustBuffer(rec[p].kind) => buffering /\ Answered
  /\ outLock' = p
  /\ Encrypt(p)
  /\ UNCHANGED <<hsLock, inLock, handshake, incoming, outErr, key, closeNotifySent, wire,
                 buffer, closing, callers>>

\* readHandshake calls sendAlertLocked for an oversized message: out is not held.
SealBare(p) ==
  /\ pc[p] = "seal" /\ rec[p].kind = "bare"
  /\ Encrypt(p)
  /\ UNCHANGED <<locks, handshake, incoming, outErr, key, closeNotifySent, wire,
                 buffer, closing, callers>>

\* Nothing to write: Write returns an error, closeNotify its earlier result.
SealRefused(p) ==
  /\ pc[p] = "seal" /\ rec[p].kind # "bare"
  /\ Free(outLock)
  /\ ~MaySeal(rec[p].kind)
  /\ \/ call[p] = "close" /\ Goto(p, "shut") /\ UNCHANGED <<call, activeCall>>
     \/ call[p] # "close" /\ Return(p)
  /\ UNCHANGED <<locks, handshake, incoming, outgoing, tcp, rec, calls>>

\* write, while records are buffered: it reads sendBuf, to append to it next.
LoadBuffer(p) ==
  /\ pc[p] = "put" /\ buffering
  /\ base' = sendBuf
  /\ overlap' = (overlap \/ \E q \in Proc : pc[q] \in {"send", "unbuffer"})
  /\ Goto(p, "append")
  /\ UNCHANGED <<locks, handshake, incoming, outErr, key, seq, closeNotifySent, wire,
                 buffering, sendBuf, flight, closing, rec, callers>>

\* The socket takes the record, or fails, at the latest when it is closed.
ToSocket(p, ok) ==
  /\ pc[p] = "put" /\ ~buffering
  /\ ok => tcp = "open"
  /\ wire' = IF ok THEN PeerReads(wire, rec[p]) ELSE PeerCutOff(wire)
  /\ UNCHANGED sendBuf

ToBuffer(p) ==
  /\ pc[p] = "append"
  /\ sendBuf' = Append(base, rec[p])
  /\ UNCHANGED wire

\* write: to the socket or to the buffer.
Send(p, ok) ==
  /\ ToSocket(p, ok) \/ (ok /\ ToBuffer(p))
  /\ UNCHANGED <<buffering, flight, base, overlap>>

Put(p, ok) ==
  /\ Send(p, ok)
  /\ UNCHANGED <<mode, status, handshakes, retryCount, hand, input, arrived, useless, tcp, calls>>

PutKind(p, ok, kind) == rec[p].kind = kind /\ Put(p, ok)

\* Write gives out whatever error its record had, none included.
PutData(p, ok) ==
  /\ PutKind(p, ok, "data")
  /\ outErr' = ~ok
  /\ outLock' = NoProc
  /\ Return(p)
  /\ UNCHANGED <<hsLock, inLock, hsErr, inErr, key, seq, closeNotifySent, rec>>

\* closeNotify, for Close and CloseWrite.
PutNotify(p, ok) ==
  /\ PutKind(p, ok, "notify")
  /\ closeNotifySent' = TRUE
  /\ outLock' = NoProc
  /\ \/ call[p] = "close" /\ Goto(p, "shut") /\ UNCHANGED <<call, activeCall>>
     \/ call[p] = "closeWrite" /\ Return(p)
  /\ UNCHANGED <<hsLock, inLock, hsErr, inErr, outErr, key, seq, rec>>

\* Any other alert fails out for good, and Read returns; after some of them it
\* has failed in as well.
PutAlert(p, ok) ==
  /\ \/ PutKind(p, ok, "fatal") /\ outLock' = NoProc /\ inErr' = TRUE
     \/ PutKind(p, ok, "soft") /\ outLock' = NoProc /\ UNCHANGED inErr
     \/ PutKind(p, ok, "bare") /\ UNCHANGED outLock /\ inErr' = TRUE
  /\ outErr' = TRUE
  /\ inLock' = NoProc
  /\ Return(p)
  /\ UNCHANGED <<hsLock, hsErr, key, seq, closeNotifySent, rec>>

\* An alert in a handshake is its end.
PutHandshakeAlert(p, ok) ==
  /\ rec[p].kind = "hsAlert"
  /\ Send(p, ok)
  /\ outErr' = TRUE
  /\ outLock' = NoProc
  /\ GiveUp(p)
  /\ UNCHANGED <<incoming, key, seq, closeNotifySent, tcp, calls>>

\* The next traffic secret or cipher state: sequence numbers start again.
NextKey ==
  /\ key' = key + 1
  /\ seq' = 0

\* Faulty variant of PutUpdate: the key stays.
PutUpdateKept(p, ok) ==
  /\ PutKind(p, ok, "update")
  /\ outLock' = NoProc
  /\ outErr' = (outErr \/ ~ok)
  /\ Goto(p, "post")
  /\ UNCHANGED <<hsLock, inLock, hsErr, inErr, key, seq, closeNotifySent, call, activeCall, rec>>

\* The answer to a KeyUpdate: the key changes behind it; an error is left to the
\* next Write.
PutUpdate(p, ok) ==
  /\ PutKind(p, ok, "update")
  /\ outLock' = NoProc
  /\ \/ ok /\ NextKey /\ UNCHANGED outErr
     \/ ~ok /\ outErr' = TRUE /\ UNCHANGED <<key, seq>>
  /\ Goto(p, "post")
  /\ UNCHANGED <<hsLock, inLock, hsErr, inErr, closeNotifySent, call, activeCall, rec>>

\* The records of a handshake: a client sends its hello at once, a server
\* collects its own and, before TLS 1.3, may flush them before the next; behind
\* the last one the keys change and the flight goes out.
PutHandshake(p, ok) ==
  /\ rec[p].kind \in Handshakes
  /\ Send(p, ok)
  /\ outLock' = NoProc
  /\ \/ /\ ok /\ rec[p].kind = "hello"
        /\ \/ GoWrite(p, "finished")
           \/ ~mode.client /\ ~mode.v13 /\ Goto(p, "flush") /\ UNCHANGED rec
        /\ UNCHANGED <<handshake, hsLock, inLock, call, activeCall, key, seq>>
     \/ /\ ok /\ rec[p].kind = "finished"
        /\ NextKey
        /\ Goto(p, "flush")
        /\ UNCHANGED <<handshake, hsLock, inLock, call, activeCall, rec>>
     \/ /\ ~ok
        /\ GiveUp(p)
        /\ UNCHANGED <<key, seq>>
  /\ UNCHANGED <<incoming, outErr, closeNotifySent, tcp, calls>>

PutAny(p, ok) ==
  \/ PutData(p, ok) \/ PutNotify(p, ok) \/ PutAlert(p, ok)
  \/ PutHandshakeAlert(p, ok) \/ PutUpdate(p, ok) \/ PutHandshake(p, ok)

-----------------------------------------------------------------------------
(* flush: the goroutine that runs the handshake, without out.               *)

\* Past flush: the next records, the end of the handshake, or its error.
Flushed(p) ==
  CASE rec[p].kind = "hello" ->
         GoWrite(p, "finished") /\ UNCHANGED <<handshake, hsLock, inLock, call, activeCall>>
    [] rec[p].kind = "finished" ->
         Goto(p, "settle") /\ UNCHANGED <<handshake, hsLock, inLock, call, activeCall, rec>>
    [] OTHER ->
         HandshakeFailed(p) /\ UNCHANGED rec

FlushNothing(p) ==
  /\ pc[p] = "flush" /\ sendBuf = << >>
  /\ Flushed(p)
  /\ UNCHANGED <<outLock, incoming, outgoing, tcp, calls>>

FlushStarts(p) ==
  /\ pc[p] = "flush" /\ sendBuf # << >>
  /\ flight' = sendBuf
  /\ overlap' = (overlap \/ \E q \in Proc : pc[q] = "append")
  /\ Goto(p, "send")
  /\ UNCHANGED <<locks, handshake, incoming, outErr, key, seq, closeNotifySent, wire,
                 buffering, sendBuf, base, closing, callers, rec>>

\* The socket takes the records one after the other, or fails.
FlushSends(p, ok) ==
  /\ pc[p] = "send" /\ flight # << >>
  /\ \/ /\ ok /\ tcp = "open"
        /\ wire' = PeerReads(wire, Head(flight))
        /\ flight' = Tail(flight)
        /\ UNCHANGED rec
     \/ /\ ~ok
        /\ wire' = PeerCutOff(wire)
        /\ flight' = << >>
        /\ rec' = [rec EXCEPT ![p] = NoRecord]
  /\ UNCHANGED <<locks, handshake, incoming, outErr, key, seq, closeNotifySent,
                 buffering, sendBuf, base, overlap, closing, callers, pc>>

\* c.sendBuf = nil
FlushClears(p) ==
  /\ pc[p] = "send" /\ flight = << >>
  /\ sendBuf' = << >>
  /\ Goto(p, "unbuffer")
  /\ UNCHANGED <<locks, handshake, incoming, outErr, key, seq, closeNotifySent, wire,
                 buffering, flight, base, overlap, closing, callers, rec>>

\* Faulty variant of FlushEnds: records are still buffered.
FlushEndsKept(p) ==
  /\ pc[p] = "unbuffer"
  /\ Flushed(p)
  /\ UNCHANGED <<outLock, incoming, outErr, key, seq, closeNotifySent, wire,
                 buffering, sendBuf, flight, base, overlap, tcp, calls>>

\* c.buffering = false
FlushEnds(p) ==
  /\ pc[p] = "unbuffer"
  /\ buffering' = FALSE
  /\ Flushed(p)
  /\ UNCHANGED <<outLock, incoming, outErr, key, seq, closeNotifySent, wire,
                 sendBuf, flight, base, overlap, tcp, calls>>

-----------------------------------------------------------------------------
(* Reading: readRecordOrCCS after the handshake, with in held.             *)

LockRead(p) ==
  /\ pc[p] = "inLock" /\ Free(inLock)
  /\ inLock' = p
  /\ Goto(p, IF input > 0 THEN "take" ELSE "record")
  /\ UNCHANGED <<hsLock, outLock, handshake, incoming, outgoing, closing, callers, rec>>

\* readHandshake wants the rest of a message while data came in between.
Interrupted(p) == pc[p] = "more" /\ input > 0

\* Read returns an error: an earlier one of in, an internal one, or the socket's.
ReadFails(p) ==
  /\ pc[p] \in Reading
  /\ inErr' \in IF inErr \/ Interrupted(p) THEN {TRUE} ELSE {TRUE, FALSE}
  /\ inLock' = NoProc
  /\ Return(p)
  /\ UNCHANGED <<hsLock, outLock, handshake, retryCount, hand, input, arrived, useless,
                 outgoing, tcp, rec, calls>>

\* What Read may find when it looks ahead for an alert: the type of an encrypted
\* alert shows before TLS 1.3 only.
Ahead ==
  Arrivals \cap IF mode.v13 THEN {"bad"} ELSE {"warning", "closeNotify", "error", "bad"}

\* The next record.
Receives(p, kind) ==
  /\ pc[p] \in Reading
  /\ kind \in Arrivals
  /\ pc[p] = "ahead" => kind \in Ahead
  /\ tcp = "open" /\ ~inErr /\ ~Interrupted(p)
  /\ arrived < MaxRecords
  /\ arrived' = arrived + 1
  /\ UNCHANGED <<handshake, outgoing, tcp, calls>>

\* In TLS 1.3 nothing comes between the parts of a handshake message.
Interleaved(kind) == mode.v13 /\ kind \notin Messages /\ hand # << >>

\* Back to the caller of readRecord: the loop of Read, readHandshake, or Read
\* with its data already taken.
RecordRead(p, messages, data) ==
  \/ /\ pc[p] \in {"record", "more"}
     /\ ReadOn(p, messages, data)
     /\ UNCHANGED <<inLock, call, activeCall>>
  \/ /\ pc[p] \in {"ahead", "aheadMore"}
     /\ inLock' = NoProc
     /\ Return(p)

ReceiveData(p) ==
  /\ Receives(p, "data") /\ ~Interleaved("data")
  /\ retryCount' = 0 /\ useless' = 0
  /\ input' = 2
  /\ RecordRead(p, hand, 2)
  /\ UNCHANGED <<hsLock, outLock, inErr, hand, rec>>

\* Handshake data: a whole message, the first half of one, or the other half.
ReceiveMessage(p) ==
  \E kind \in Messages :
    /\ Receives(p, kind)
    /\ retryCount' = 0 /\ useless' = useless + 1
    /\ hand' = CASE hand # << >> /\ hand[Len(hand)] = "half" -> [hand EXCEPT ![Len(hand)] = kind]
                 [] OTHER -> Append(hand, kind)
    /\ RecordRead(p, hand', input)
    /\ UNCHANGED <<hsLock, outLock, inErr, input, rec>>

\* Ignored records: empty ones, warnings before TLS 1.3 and, in TLS 1.3,
\* ChangeCipherSpec.
Ignored == {"empty"} \cup IF mode.v13 THEN {"ccs"} ELSE {"warning"}

\* retryReadRecord: read on, unless there were too many.
ReceiveIgnored(p) ==
  \E kind \in Ignored :
    /\ Receives(p, kind) /\ ~Interleaved(kind)
    /\ retryCount' = retryCount + 1 /\ useless' = useless + 1
    /\ \/ retryCount < MaxUseless
          /\ Goto(p, IF pc[p] = "ahead" THEN "aheadMore" ELSE pc[p])
          /\ UNCHANGED rec
       \/ retryCount >= MaxUseless /\ GoWrite(p, "fatal")
    /\ UNCHANGED <<locks, inErr, hand, input, activeCall, call>>

\* The peer ends its side, with its closing alert or an error alert.
ReceiveEnd(p) ==
  \E kind \in {"closeNotify", "error"} \cup IF mode.v13 THEN {"warning"} ELSE {} :
    /\ Receives(p, kind) /\ ~Interleaved(kind)
    /\ inErr' = TRUE
    /\ inLock' = NoProc
    /\ Return(p)
    /\ UNCHANGED <<hsLock, outLock, retryCount, hand, input, useless, rec>>

\* Records nothing can be made of: they fail to decrypt or are of an unknown
\* type, a ChangeCipherSpec before TLS 1.3, or anything within a message of 1.3.
ReceiveBad(p) ==
  \E kind \in Arrivals :
    /\ Receives(p, kind)
    /\ \/ kind = "bad"
       \/ kind = "ccs" /\ ~mode.v13
       \/ Interleaved(kind)
    /\ retryCount' = IF kind = "data" THEN 0 ELSE retryCount
    /\ GoWrite(p, "fatal")
    /\ UNCHANGED <<locks, inErr, hand, input, useless, activeCall, call>>

\* Read takes what it has room for, and looks at the next record at once if
\* that is an alert which has already arrived.
Take(p) ==
  /\ pc[p] = "take"
  /\ input' \in 0 .. input - 1
  /\ \/ /\ inLock' = NoProc
        /\ Return(p)
     \/ /\ input' = 0
        /\ tcp = "open" /\ arrived < MaxRecords /\ Ahead # {}
        /\ Goto(p, "ahead")
        /\ UNCHANGED <<inLock, call, activeCall>>
  /\ UNCHANGED <<hsLock, outLock, handshake, inErr, retryCount, hand, arrived, useless,
                 outgoing, tcp, rec, calls>>

-----------------------------------------------------------------------------
(* handlePostHandshakeMessage, in Read's loop while c.hand holds anything.  *)

HasMessage(p, kinds) == pc[p] = "post" /\ hand # << >> /\ Head(hand) \in kinds

\* A message has been dealt with.
Handled(p) ==
  /\ hand' = Tail(hand)
  /\ ReadOn(p, Tail(hand), input)

NoMessage(p) ==
  /\ pc[p] = "post" /\ hand = << >>
  /\ ReadOn(p, hand, input)
  /\ UNCHANGED <<locks, handshake, incoming, outgoing, closing, callers, rec>>

\* readHandshake needs another record.
WantMore(p) ==
  /\ HasMessage(p, {"half"})
  /\ Goto(p, "more")
  /\ UNCHANGED <<locks, handshake, incoming, outgoing, closing, callers, rec>>

Oversized(p) ==
  /\ HasMessage(p, {"huge"})
  /\ GoWrite(p, "bare")
  /\ UNCHANGED <<locks, handshake, incoming, outgoing, closing, callers>>

\* readHandshake cannot parse it.
Malformed(p) ==
  /\ HasMessage(p, {"malformed"})
  /\ hand' = Tail(hand)
  /\ GoWrite(p, "fatal")
  /\ UNCHANGED <<locks, handshake, inErr, retryCount, input, arrived, useless, outgoing, closing,
                 callers>>

\* In TLS 1.3 these messages count as records that bring nothing.
TooManyMessages == mode.v13 /\ retryCount >= MaxUseless

Counted == retryCount' = IF mode.v13 THEN retryCount + 1 ELSE retryCount

MayRenegotiate ==
  /\ mode.client
  /\ mode.reneg = "freely" \/ (mode.reneg = "once" /\ handshakes <= 1)

Welcome(kind) ==
  \/ mode.v13 /\ kind \in {"update", "updateReq"}
  \/ mode.v13 /\ kind = "ticket" /\ mode.client
  \/ ~mode.v13 /\ kind = "helloReq" /\ MayRenegotiate

\* Handlers that end in an alert: the message is one too many or unexpected.
Reject(p) ==
  /\ HasMessage(p, Messages \ {"half", "malformed", "huge"})
  /\ \/ TooManyMessages /\ GoWrite(p, "fatal")
     \/ ~TooManyMessages /\ ~Welcome(Head(hand)) /\ GoWrite(p, "soft")
  /\ hand' = Tail(hand)
  /\ Counted
  /\ UNCHANGED <<locks, handshake, inErr, input, arrived, useless, outgoing, closing, callers>>

\* handleNewSessionTicket, and handleKeyUpdate without an answer.
Absorb(p) ==
  /\ HasMessage(p, {"ticket", "update"})
  /\ ~TooManyMessages /\ Welcome(Head(hand))
  /\ Counted
  /\ Handled(p)
  /\ UNCHANGED <<locks, handshake, inErr, input, arrived, useless, outgoing, closing, callers,
                 rec>>

AnswerUpdate(p) ==
  /\ HasMessage(p, {"updateReq"})
  /\ ~TooManyMessages /\ Welcome("updateReq")
  /\ Counted
  /\ hand' = Tail(hand)
  /\ GoWrite(p, "update")
  /\ UNCHANGED <<locks, handshake, inErr, input, arrived, useless, outgoing, closing, callers>>

\* Faulty variant of AcceptRenegotiation: the status is reset too early.
AcceptRenegotiationEarly(p) ==
  /\ HasMessage(p, {"helloReq"})
  /\ Welcome("helloReq")
  /\ hand' = Tail(hand)
  /\ Goto(p, "renego")
  /\ status' = 0
  /\ UNCHANGED <<locks, mode, hsErr, handshakes, inErr, retryCount, input, arrived, useless,
                 outgoing, closing, callers, rec>>

\* handleRenegotiation: from here on with in held and handshakeMutex wanted.
AcceptRenegotiation(p) ==
  /\ HasMessage(p, {"helloReq"})
  /\ Welcome("helloReq")
  /\ hand' = Tail(hand)
  /\ Goto(p, "renego")
  /\ UNCHANGED <<locks, handshake, inErr, retryCount, input, arrived, useless, outgoing, closing,
                 callers, rec>>

Renegotiate(p) ==
  /\ pc[p] = "renego" /\ Free(hsLock)
  /\ hsLock' = p
  /\ status' = 0
  /\ GoWrite(p, "hello")
  /\ UNCHANGED <<mode, hsErr, handshakes, inLock, outLock, incoming, outgoing, closing, callers>>

-----------------------------------------------------------------------------
(* The specification.                                                      *)

\* Whatever needs a mutex first.
LockSteps(p) ==
  \/ HandshakeDone(p) \/ HandshakeStarts(p) \/ HandshakeTakesIn(p)
  \/ LockRead(p) \/ Renegotiate(p) \/ Seal(p) \/ SealRefused(p)

\* What a goroutine does on its own.
LocalSteps(p) ==
  \/ CloseChecks(p) \/ Shut(p) \/ SealBare(p) \/ Take(p)
  \/ NoMessage(p) \/ WantMore(p) \/ Oversized(p) \/ Malformed(p) \/ Reject(p)
  \/ Absorb(p) \/ AnswerUpdate(p) \/ AcceptRenegotiation(p)
  \/ LoadBuffer(p) \/ FlushNothing(p) \/ FlushStarts(p) \/ FlushClears(p) \/ FlushEnds(p)

\* What depends on the peer or the network.
Receive(p) ==
  \/ ReceiveData(p) \/ ReceiveMessage(p) \/ ReceiveIgnored(p) \/ ReceiveEnd(p) \/ ReceiveBad(p)

NetworkSteps(p) ==
  \/ Receive(p) \/ ReadFails(p)
  \/ HandshakeFails(p) \/ HandshakeAlerts(p) \/ HandshakeBuffers(p) \/ HandshakeSucceeds(p)
  \/ \E ok \in BOOLEAN : PutAny(p, ok) \/ FlushSends(p, ok)

Calls(p) == BeginRead(p) \/ BeginWrite(p) \/ BeginClose(p) \/ BeginCloseWrite(p)

\* Every call has returned and none is left to make.
Quiescent ==
  /\ \A p \in Proc : pc[p] = "idle"
  /\ UNCHANGED vars

Next ==
  \/ \E p \in Proc : Calls(p) \/ LockSteps(p) \/ LocalSteps(p) \/ NetworkSteps(p)
  \/ Quiescent

Spec == Init /\ [][Next]_vars

\* The scheduler runs every goroutine; a mutex is not withheld for ever; a
\* closed socket fails whoever uses it; a record that has arrived is there.
\* Nothing is assumed of the peer.
Fairness ==
  \A p \in Proc :
    /\ WF_vars(LocalSteps(p))
    /\ SF_vars(LockSteps(p))
    /\ WF_vars(pc[p] = "append" /\ PutAny(p, TRUE))
    /\ WF_vars((tcp = "closed" \/ inErr) /\ ReadFails(p))
    /\ WF_vars(tcp = "closed" /\ (HandshakeFails(p) \/ PutAny(p, FALSE) \/ FlushSends(p, FALSE)))
    /\ WF_vars(pc[p] = "ahead" /\ Receive(p))

FairSpec == Spec /\ Fairness

-----------------------------------------------------------------------------
(* Properties.                                                             *)

HoldsIn(p) ==
  \/ pc[p] \in Reading \cup Flushing \cup {"post", "renego", "take", "settle"}
  \/ pc[p] \in Writing /\ rec[p].kind \in Handshakes \cup Alerts \cup {"update"}

HoldsHandshake(p) ==
  \/ pc[p] \in Flushing \cup {"hsIn", "settle"}
  \/ pc[p] \in Writing /\ rec[p].kind \in Handshakes \cup {"hsAlert"}

HoldsOut(p) == pc[p] \in {"put", "append"} /\ rec[p].kind # "bare"

\* Code behind a Lock runs with that mutex held and nobody else holds it:
\* handshakeMutex through a handshake, in through reading, out through the
\* writing of a record (conn.go, the Lock and defer Unlock pairs, over calls
\* that go from one mutex to the next).
LockDiscipline ==
  \A p \in Proc :
    /\ HoldsHandshake(p) <=> hsLock = p
    /\ HoldsIn(p) <=> inLock = p
    /\ HoldsOut(p) <=> outLock = p

\* Read takes handshakeMutex with in held (handleRenegotiation), Handshake takes
\* in with handshakeMutex held: no two goroutines ever wait for each other.
NoInversion ==
  \A p, q \in Proc : ~(pc[p] = "hsIn" /\ inLock = q /\ pc[q] = "renego")

\* activeCall counts the Writes in flight and remembers Close: Close takes its
\* short way exactly when a Write is in flight (Write's and Close's interlock).
ActiveCallCounts ==
  /\ Writers = Cardinality({p \in Proc : call[p] = "write"})
  /\ (\E p \in Proc : call[p] = "close") \/ tcp = "closed" => Closed

\* Records reach the socket in the order of their sequence numbers, each under
\* the key the peer expects (writeRecordLocked, encrypt and the key changes),
\* unless flush and the write of another goroutine meet in sendBuf: that takes a
\* closing alert and a client that renegotiates.
RecordsInOrder ==
  /\ wire.state = "garbled" => overlap
  /\ overlap => handshakes > 0 /\ mode.client /\ ~mode.v13 /\ mode.reneg # "never"

\* "CloseWrite shuts down the writing side of the connection": once the closing
\* alert counts as sent the peer learns of the end, a renegotiation included, in
\* whose buffer the alert may wait.  It is lost where flush clears what another
\* goroutine appends, and stays there when a renegotiation fails, which does not
\* flush (write, flush, closeNotify, handleRenegotiation).
ShutsDown == closeNotifySent /\ Free(hsLock) /\ ~hsErr => wire.ended \/ overlap

\* A record is only read once every KeyUpdate before it has been applied
\* (Read's loop over handlePostHandshakeMessage).
KeysInStep ==
  \A p \in Proc :
    pc[p] \in Reading => \A i \in DOMAIN hand : hand[i] \notin {"update", "updateReq"} \/ ~mode.v13

\* What goes out is a TLS stream: no application data within a handshake, after
\* the closing alert, after a fatal alert or behind a record that was cut off.
Stream == INSTANCE TlsStream WITH phase <- wire.phase, ended <- wire.ended, sent <- wire.sent
ImplementsStream == Stream!StreamSpec

\* A Close that finds a Write in flight ends every call on the connection, the
\* Write included, whatever the peer does (the comment in Close).  A Write that
\* is in flight together with a Close came first.
CloseFreesCalls ==
  \A r \in Proc :
    (\E p, q \in Proc : call[p] = "close" /\ call[q] = "write") ~> pc[r] = "idle"

\* Read has data for its caller: it returns, whatever the peer does (the look
\* ahead at the end of Read is for a closing alert that has already arrived).
DataIsReturned ==
  \A p \in Proc : pc[p] = "ahead" ~> pc[p] = "idle"

=============================================================================
