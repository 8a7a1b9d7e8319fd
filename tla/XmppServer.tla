----------------------------- MODULE XmppServer -----------------------------
(***************************************************************************)
(* The connection handlers of the chat server and the state they share:    *)
(* the goroutine XmppServer.Run starts for each connection                 *)
(* (xmpp/client.go), the registry of clients and rooms under one mutex     *)
(* (xmpp/server.go) and the HTTP API's workers, which kick users and send  *)
(* messages through the same registry (api/api.go).                        *)
(*                                                                         *)
(* A step is what one goroutine does between two points where another can  *)
(* be observed: taking the mutex, one write to one peer, one read from a   *)
(* decoder, one unlocked load or store.  Peers are the environment: what   *)
(* they send and when they stop reading is chosen by the actions.          *)
(***************************************************************************)
EXTENDS ConnList

CONSTANTS
  Conn,         \* connections the listener accepts, one handler each
  Admin,        \* API workers
  NoProc,       \* nobody holds the mutex
  Bare,         \* bare addresses, of users and of rooms: user@domain
  Jid,          \* full addresses a user may log in with: user@domain/resource
  BareOf,       \* the bare address of each full one
  Fold,         \* what strings.EqualFold compares: the case-folded address
  NoJid,        \* XmppClient.JID before the first login
  Torn,         \* a JID read while its owner overwrites it
  NoArg,        \* no stanza under way
  RoomNames,    \* the addresses peers join and leave
  Targets,      \* the addresses of messages and of the API's kicks
  Traffic,      \* the kinds of stanza the peers of this instance send
  MaxStanzas,   \* bound: stanzas a peer sends
  MaxRequests,  \* bound: requests an API worker serves
  MaxBuffered   \* bound: complete stanzas waiting in a decoder's buffer

ASSUME ConstantsAssumption ==
  /\ NoProc \notin Conn \cup Admin
  /\ Conn \cap Admin = {}
  /\ BareOf \in [Jid -> Bare]
  /\ DOMAIN Fold = Bare
  /\ Bare \cap Jid = {}
  /\ NoJid \notin Jid /\ Torn \notin Jid
  /\ RoomNames \subseteq Bare
  /\ Targets \subseteq Bare \cup Jid
  /\ MaxStanzas \in Nat /\ MaxRequests \in Nat /\ MaxBuffered \in Nat

VARIABLES
  lock,          \* the XmppServer's mutex: its holder
  clients,       \* XmppServer.Clients
  rooms,         \* XmppServer.Rooms, each with its JID and Members
  open,          \* the TCP socket of a connection is open at this end
  tls,           \* state of XmppClient.tlsConn
  jid,           \* XmppClient.JID
  authed,        \* XmppClient.authenticated
  streamClosed,  \* XmppClient.streamClosed
  buffered,      \* complete stanzas already in a connection's XML decoder
  used,          \* stanzas read or requests served so far
  pc,            \* where each goroutine is
  arg,           \* the address the current stanza or request is about
  todo,          \* the rest of the slice a loop under the mutex ranges over
  idx            \* the room a loop under the mutex is at

vars == <<lock, clients, rooms, open, tls, jid, authed, streamClosed,
          buffered, used, pc, arg, todo, idx>>

registry == <<clients, rooms>>
session  == <<tls, jid, authed, streamClosed>>
input    == <<buffered, used>>
loop     == <<todo, idx>>

Proc == Conn \cup Admin
Addr == Bare \cup Jid

\* The goroutines of a login: the loop over Clients and, for the client it has
\* reached, CloseError and Close.
Kicking  == {"scan", "kickErr", "kickMark", "kickEnd", "kickWait"}
Casting  == {"joinCast", "leaveCast", "roomCast", "userCast", "drop"}
Critical == Kicking \cup Casting
Waiting  == {"login", "join", "leave", "avail", "group", "direct", "exit"}
Places   == {"new", "hello", "read", "tls", "store", "welcome", "ended",
             "sendEnd", "close", "done", "ready"} \cup Waiting \cup Critical

Room == [jid : Bare, members : Seq(Conn)]

TypeOK ==
  /\ lock \in Proc \cup {NoProc}
  /\ clients \in Seq(Conn)
  /\ rooms \in Seq(Room)
  /\ open \in [Conn -> BOOLEAN]
  /\ tls \in [Conn -> {"plain", "handshake", "secure", "broken"}]
  /\ jid \in [Conn -> Jid \cup {NoJid}]
  /\ authed \in [Conn -> BOOLEAN]
  /\ streamClosed \in [Conn -> BOOLEAN]
  /\ buffered \in [Conn -> 0 .. MaxBuffered]
  /\ used \in [Proc -> Nat]
  /\ pc \in [Proc -> Places]
  /\ arg \in [Proc -> Addr \cup {NoArg}]
  /\ todo \in [Proc -> Seq(Conn)]
  /\ idx \in [Proc -> Nat]

Init ==
  /\ lock = NoProc
  /\ clients = << >>
  /\ rooms = << >>
  /\ open = [c \in Conn |-> FALSE]
  /\ tls = [c \in Conn |-> "plain"]
  /\ jid = [c \in Conn |-> NoJid]
  /\ authed = [c \in Conn |-> FALSE]
  /\ streamClosed = [c \in Conn |-> FALSE]
  /\ buffered = [c \in Conn |-> 0]
  /\ used = [p \in Proc |-> 0]
  /\ pc = [p \in Proc |-> IF p \in Conn THEN "new" ELSE "ready"]
  /\ arg = [p \in Proc |-> NoArg]
  /\ todo = [p \in Proc |-> << >>]
  /\ idx = [p \in Proc |-> 0]

-----------------------------------------------------------------------------
(* Helpers.                                                                *)

SameFold(a, b) == Fold[a] = Fold[b]

\* Faulty variant of FoldRooms: case is not folded.
FoldRoomsExact(a) == {i \in DOMAIN rooms : rooms[i].jid = a}

\* Rooms are looked up with EqualFold to join or to send, exactly to leave.
FoldRooms(a)  == {i \in DOMAIN rooms : SameFold(rooms[i].jid, a)}
ExactRooms(a) == {i \in DOMAIN rooms : rooms[i].jid = a}
First(S) == CHOOSE i \in S : \A j \in S : i <= j

\* RemoveMember: room i without c.
RemoveMember(i, c) == [rooms EXCEPT ![i].members = SwapRemove(@, c)]

MembersAt(i) == IF i \in DOMAIN rooms THEN rooms[i].members ELSE << >>

Goto(p, place) == pc' = [pc EXCEPT ![p] = place]

\* The place a goroutine returns to when its stanza or request is done.
Home(p) == IF p \in Conn THEN "read" ELSE "ready"

Acquire(p) == lock = NoProc /\ lock' = p
Release == lock' = NoProc

Iterate(p, s, i) == todo' = [todo EXCEPT ![p] = s] /\ idx' = [idx EXCEPT ![p] = i]

\* XmppClient.write to d.  It fails when the socket is closed, when TLS is
\* broken or when the peer does not take the bytes within a second, and then
\* closes the connection.  While d's TLS handshake is under way tls.Conn.Write
\* waits for it, with no bound.
WriteTo(d) ==
  /\ tls[d] # "handshake"
  /\ \E taken \in BOOLEAN :
       /\ tls[d] = "broken" => ~taken
       /\ open' = [open EXCEPT ![d] = @ /\ taken]

\* What a reader holding the mutex may see in d.JID: the owner stores it
\* without the mutex, and a string is two words.
JidSeen(d) == IF pc[d] = "store" THEN {jid[d], arg[d], Torn} ELSE {jid[d]}

\* Faulty variant of KickMatch: the whole JIDs are compared.
KickMatchFull(p, j) ==
  /\ j \in Jid
  /\ IF p \in Conn THEN j = jid[p] ELSE BareOf[j] = arg[p]

\* Whether p's loop over Clients kicks a client with this JID: BareJidMatch
\* for a login, an exact comparison of the bare JID for the API.
KickMatch(p, j) ==
  /\ j \in Jid
  /\ IF p \in Conn THEN SameFold(BareOf[j], BareOf[jid[p]]) ELSE BareOf[j] = arg[p]

\* jidMatches: a full address names one resource, a bare one names any.
JidMatches(to, j) == j \in Jid /\ to \in {j, BareOf[j]}

-----------------------------------------------------------------------------
(* A connection's handler: the stream and what it reads.                   *)

\* XmppServer.Run: accept a connection and start its handler.
Accept(c) ==
  /\ pc[c] = "new"
  /\ Goto(c, "hello")
  /\ open' = [open EXCEPT ![c] = TRUE]
  /\ UNCHANGED <<lock, registry, session, input, arg, loop>>

\* xmlstream.NewStream returns the peer's root element and handleRootElement
\* answers it; further stanzas may have come in the same segment.
Hello(c) ==
  /\ pc[c] = "hello"
  /\ open[c]
  /\ WriteTo(c)
  /\ \E n \in 0 .. MaxBuffered : buffered' = [buffered EXCEPT ![c] = n]
  /\ Goto(c, "read")
  /\ UNCHANGED <<lock, registry, session, used, arg, loop>>

\* NextChild has a stanza of this kind to return: one the decoder holds already,
\* even after the socket was closed, or the first of a new segment.
Arrives(c, kind) ==
  /\ pc[c] = "read"
  /\ kind \in Traffic
  /\ used[c] < MaxStanzas
  /\ used' = [used EXCEPT ![c] = @ + 1]
  /\ buffered[c] > 0 \/ open[c]

Take(c, kind) ==
  /\ Arrives(c, kind)
  /\ \E n \in 0 .. MaxBuffered :
       /\ buffered[c] > 0 => n = buffered[c] - 1
       /\ buffered' = [buffered EXCEPT ![c] = n]

\* Reading fails: the socket is closed, the peer is gone or sent no XML.
ReadError(c) ==
  /\ pc[c] \in {"hello", "read"}
  /\ Goto(c, "exit")
  /\ buffered' = [buffered EXCEPT ![c] = 0]
  /\ UNCHANGED <<lock, registry, open, session, used, arg, loop>>

\* A stanza that is answered at once or ignored: an iq of no effect (a login
\* with a wrong password among them), an unknown element, starttls after TLS,
\* presence and messages before login, a message the webhook keeps.
Chat(c) ==
  /\ Take(c, "iq")
  /\ WriteTo(c)
  /\ UNCHANGED <<lock, registry, session, pc, arg, loop>>

\* doTLS: the handshake starts over the same socket, and what the old decoder
\* had buffered is dropped with it.
StartTLS(c) ==
  /\ Arrives(c, "starttls")
  /\ tls[c] = "plain"
  /\ buffered' = [buffered EXCEPT ![c] = 0]
  /\ WriteTo(c)
  /\ tls' = [tls EXCEPT ![c] = "handshake"]
  /\ Goto(c, "tls")
  /\ UNCHANGED <<lock, registry, jid, authed, streamClosed, arg, loop>>

\* The handshake NewStream's first read runs; then the new root element.
TlsUp(c) ==
  /\ pc[c] = "tls"
  /\ open[c]
  /\ tls' = [tls EXCEPT ![c] = "secure"]
  /\ Goto(c, "hello")
  /\ UNCHANGED <<lock, registry, open, jid, authed, streamClosed, input, arg, loop>>

TlsFails(c) ==
  /\ pc[c] = "tls"
  /\ tls' = [tls EXCEPT ![c] = "broken"]
  /\ Goto(c, "exit")
  /\ UNCHANGED <<lock, registry, open, jid, authed, streamClosed, input, arg, loop>>

\* The peer ended its stream: NextChild returns NoMoreChildrenError.
ReadEnd(c) ==
  /\ Arrives(c, "end")
  /\ buffered' = [buffered EXCEPT ![c] = 0]
  /\ Goto(c, "ended")
  /\ UNCHANGED <<lock, registry, open, session, arg, loop>>

\* Faulty variant of AnswerEnd: the check of streamClosed is left out.
AnswerEndUnchecked(c) ==
  /\ pc[c] = "ended"
  /\ Goto(c, "sendEnd")
  /\ UNCHANGED <<lock, registry, open, session, input, arg, loop>>

\* The handler then looks at streamClosed: if a Close is under way it will hand
\* over on streamEnd, otherwise it ends the stream itself and leaves.
AnswerEnd(c) ==
  /\ pc[c] = "ended"
  /\ IF streamClosed[c]
     THEN Goto(c, "sendEnd") /\ UNCHANGED open
     ELSE Goto(c, "exit") /\ WriteTo(c)
  /\ UNCHANGED <<lock, registry, session, input, arg, loop>>

-----------------------------------------------------------------------------
(* Login, and the kicks a login or the API makes under the mutex.          *)

\* handleIq, jabber:iq:auth set with the user's password.
Auth(c, j) ==
  /\ Take(c, "auth")
  /\ Goto(c, "store")
  /\ arg' = [arg EXCEPT ![c] = j]
  /\ UNCHANGED <<lock, registry, open, session, loop>>

\* The store of c.JID, outside the mutex, is complete.
StoreJid(c) ==
  /\ pc[c] = "store"
  /\ jid' = [jid EXCEPT ![c] = arg[c]]
  /\ Goto(c, "login")
  /\ UNCHANGED <<lock, registry, open, tls, authed, streamClosed, input, arg, loop>>

\* kickUser: a request of the API.
AdminKick(a, b) ==
  /\ pc[a] = "ready"
  /\ "kick" \in Traffic
  /\ used[a] < MaxRequests
  /\ used' = [used EXCEPT ![a] = @ + 1]
  /\ Goto(a, "login")
  /\ arg' = [arg EXCEPT ![a] = b]
  /\ UNCHANGED <<lock, registry, open, session, buffered, loop>>

\* Take the mutex and range over Clients.
KickLock(p) ==
  /\ pc[p] = "login"
  /\ Acquire(p)
  /\ Iterate(p, clients, 0)
  /\ Goto(p, "scan")
  /\ UNCHANGED <<registry, open, session, input, arg>>

\* The loop's next client: kick it or pass over it.
ScanHit(p) ==
  /\ pc[p] = "scan"
  /\ todo[p] # << >>
  /\ \E j \in JidSeen(Head(todo[p])) : KickMatch(p, j)
  /\ Goto(p, "kickErr")
  /\ UNCHANGED <<lock, registry, open, session, input, arg, loop>>

ScanMiss(p) ==
  /\ pc[p] = "scan"
  /\ todo[p] # << >>
  /\ \E j \in JidSeen(Head(todo[p])) : ~KickMatch(p, j)
  /\ Iterate(p, Tail(todo[p]), idx[p])
  /\ UNCHANGED <<lock, registry, open, session, input, pc, arg>>

\* Faulty variant of ScanEnd: the mutex is not released.
ScanEndLocked(p) ==
  /\ pc[p] = "scan"
  /\ todo[p] = << >>
  /\ Goto(p, IF p \in Conn THEN "welcome" ELSE "ready")
  /\ arg' = [arg EXCEPT ![p] = NoArg]
  /\ UNCHANGED <<lock, registry, open, session, input, loop>>

ScanEnd(p) ==
  /\ pc[p] = "scan"
  /\ todo[p] = << >>
  /\ Release
  /\ Goto(p, IF p \in Conn THEN "welcome" ELSE "ready")
  /\ arg' = [arg EXCEPT ![p] = NoArg]
  /\ UNCHANGED <<registry, open, session, input, loop>>

\* CloseError: write the stream error, then Close: set streamClosed, write the
\* end of the stream, wait for the handler to hand over or for one second.
KickError(p) ==
  /\ pc[p] = "kickErr"
  /\ WriteTo(Head(todo[p]))
  /\ Goto(p, "kickMark")
  /\ UNCHANGED <<lock, registry, session, input, arg, loop>>

KickMark(p) ==
  /\ pc[p] = "kickMark"
  /\ streamClosed' = [streamClosed EXCEPT ![Head(todo[p])] = TRUE]
  /\ Goto(p, "kickEnd")
  /\ UNCHANGED <<lock, registry, open, tls, jid, authed, input, arg, loop>>

KickEnd(p) ==
  /\ pc[p] = "kickEnd"
  /\ WriteTo(Head(todo[p]))
  /\ Goto(p, "kickWait")
  /\ UNCHANGED <<lock, registry, session, input, arg, loop>>

\* The handler's send and the kicker's receive on streamEnd happen together.
StreamEnd(p) ==
  LET d == Head(todo[p]) IN
  /\ pc[p] = "kickWait"
  /\ pc[d] = "sendEnd"
  /\ pc' = [pc EXCEPT ![p] = "scan", ![d] = "exit"]
  /\ Iterate(p, Tail(todo[p]), idx[p])
  /\ UNCHANGED <<lock, registry, open, session, input, arg>>

\* Faulty variants of CloseTimeout: the socket is left open; there is none.
CloseTimeoutOpen(p) ==
  /\ pc[p] = "kickWait"
  /\ Goto(p, "scan")
  /\ Iterate(p, Tail(todo[p]), idx[p])
  /\ UNCHANGED <<lock, registry, open, session, input, arg>>

CloseNoTimeout(p) == FALSE

CloseTimeout(p) ==
  /\ pc[p] = "kickWait"
  /\ open' = [open EXCEPT ![Head(todo[p])] = FALSE]
  /\ Goto(p, "scan")
  /\ Iterate(p, Tail(todo[p]), idx[p])
  /\ UNCHANGED <<lock, registry, session, input, arg>>

\* After the loop the login is answered and takes effect.
Welcome(c) ==
  /\ pc[c] = "welcome"
  /\ WriteTo(c)
  /\ authed' = [authed EXCEPT ![c] = TRUE]
  /\ Goto(c, "read")
  /\ UNCHANGED <<lock, registry, tls, jid, streamClosed, input, arg, loop>>

-----------------------------------------------------------------------------
(* Presence: the roster of available clients and the chat rooms.           *)

\* handlePresence, once c has logged in: without an address the client becomes
\* available, whatever the type; with one it joins or leaves a room.
Presence(c) ==
  /\ authed[c]
  /\ \/ /\ Take(c, "avail")
        /\ Goto(c, "avail")
        /\ UNCHANGED arg
     \/ \E kind \in {"join", "leave"}, r \in RoomNames :
          /\ Take(c, kind)
          /\ Goto(c, kind)
          /\ arg' = [arg EXCEPT ![c] = r]
  /\ UNCHANGED <<lock, registry, open, session, loop>>

\* AddClient: the whole of it is one section of the mutex.
AddClient(c) ==
  /\ pc[c] = "avail"
  /\ lock = NoProc
  /\ clients' = AddOnce(clients, c)
  /\ Goto(c, "read")
  /\ UNCHANGED <<lock, rooms, open, session, input, arg, loop>>

\* Take the mutex and join the first room whose address matches, or make one;
\* then tell c of the members, and the other members of c.
Join(c) ==
  LET found == FoldRooms(arg[c])
      i == IF found = {} THEN Len(rooms) + 1 ELSE First(found)
      members == AddOnce(MembersAt(i), c)
  IN
  /\ pc[c] = "join"
  /\ Acquire(c)
  /\ rooms' = IF found = {}
              THEN Append(rooms, [jid |-> arg[c], members |-> members])
              ELSE [rooms EXCEPT ![i].members = members]
  /\ Iterate(c, <<c>> \o Others(members, c), i)
  /\ Goto(c, "joinCast")
  /\ UNCHANGED <<clients, open, session, input, arg>>

\* Faulty variant of Leave: the mutex is not taken.
LeaveUnlocked(c) ==
  /\ pc[c] = "leave"
  /\ ExactRooms(arg[c]) # {}
  /\ Goto(c, "leaveCast")
  /\ Iterate(c, MembersAt(First(ExactRooms(arg[c]))), First(ExactRooms(arg[c])))
  /\ UNCHANGED <<lock, registry, open, session, input, arg>>

\* Take the mutex and, if a room has exactly this address, tell its members
\* that c leaves, c a member or not.
Leave(c) ==
  /\ pc[c] = "leave"
  /\ lock = NoProc
  /\ IF ExactRooms(arg[c]) = {}
     THEN /\ Goto(c, "read")
          /\ arg' = [arg EXCEPT ![c] = NoArg]
          /\ UNCHANGED <<lock, loop>>
     ELSE LET i == First(ExactRooms(arg[c])) IN
          /\ lock' = c
          /\ Goto(c, "leaveCast")
          /\ Iterate(c, MembersAt(i), i)
          /\ UNCHANGED arg
  /\ UNCHANGED <<registry, open, session, input>>

-----------------------------------------------------------------------------
(* Messages.                                                               *)

\* handleMessage and the API's sendMessage call RouteMessage, which looks for
\* a room first when the message is for a group, then for a client.
Message(c, to) ==
  /\ authed[c]
  /\ \E kind \in {"group", "direct"} : Take(c, kind) /\ Goto(c, kind)
  /\ arg' = [arg EXCEPT ![c] = to]
  /\ UNCHANGED <<lock, registry, open, session, loop>>

AdminSend(a, to) ==
  /\ pc[a] = "ready"
  /\ used[a] < MaxRequests
  /\ used' = [used EXCEPT ![a] = @ + 1]
  /\ \E kind \in {"group", "direct"} \cap Traffic : Goto(a, kind)
  /\ arg' = [arg EXCEPT ![a] = to]
  /\ UNCHANGED <<lock, registry, open, session, buffered, loop>>

\* First section of the mutex: the members of the first room that matches.
RouteRoom(p) ==
  LET found == FoldRooms(arg[p]) IN
  /\ pc[p] = "group"
  /\ lock = NoProc
  /\ IF arg[p] \in Jid \/ found = {}
     THEN Goto(p, "direct") /\ UNCHANGED <<lock, loop>>
     ELSE /\ lock' = p
          /\ Goto(p, "roomCast")
          /\ Iterate(p, MembersAt(First(found)), First(found))
  /\ UNCHANGED <<registry, open, session, input, arg>>

\* Second section: the first client whose JID matches, if any.
RouteUser(p) ==
  /\ pc[p] = "direct"
  /\ Acquire(p)
  /\ Goto(p, "userCast")
  /\ \/ /\ \A d \in Listed(clients) : \E j \in JidSeen(d) : ~JidMatches(arg[p], j)
        /\ Iterate(p, << >>, 0)
     \/ \E i \in DOMAIN clients :
          /\ \E j \in JidSeen(clients[i]) : JidMatches(arg[p], j)
          /\ \A k \in 1 .. (i - 1) :
               \E j \in JidSeen(clients[k]) : ~JidMatches(arg[p], j)
          /\ Iterate(p, <<clients[i]>>, 0)
  /\ UNCHANGED <<registry, open, session, input, arg>>

-----------------------------------------------------------------------------
(* The loops that write to several clients under the mutex.                *)

\* One round: write to the next client.
Cast(p) ==
  /\ pc[p] \in Casting
  /\ todo[p] # << >>
  /\ WriteTo(Head(todo[p]))
  /\ Iterate(p, Tail(todo[p]), idx[p])
  /\ UNCHANGED <<lock, registry, session, input, pc, arg>>

\* The end of a loop, except in RemoveClient: a leaver's entry is removed from
\* the room, and the mutex is released.
CastEnd(p) ==
  /\ pc[p] \in Casting \ {"drop"}
  /\ todo[p] = << >>
  /\ Release
  /\ rooms' = IF pc[p] = "leaveCast"
              THEN RemoveMember(idx[p], p)
              ELSE rooms
  /\ Goto(p, IF pc[p] = "roomCast" THEN "direct" ELSE Home(p))
  /\ arg' = [arg EXCEPT ![p] = IF pc[p] = "roomCast" THEN @ ELSE NoArg]
  /\ idx' = [idx EXCEPT ![p] = 0]
  /\ UNCHANGED <<clients, open, session, input, todo>>

-----------------------------------------------------------------------------
(* The end of a handler: the deferred RemoveClient and closeConn.          *)

\* Faulty variant of RemoveClient: the loop starts at the second room.
RemoveClientSkips(c) ==
  /\ pc[c] = "exit"
  /\ Acquire(c)
  /\ Goto(c, "drop")
  /\ Iterate(c, MembersAt(2), 2)
  /\ UNCHANGED <<registry, open, session, input, arg>>

RemoveClient(c) ==
  /\ pc[c] = "exit"
  /\ Acquire(c)
  /\ Goto(c, "drop")
  /\ Iterate(c, MembersAt(1), 1)
  /\ UNCHANGED <<registry, open, session, input, arg>>

\* RemoveMember for the room the loop is at, its members told.
DropMember(c) ==
  /\ pc[c] = "drop"
  /\ todo[c] = << >>
  /\ idx[c] \in DOMAIN rooms
  /\ rooms' = RemoveMember(idx[c], c)
  /\ Iterate(c, MembersAt(idx[c] + 1), idx[c] + 1)
  /\ UNCHANGED <<lock, clients, open, session, input, pc, arg>>

\* Faulty variant of DropClient: Clients keeps its entry.
DropClientKeeps(c) ==
  /\ pc[c] = "drop"
  /\ todo[c] = << >>
  /\ idx[c] \notin DOMAIN rooms
  /\ Release
  /\ Goto(c, "close")
  /\ idx' = [idx EXCEPT ![c] = 0]
  /\ UNCHANGED <<registry, open, session, input, arg, todo>>

DropClient(c) ==
  /\ pc[c] = "drop"
  /\ todo[c] = << >>
  /\ idx[c] \notin DOMAIN rooms
  /\ clients' = SwapRemove(clients, c)
  /\ Release
  /\ Goto(c, "close")
  /\ idx' = [idx EXCEPT ![c] = 0]
  /\ UNCHANGED <<rooms, open, session, input, arg, todo>>

CloseConn(c) ==
  /\ pc[c] = "close"
  /\ open' = [open EXCEPT ![c] = FALSE]
  /\ Goto(c, "done")
  /\ UNCHANGED <<lock, registry, session, input, arg, loop>>

-----------------------------------------------------------------------------
(* The specification.                                                      *)

\* What peers and the API's callers decide, or the network.
Environment(c) ==
  \/ Accept(c)
  \/ Hello(c)
  \/ Chat(c)
  \/ StartTLS(c)
  \/ TlsUp(c)
  \/ TlsFails(c)
  \/ ReadEnd(c)
  \/ \E j \in Jid : Auth(c, j)
  \/ Presence(c)
  \/ \E to \in Targets : Message(c, to)
  \/ ReadError(c)

Request(a) ==
  \/ \E b \in Targets \cap Bare : AdminKick(a, b)
  \/ \E to \in Targets \cap Bare : AdminSend(a, to)

\* Steps that wait for nothing but the mutex.
Lock(p) ==
  \/ KickLock(p)
  \/ RouteRoom(p)
  \/ RouteUser(p)
  \/ p \in Conn /\ (AddClient(p) \/ Join(p) \/ Leave(p) \/ RemoveClient(p))

\* Steps of the program that wait for no peer, writes apart.
Run(p) ==
  \/ ScanHit(p) \/ ScanMiss(p) \/ ScanEnd(p)
  \/ KickError(p) \/ KickMark(p) \/ KickEnd(p)
  \/ StreamEnd(p) \/ CloseTimeout(p)
  \/ Cast(p) \/ CastEnd(p)
  \/ /\ p \in Conn
     /\ \/ AnswerEnd(p) \/ StoreJid(p) \/ Welcome(p)
        \/ DropMember(p) \/ DropClient(p) \/ CloseConn(p)

\* Every handler has returned or is parked on streamEnd for good, and the API
\* is idle: the only way for this instance to stop.
Quiescent ==
  /\ lock = NoProc
  /\ \A c \in Conn : pc[c] \in {"done", "sendEnd"}
  /\ \A a \in Admin : pc[a] = "ready"
  /\ UNCHANGED vars

Next ==
  \/ \E c \in Conn : Environment(c)
  \/ \E a \in Admin : Request(a)
  \/ \E p \in Proc : Lock(p) \/ Run(p)
  \/ Quiescent

Spec == Init /\ [][Next]_vars

\* A handler whose decoder holds a stanza, or whose socket is closed, goes on
\* by itself: it consumes the stanza or finds that there is nothing more.
Drain(c) ==
  /\ pc[c] \in {"hello", "read", "tls"}
  /\ buffered[c] > 0 \/ ~open[c]
  /\ Environment(c)

\* The scheduler runs every goroutine that can run; sync.Mutex hands itself to
\* a goroutine that has waited long enough.  Peers owe nothing.
Fairness ==
  /\ \A p \in Proc : WF_vars(Run(p)) /\ SF_vars(Lock(p))
  /\ \A c \in Conn : WF_vars(Drain(c))

FairSpec == Spec /\ Fairness

-----------------------------------------------------------------------------
(* Safety.                                                                 *)

\* A goroutine is inside a section of the mutex exactly while it holds it, so
\* two of them never are: every Lock in client.go, server.go and api.go has its
\* Unlock on every path through the loops and kicks in between.
LockDiscipline == \A p \in Proc : lock = p <=> pc[p] \in Critical

\* A pointer occurs once in Clients and once in a room, and no two rooms have
\* addresses EqualFold takes for the same: the scans of AddClient, AddMember
\* and the join, and the swap in the removals, keep the slices sets.
NoDuplicates ==
  /\ Distinct(clients)
  /\ \A i \in DOMAIN rooms : Distinct(rooms[i].members)
  /\ \A i, j \in DOMAIN rooms : SameFold(rooms[i].jid, rooms[j].jid) => i = j

InAnyRoom(c) == \E i \in DOMAIN rooms : c \in Listed(rooms[i].members)
Registered(c) == c \in Listed(clients) \/ InAnyRoom(c)

\* Once RemoveClient has released the mutex its connection is nowhere in the
\* registry: no list keeps a pointer to a handler that has returned.
NoGhost == \A c \in Conn : pc[c] \in {"close", "done"} => ~Registered(c)

\* No slice loses or replaces an element while a loop ranges over it: what is
\* left of the loop is still in the list it was taken from.
RangedOver(p) ==
  CASE pc[p] \in Kicking -> Listed(clients)
    [] pc[p] = "userCast" -> Listed(clients)
    [] OTHER -> Listed(MembersAt(idx[p]))
LoopsSeeTheList ==
  \A p \in Proc : pc[p] \in Critical => Listed(todo[p]) \subseteq RangedOver(p)

\* A kicked connection never stays open unattended: once Close has marked the
\* stream as closed, its kicker is still on it, or the socket is closed, or the
\* handler is leaving.  This is what the timeout in Close is for.
Attended(d) ==
  \E p \in Proc : pc[p] \in {"kickEnd", "kickWait"} /\ Head(todo[p]) = d
KickedIsClosed ==
  \A d \in Conn : streamClosed[d] =>
     Attended(d) \/ ~open[d] \/ pc[d] \in {"exit", "drop", "close", "done"}

\* A handler is parked on streamEnd only if somebody is there to receive or the
\* socket has been closed already: the check of streamClosed is not followed by
\* a send nobody was ever going to take.
ParkedWasKicked ==
  \A c \in Conn : pc[c] = "sendEnd" => streamClosed[c] /\ (Attended(c) \/ ~open[c])

\* When a login is over, every other session of the same user that was
\* registered has been kicked, except one whose own login is waiting for the
\* mutex and will run the same loop.
SameUser(a, b) ==
  jid[a] \in Jid /\ jid[b] \in Jid /\ SameFold(BareOf[jid[a]], BareOf[jid[b]])
ConflictResolved ==
  [][\A c \in Conn : pc[c] = "scan" /\ pc'[c] = "welcome" =>
       \A d \in Listed(clients) :
         SameUser(c, d) => streamClosed[d] \/ pc[d] \in {"store", "login"}]_vars

\* The registry as the abstract roster sees it.  The connection RemoveClient is
\* taking out is gone from the moment it has the mutex.
Seen(S) == {c \in S : pc[c] # "drop"}
R == INSTANCE Roster WITH
       Session <- Conn,
       RoomKey <- {Fold[b] : b \in Bare},
       known   <- {c \in Conn : authed[c]},
       online  <- Seen(Listed(clients)),
       inside  <- [k \in {Fold[b] : b \in Bare} |->
                     Seen(UNION {Listed(rooms[i].members) :
                                   i \in {n \in DOMAIN rooms : Fold[rooms[n].jid] = k}})],
       gone    <- {c \in Conn : pc[c] \in {"drop", "close", "done"}}

\* Every step of the handlers is a step of the roster or none: in particular a
\* leaving connection disappears from all rooms and from Clients at once.
ImplementsRoster == R!RosterSpec

\* client.go:179-180, "we don't support multiple resources": no two sessions
\* of one user are available together, unless one has been told to go.
OneSessionPerUser ==
  \A c, d \in Listed(clients) :
    c # d /\ SameUser(c, d) => streamClosed[c] \/ streamClosed[d]

-----------------------------------------------------------------------------
(* Liveness.                                                               *)

\* The holder of the mutex is about to write to a peer in its TLS handshake.
AwaitsHandshake(p) == todo[p] # << >> /\ tls[Head(todo[p])] = "handshake"

\* The mutex is given back, whatever the peers do, unless its holder waits in a
\* write for the TLS handshake of a peer: writes and Close have a time limit,
\* the handshake has none.
LockReleased ==
  \A p \in Proc : lock = p ~> (lock # p \/ AwaitsHandshake(p))

\* A session that was kicked or whose socket was closed leaves the registry,
\* unless its handler has parked on streamEnd or somebody holds the mutex
\* waiting for a TLS handshake.
DeadLeaves ==
  \A c \in Conn :
    streamClosed[c] \/ (~open[c] /\ pc[c] # "new") ~>
      (pc[c] \in {"done", "sendEnd"} \/ \E p \in Proc : AwaitsHandshake(p))
=============================================================================
